------------------------------ MODULE Keyboard ------------------------------
(***************************************************************************)
(* The PS/2 driver, Drivers/PS2Keyboard/driver.c.  The interrupt handler   *)
(* turns scan codes into characters, pushes them at the head of a ring and *)
(* empties the ring when it is full; kbd_getc, which kbd_gets calls, takes *)
(* them from the tail.  The handler runs with interrupts off: one scan code*)
(* is one step.  The reader may be interrupted between any two of its loads*)
(* and stores.                                                             *)
(*                                                                         *)
(* A character in the ring is a number, the number of the key press that   *)
(* made it, and what kbd_gets tells apart.  A letter, a digit, the enter   *)
(* and the backspace key stand for the rows of the layouts.  The echo and  *)
(* the escape sequences are left out.                                      *)
(***************************************************************************)
EXTENDS Integers, Sequences, SequencesExt

CONSTANTS
    KBD_BUF_SIZE,   \* the slots of the ring
    maxlen,         \* the length of the caller's out
    MaxKeys         \* bound: the key presses of a behaviour

ASSUME KeyboardAssumption ==
    /\ KBD_BUF_SIZE \in Nat \ {0, 1}
    /\ maxlen \in Nat \ {0}
    /\ MaxKeys \in Nat

Kinds == {"plain", "back", "enter"}
NUL == [n |-> 0, kind |-> "nul"]
Char == [n : 1 .. MaxKeys, kind : Kinds] \cup {NUL}
Slots == 0 .. KBD_BUF_SIZE - 1

ShiftKeys == {"lshift", "rshift"}       \* 0x2A and 0x36
Chars == {"none", "a", "A", "1", "!", "enter", "back"}

VARIABLES
    held,           \* external: the shift keys that are down
    shift,
    caps,
    extended,       \* whether the last code was the prefix 0xE0
    ch,             \* the character the last key press gave
    kbd_drvr_buf,
    kbd_buf_head,
    kbd_buf_tail,
    cursor_read,    \* whether kbd_getc has returned yet
    getc,           \* kbd_getc: its next step, the index and character it holds
    read,           \* kbd_gets: its count
    out,            \* and the caller's array, with what lies in front of it
    typed,          \* history: key presses whose character was not dropped
    last,           \* history: the last press whose character was returned
    full,           \* history: "no" overflow yet, "yes", or in a "race" with getc
    line            \* history: what kbd_getc returned to this kbd_gets

keys == <<held, shift, caps, extended, ch>>
vars == <<keys, kbd_drvr_buf, kbd_buf_head, kbd_buf_tail, cursor_read, getc, read, out,
          typed, last, full, line>>

ring == <<kbd_drvr_buf, kbd_buf_head, kbd_buf_tail>>

Idle == [at |-> "idle", index |-> 0, c |-> NUL]

(* Cells of the caller in front of out that a count below 0 leads to.      *)
Cells == -MaxKeys .. maxlen - 1

(* The statics, which InitKeyboardDriver sets to the same values.          *)
Init ==
    /\ held = {}
    /\ shift = FALSE
    /\ caps = FALSE
    /\ extended = FALSE
    /\ ch = "none"
    /\ kbd_drvr_buf = [s \in Slots |-> NUL]
    /\ kbd_buf_head = 0
    /\ kbd_buf_tail = 0
    /\ cursor_read = FALSE
    /\ getc = Idle
    /\ read = 0
    /\ out = [i \in Cells |-> NUL]
    /\ typed = 0
    /\ last = 0
    /\ full = "no"
    /\ line = <<>>

-----------------------------------------------------------------------------
(* The interrupt handler.                                                  *)

After(index) == (index + 1) % KBD_BUF_SIZE

(* The ring is emptied and every slot cleared.                             *)
OverflowKbdBfr ==
    /\ kbd_buf_head' = 0
    /\ kbd_buf_tail' = 0
    /\ kbd_drvr_buf' = [s \in Slots |-> NUL]

(* Mutant of HasRoom: the ring is never taken for full.                    *)
HasRoomForAll == After(kbd_buf_head) \in Slots
HasRoom == After(kbd_buf_head) # kbd_buf_tail

(* KbdPushback: a backspace is dropped until the first kbd_getc returns.   *)
Dropped(c) == c = "back" /\ ~cursor_read
KindOf(c) == IF c \in {"back", "enter"} THEN c ELSE "plain"

KbdPushback(c) ==
    /\ typed < MaxKeys
    /\ typed' = typed + 1
    /\ \/ /\ HasRoom
          /\ kbd_drvr_buf' = [kbd_drvr_buf EXCEPT
                                 ![kbd_buf_head] = [n |-> typed', kind |-> KindOf(c)]]
          /\ kbd_buf_head' = After(kbd_buf_head)
          /\ UNCHANGED <<kbd_buf_tail, full>>
       \/ /\ ~HasRoom
          /\ OverflowKbdBfr
          /\ full' = IF getc.at \in {"idle", "head", "return"} /\ full # "race"
                     THEN "yes" ELSE "race"

(* The three layouts, row by row: shift comes before caps, and caps changes*)
(* letters only.  Mutant: caps changes every key.                          *)
LayoutAllCaps(key) ==
    CASE key = "letter" -> IF shift \/ caps THEN "A" ELSE "a"
      [] key = "digit" -> IF shift \/ caps THEN "!" ELSE "1"
      [] OTHER -> key

Layout(key) ==
    CASE key = "letter" -> IF shift \/ caps THEN "A" ELSE "a"
      [] key = "digit" -> IF shift THEN "!" ELSE "1"
      [] OTHER -> key

(* KeyboardDriverMain, by what the scan code is.  0xE0 only sets extended; *)
(* behind another 0xE0 it changes nothing.                                 *)
Prefix ==
    /\ ~extended
    /\ extended' = TRUE
    /\ UNCHANGED <<held, shift, caps, ch, ring, typed, full>>

(* The code behind the prefix has no effect, whatever it is: an arrow key, *)
(* or the codes of the shift keys that a keyboard puts around one.  Mutant:*)
(* it is taken for the code without the prefix.                            *)
PrefixedTaken ==
    /\ extended
    /\ extended' = FALSE
    /\ shift' \in BOOLEAN
    /\ UNCHANGED <<held, caps, ch, ring, typed, full>>

Prefixed ==
    /\ extended
    /\ extended' = FALSE
    /\ UNCHANGED <<held, shift, caps, ch, ring, typed, full>>

(* A shift key goes down, or up.                                           *)
ShiftMake(key) ==
    /\ ~extended
    /\ held' = held \cup {key}
    /\ shift' = TRUE
    /\ UNCHANGED <<caps, extended, ch, ring, typed, full>>

ShiftBreak(key) ==
    /\ ~extended
    /\ key \in held
    /\ held' = held \ {key}
    /\ shift' = FALSE
    /\ UNCHANGED <<caps, extended, ch, ring, typed, full>>

CapsMake ==
    /\ ~extended
    /\ caps' = ~caps
    /\ UNCHANGED <<held, shift, extended, ch, ring, typed, full>>

(* Another key goes down.  (Its release, and a key whose layouts hold 0,   *)
(* change nothing but ch.)                                                 *)
CharMake(key) ==
    /\ ~extended
    /\ ch' = Layout(key)
    /\ IF Dropped(ch') THEN UNCHANGED <<ring, typed, full>> ELSE KbdPushback(ch')
    /\ UNCHANGED <<held, shift, caps, extended>>

KeyboardDriverMain ==
    /\ \/ Prefix
       \/ Prefixed
       \/ \E key \in ShiftKeys : ShiftMake(key) \/ ShiftBreak(key)
       \/ CapsMake
       \/ \E key \in {"letter", "digit", "enter", "back"} : CharMake(key)
    /\ UNCHANGED <<cursor_read, getc, read, out, last, line>>

-----------------------------------------------------------------------------
(* The reader.                                                             *)

(* kbd_gets clears out and reads its first character, unless maxlen is 1.  *)
kbd_gets ==
    /\ getc.at = "idle" /\ maxlen > 1
    /\ out' = [i \in Cells |-> IF i >= 0 THEN NUL ELSE out[i]]
    /\ read' = 0
    /\ line' = <<>>
    /\ getc' = [getc EXCEPT !.at = "head"]
    /\ UNCHANGED <<keys, ring, cursor_read, typed, last, full>>

(* while (kbd_buf_head == kbd_buf_tail): two loads.  CompareOnce is the    *)
(* mutant that does not wait.                                              *)
LoadHead ==
    /\ getc.at = "head"
    /\ getc' = [getc EXCEPT !.at = "compare", !.index = kbd_buf_head]
    /\ UNCHANGED <<keys, ring, cursor_read, read, out, typed, last, full, line>>

CompareOnce ==
    /\ getc.at = "compare"
    /\ getc' = [getc EXCEPT !.at = "tail", !.index = 0]
    /\ UNCHANGED <<keys, ring, cursor_read, read, out, typed, last, full, line>>

CompareTail ==
    /\ getc.at = "compare"
    /\ getc' = [getc EXCEPT !.at = IF getc.index = kbd_buf_tail THEN "head"
                                                                ELSE "tail",
                            !.index = 0]
    /\ UNCHANGED <<keys, ring, cursor_read, read, out, typed, last, full, line>>

(* c = kbd_drvr_buf[kbd_buf_tail]: two loads.                              *)
LoadTail ==
    /\ getc.at = "tail"
    /\ getc' = [getc EXCEPT !.at = "char", !.index = kbd_buf_tail]
    /\ UNCHANGED <<keys, ring, cursor_read, read, out, typed, last, full, line>>

LoadChar ==
    /\ getc.at = "char"
    /\ getc' = [at |-> "again", index |-> 0, c |-> kbd_drvr_buf[getc.index]]
    /\ UNCHANGED <<keys, ring, cursor_read, read, out, typed, last, full, line>>

(* kbd_buf_tail = (kbd_buf_tail + 1) % KBD_BUF_SIZE: a load and a store.   *)
LoadTailAgain ==
    /\ getc.at = "again"
    /\ getc' = [getc EXCEPT !.at = "store", !.index = kbd_buf_tail]
    /\ UNCHANGED <<keys, ring, cursor_read, read, out, typed, last, full, line>>

(* Mutant of TakeChar: a backspace leaves the character in out.            *)
TakeCharKeeps(c) ==
    CASE c.kind \in {"enter", "nul"} -> UNCHANGED <<read, out>>
      [] c.kind = "back" -> read' = read - 1 /\ UNCHANGED out
      [] c.kind = "plain" -> read' = read + 1 /\ out' = [out EXCEPT ![read] = c]

(* What kbd_gets makes of a character.                                     *)
TakeChar(c) ==
    CASE c.kind \in {"enter", "nul"} -> UNCHANGED <<read, out>>
      [] c.kind = "back" -> read' = read - 1 /\ out' = [out EXCEPT ![read - 1] = NUL]
      [] c.kind = "plain" -> read' = read + 1 /\ out' = [out EXCEPT ![read] = c]

EndsLine(c) == c.kind \in {"enter", "nul"} \/ read' >= maxlen - 1

(* Mutant of NewTail: the index is not advanced.                           *)
NewTailKept == getc.index
NewTail == After(getc.index)

StoreTail ==
    /\ getc.at = "store"
    /\ kbd_buf_tail' = NewTail
    /\ last' = IF getc.c = NUL THEN last ELSE getc.c.n
    /\ getc' = [getc EXCEPT !.at = "return", !.index = 0]
    /\ UNCHANGED <<keys, kbd_drvr_buf, kbd_buf_head, cursor_read, read, out, typed,
                   full, line>>

(* cursor_read++, and kbd_getc returns; kbd_gets calls it again unless the *)
(* line is complete.  (Then it returns the length of the string in out,    *)
(* Returned, whatever its count is.)  A backspace that comes between the   *)
(* first StoreTail and this is still dropped.                              *)
Return ==
    /\ getc.at = "return"
    /\ cursor_read' = TRUE
    /\ TakeChar(getc.c)
    /\ line' = Append(line, getc.c)
    /\ getc' = IF EndsLine(getc.c) THEN Idle ELSE [Idle EXCEPT !.at = "head"]
    /\ UNCHANGED <<keys, ring, typed, last, full>>

Returned == CHOOSE i \in 0 .. maxlen - 1 :
               out[i] = NUL /\ \A j \in 0 .. i - 1 : out[j] # NUL

Reader ==
    kbd_gets \/ LoadHead \/ CompareTail \/ LoadTail \/ LoadChar
             \/ LoadTailAgain \/ StoreTail \/ Return

Next ==
    \/ KeyboardDriverMain
    \/ Reader

Spec == Init /\ [][Next]_vars

-----------------------------------------------------------------------------
(* kbd_getc returns no character twice and none out of order, also after   *)
(* an overflow, unless the overflow fell between its loads and its store:  *)
(* then characters typed since may be returned twice or in another order.  *)
InOrder ==
    full # "race" /\ getc.at \in {"again", "store"} /\ getc.c # NUL => getc.c.n > last

(* kbd_getc returns a NUL, which ends the line kbd_gets reads, only after  *)
(* an overflow fell between its loads and its store.                       *)
NulMeansRace ==
    getc.at \in {"again", "store"} /\ getc.c = NUL => full = "race"

(* Until the first overflow the ring holds every character that was typed  *)
(* and not yet returned, in order, and nothing else.                       *)
RingLength == (kbd_buf_head - kbd_buf_tail + KBD_BUF_SIZE) % KBD_BUF_SIZE
NothingLost ==
    full = "no" =>
        /\ RingLength = typed - last
        /\ \A d \in 1 .. RingLength :
              kbd_drvr_buf[(kbd_buf_tail + d - 1) % KBD_BUF_SIZE].n = last + d

(* The lines that the first 0, 1, ... characters make, and whether a       *)
(* backspace among the characters meets an empty line.                     *)
Corrected(done, c) ==
    CASE c.kind = "plain" -> Append(done, c)
      [] c.kind = "back" /\ done # <<>> -> Front(done)
      [] OTHER -> done

Edits(chars) ==
    LET done[k \in 0 .. Len(chars)] ==
            IF k = 0 THEN <<>> ELSE Corrected(done[k - 1], chars[k])
    IN  done

Edited == Edits(line)[Len(line)]
UnderEdit ==
    \E k \in 1 .. Len(line) : line[k].kind = "back" /\ Edits(line)[k - 1] = <<>>

(* Whenever kbd_getc has returned, out is the line that was typed so far   *)
(* with its corrections, cut to maxlen - 1 and ended by a NUL, and its     *)
(* length is what kbd_gets returns, unless a backspace met an empty line.  *)
LineIsEdited ==
    ~UnderEdit =>
        /\ Returned = Len(Edited)
        /\ \A i \in 0 .. maxlen - 1 :
              out[i] = IF i < Returned THEN Edited[i + 1] ELSE NUL

(* shift stands for the keys: it is set while both shift keys are down and *)
(* clear while both are up, whatever prefixed codes the keyboard sends in  *)
(* between.  (With one of them down it may be either: the release of the   *)
(* other clears it.)                                                       *)
ShiftFollowsKeys ==
    /\ held = ShiftKeys => shift
    /\ held = {} => ~shift

(* A key gives a character of the shifted layout only while a shift key is *)
(* down, and a capital only then or under caps.                            *)
CharFollowsKeys ==
    [][ch' # ch => /\ ch' = "!" => held # {}
                   /\ ch' = "A" => held # {} \/ caps
                   /\ ch' = "a" => ~caps]_vars
=============================================================================
