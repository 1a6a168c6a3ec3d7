----------------------------- MODULE RegsProofs -----------------------------
(***************************************************************************)
(* What TLAPS proves of the hand-written assembly: of the two asm blocks of*)
(* context_switch (RegSwitch), whichever registers the compiler chooses,   *)
(* and of the stubs of the exceptions (Exceptions).  What the code in front*)
(* of the first block has overwritten is the only constant; the proofs say *)
(* why the runs find what they find.                                       *)
(***************************************************************************)
EXTENDS RegSwitch, Exceptions, TLAPS

-----------------------------------------------------------------------------
(* RegSwitch.                                                              *)

SwitchTyped ==
    /\ save_base \in Bases /\ restore_base \in Bases /\ used \subseteq Bases
    /\ regs \in [Registers -> Int]
    /\ Regs \in [Procedures -> [Registers -> Int]]
    /\ at.block \in {"save", "skip", "restore", "fault"}
    /\ at = [block |-> at.block, done |-> at.done]
    /\ at.done \in 0 .. 18
    /\ at.block = "save" => at.done <= 17

(* While a block runs, the register that addresses its Procedure holds that*)
(* address, or the zero that the second block has loaded over it.          *)
BasesSound ==
    /\ at.block = "save" => regs[save_base] = prev
    /\ at.block = "restore" => regs[restore_base] \in {next, Zero}
    /\ Regs[next] = Fresh

(* The first block changes no register, and stores what it found.          *)
SavesWhatItFound ==
    at.block = "save" =>
        /\ \A r \in Registers : regs[r] = Found(r)
        /\ \A n \in 1 .. at.done : Regs[prev][Move[n]] = regs[Move[n]]
        /\ Regs[prev][Move[18]] = EntryPoint

(* The second loads what next has.                                         *)
LoadsWhatIsSaved ==
    at.block \in {"restore", "fault"} =>
        \A n \in 1 .. at.done : regs[Move[n]] = Fresh[Move[n]]

(* A move that overwrites the address is the last one that completes.      *)
Unreached == at.block # "restore" \/ at.done < 18

SwitchInv ==
    /\ SwitchTyped
    /\ BasesSound
    /\ SavesWhatItFound
    /\ LoadsWhatIsSaved
    /\ Unreached

LEMMA MovesAreRegisters ==
  /\ \A n \in Moves : Move[n] \in Registers
  /\ \A r \in Registers : \E n \in Moves : Move[n] = r
  /\ \A r \in Bases : r \in Registers /\ r # Move[18]
  BY DEF Registers, Bases, Changed, Move

LEMMA MovesDiffer == \A k, n \in Moves : Move[k] = Move[n] => k = n
  BY DEF Moves, Move

LEMMA FreshIs ==
  /\ Fresh \in [Registers -> Int]
  /\ \A r \in Bases : Fresh[r] = Zero
  /\ Fresh[Move[18]] = EntryPoint
  BY DEF Fresh, Registers, Moves, Move, Bases, Changed, StackTop, Flags, EntryPoint, Zero

LEMMA NumberIs ==
  ASSUME NEW r \in Registers
  PROVE  Number(r) \in 1 .. 18
  BY MovesAreRegisters DEF Number, Moves

(* Only prev's address, the handler's values and the entry point are not   *)
(* what the interrupted code left.                                         *)
LEMMA FoundIs ==
  ASSUME NEW r \in Registers
  PROVE  /\ Found(r) \in Int
         /\ Found(r) = Live(r) <=> r \notin {save_base} \cup used \cup Changed
         /\ EntryPoint # Live(r)
  <1> DEFINE n == Number(r)
  <1>1. n \in 1 .. 18
    BY NumberIs
  <1>2. Live(r) = 100 + n /\ Handlers(r) = 200 + n
    BY DEF Live, Handlers
  <1> HIDE DEF n
  <1>3. Live(r) \in Int /\ Handlers(r) \in Int /\ prev \in Int
        /\ Live(r) # Handlers(r) /\ Live(r) # prev /\ Live(r) # EntryPoint
    BY <1>1, <1>2 DEF prev, EntryPoint
  <1>4. CASE r = save_base
    BY <1>3, <1>4 DEF Found
  <1>5. CASE r # save_base /\ r \in used \cup Changed
    BY <1>3, <1>5 DEF Found
  <1>6. CASE r # save_base /\ r \notin used \cup Changed
    BY <1>3, <1>6 DEF Found
  <1> QED BY <1>3, <1>4, <1>5, <1>6

LEMMA SwitchInit == Init => SwitchInv
  <1> SUFFICES ASSUME Init PROVE SwitchInv
    OBVIOUS
  <1>1. PICK b \in {"save", "skip"} : at = [block |-> b, done |-> 0]
    BY DEF Init
  <1>2. /\ regs \in [Registers -> Int]
        /\ \A r \in Registers : regs[r] = Found(r)
    BY FoundIs DEF Init
  <1>3. Regs \in [Procedures -> [Registers -> Int]] /\ Regs[next] = Fresh
        /\ Regs[prev] = Fresh
    BY FreshIs DEF Init, Procedures
  <1>4. /\ save_base \in Bases /\ restore_base \in Bases /\ used \subseteq Bases
        /\ regs[save_base] = prev
    <2>1. save_base \in Bases /\ restore_base \in Bases /\ used \subseteq Bases
      BY RegSwitchAssumption DEF Init
    <2> QED BY <1>2, <2>1, MovesAreRegisters DEF Found
  <1>5. SwitchTyped
    BY <1>1, <1>2, <1>3, <1>4 DEF SwitchTyped
  <1>6. BasesSound
    BY <1>1, <1>3, <1>4 DEF BasesSound
  <1>7. SavesWhatItFound
    BY <1>1, <1>2, <1>3, FreshIs DEF SavesWhatItFound
  <1>8. LoadsWhatIsSaved /\ Unreached
    BY <1>1 DEF LoadsWhatIsSaved, Unreached
  <1> QED BY <1>5, <1>6, <1>7, <1>8 DEF SwitchInv

LEMMA SaveKeepsInv == SwitchInv /\ Save => SwitchInv'
  <1> SUFFICES ASSUME SwitchInv, Save PROVE SwitchInv'
    OBVIOUS
  <1> DEFINE n == at.done + 1
             r == Move[n]
  <1>1. /\ at.block = "save" /\ n \in Moves /\ n <= 17 /\ at.done \in 0 .. 17
        /\ at' = [block |-> "save", done |-> n]
        /\ regs' = regs /\ save_base' = save_base /\ restore_base' = restore_base
        /\ used' = used
    BY DEF Save, SwitchInv, SwitchTyped, Saves, Moves
  <1>2. r \in Registers /\ regs[r] \in Int /\ prev \in Procedures /\ next \in Procedures
        /\ prev # next
    BY <1>1, MovesAreRegisters DEF SwitchInv, SwitchTyped, Procedures, prev, next
  <1>3. Regs' = [Regs EXCEPT ![prev] = [Regs[prev] EXCEPT ![r] = regs[r]]]
    BY <1>1 DEF Save, SwitchInv, BasesSound, Operand
  <1> HIDE DEF n, r
  <1>4. Regs' \in [Procedures -> [Registers -> Int]] /\ Regs'[next] = Fresh
        /\ Regs'[prev] = [Regs[prev] EXCEPT ![r] = regs[r]]
    BY <1>2, <1>3 DEF SwitchInv, SwitchTyped, BasesSound
  <1>5. \A k \in 1 .. n : Regs'[prev][Move[k]] = regs[Move[k]]
    <2> SUFFICES ASSUME NEW k \in 1 .. n PROVE Regs'[prev][Move[k]] = regs[Move[k]]
      OBVIOUS
    <2>1. Regs[prev] \in [Registers -> Int] /\ Move[k] \in Registers
      <3>1. Regs[prev] \in [Registers -> Int]
        BY <1>2 DEF SwitchInv, SwitchTyped
      <3>2. k \in Moves
        BY <1>1 DEF Moves
      <3> QED BY <3>1, <3>2, MovesAreRegisters
    <2>2. CASE Move[k] = r
      BY <1>4, <2>1, <2>2
    <2>3. CASE Move[k] # r
      <3>1. k \in 1 .. at.done
        BY <1>1, <2>3 DEF n, r
      <3>2. Regs[prev][Move[k]] = regs[Move[k]]
        BY <1>1, <3>1 DEF SwitchInv, SavesWhatItFound
      <3> QED BY <1>4, <2>1, <2>3, <3>2
    <2> QED BY <2>2, <2>3
  <1>6. SwitchTyped'
    BY <1>1, <1>4 DEF SwitchInv, SwitchTyped, Moves
  <1>7. BasesSound'
    BY <1>1, <1>4 DEF SwitchInv, BasesSound
  <1>8. Regs'[prev][Move[18]] = EntryPoint
    <2>1. 18 \in Moves /\ Regs[prev] \in [Registers -> Int] /\ Move[18] \in Registers
      BY <1>2, MovesAreRegisters DEF SwitchInv, SwitchTyped, Moves
    <2>2. Move[18] # r
      BY <1>1, <2>1, MovesDiffer DEF n, r
    <2> QED BY <1>1, <1>4, <2>1, <2>2 DEF SwitchInv, SavesWhatItFound
  <1>9. \A q \in Registers : regs'[q] = Found(q)'
    BY <1>1 DEF SwitchInv, SavesWhatItFound, Found
  <1>10. SavesWhatItFound'
    BY <1>1, <1>5, <1>8, <1>9 DEF SavesWhatItFound
  <1>11. LoadsWhatIsSaved' /\ Unreached'
    BY <1>1 DEF LoadsWhatIsSaved, Unreached
  <1> QED BY <1>6, <1>7, <1>10, <1>11 DEF SwitchInv

LEMMA BetweenKeepsInv == SwitchInv /\ Between => SwitchInv'
  <1> SUFFICES ASSUME SwitchInv, Between PROVE SwitchInv'
    OBVIOUS
  <1>1. /\ at' = [block |-> "restore", done |-> 0]
        /\ regs' = [regs EXCEPT ![restore_base] = next]
        /\ UNCHANGED <<save_base, restore_base, used, Regs>>
    BY DEF Between
  <1>2. restore_base \in Registers /\ next \in Int
    BY MovesAreRegisters DEF SwitchInv, SwitchTyped, next
  <1>3. SwitchTyped'
    BY <1>1, <1>2 DEF SwitchInv, SwitchTyped
  <1>4. BasesSound'
    BY <1>1, <1>2 DEF SwitchInv, SwitchTyped, BasesSound
  <1>5. SavesWhatItFound' /\ LoadsWhatIsSaved' /\ Unreached'
    BY <1>1 DEF SavesWhatItFound, LoadsWhatIsSaved, Unreached
  <1> QED BY <1>3, <1>4, <1>5 DEF SwitchInv

LEMMA FaultKeepsInv == SwitchInv /\ Fault => SwitchInv'
  <1> SUFFICES ASSUME SwitchInv, Fault PROVE SwitchInv'
    OBVIOUS
  <1>1. /\ at.block = "restore" /\ at' = [block |-> "fault", done |-> at.done]
        /\ UNCHANGED <<save_base, restore_base, used, regs, Regs>>
    BY DEF Fault, SwitchInv, SwitchTyped
  <1>2. SwitchTyped' /\ BasesSound' /\ Unreached'
    BY <1>1 DEF SwitchInv, SwitchTyped, BasesSound, Unreached
  <1>3. SavesWhatItFound' /\ LoadsWhatIsSaved'
    BY <1>1 DEF SwitchInv, SavesWhatItFound, LoadsWhatIsSaved
  <1> QED BY <1>2, <1>3 DEF SwitchInv

LEMMA RestoreKeepsInv == SwitchInv /\ Restore => SwitchInv'
  <1> SUFFICES ASSUME SwitchInv, Restore PROVE SwitchInv'
    OBVIOUS
  <1> DEFINE n == at.done + 1
             r == Move[n]
  <1>1. /\ at.block = "restore" /\ n \in Moves /\ at.done \in 0 .. 17
        /\ at' = [block |-> "restore", done |-> n]
        /\ Regs' = Regs /\ save_base' = save_base /\ restore_base' = restore_base
        /\ used' = used
        /\ restore_base \in Bases /\ restore_base \in Registers
    BY MovesAreRegisters DEF Restore, SwitchInv, SwitchTyped, Moves
  <1>2. regs[restore_base] = next
    BY <1>1 DEF Restore, SwitchInv, BasesSound, Procedures, prev, next, Zero
  <1>3. regs' = [regs EXCEPT ![r] = Fresh[r]]
    BY <1>1, <1>2 DEF Restore, SwitchInv, BasesSound, Operand
  <1>4. r \in Registers /\ Fresh[r] \in Int /\ regs \in [Registers -> Int]
    BY <1>1, MovesAreRegisters, FreshIs DEF SwitchInv, SwitchTyped
  <1>5. \A k \in 1 .. at.done : regs[Move[k]] = Fresh[Move[k]]
    BY <1>1 DEF SwitchInv, LoadsWhatIsSaved
  <1> HIDE DEF n, r
  <1>6. \A k \in 1 .. n : regs'[Move[k]] = Fresh[Move[k]]
    <2> SUFFICES ASSUME NEW k \in 1 .. n PROVE regs'[Move[k]] = Fresh[Move[k]]
      OBVIOUS
    <2>1. Move[k] \in Registers
      BY <1>1, MovesAreRegisters DEF Moves
    <2>2. Move[k] # r => k \in 1 .. at.done
      BY <1>1 DEF n, r
    <2> QED BY <1>3, <1>4, <1>5, <2>1, <2>2
  <1>7. regs'[restore_base] \in {next, Zero}
    BY <1>1, <1>2, <1>3, <1>4, FreshIs
  (* The address is overwritten by the move that loads its register, one   *)
  (* of the first seventeen.                                               *)
  <1>8. n # 18
    <2> SUFFICES ASSUME n = 18 PROVE FALSE
      OBVIOUS
    <2>1. PICK k \in Moves : Move[k] = restore_base /\ k # 18
      BY <1>1, MovesAreRegisters
    <2>2. k \in 1 .. at.done
      <3>1. at.done = 17
        BY <1>1 DEF n
      <3> QED BY <2>1, <3>1 DEF Moves
    <2>3. regs[restore_base] = Zero
      BY <1>1, <1>5, <2>1, <2>2, FreshIs
    <2> QED BY <1>2, <2>3 DEF next, Zero
  <1>9. SwitchTyped'
    BY <1>1, <1>3, <1>4 DEF SwitchInv, SwitchTyped, Moves
  <1>10. BasesSound'
    BY <1>1, <1>7 DEF SwitchInv, BasesSound
  <1>11. SavesWhatItFound' /\ LoadsWhatIsSaved' /\ Unreached'
    BY <1>1, <1>6, <1>8 DEF SavesWhatItFound, LoadsWhatIsSaved, Unreached, Moves
  <1> QED BY <1>9, <1>10, <1>11 DEF SwitchInv

LEMMA SwitchInductive == SwitchInv /\ [Next]_vars => SwitchInv'
  <1>1. SwitchInv /\ UNCHANGED vars => SwitchInv'
    BY DEF vars, SwitchInv, SwitchTyped, BasesSound, SavesWhatItFound, Found,
           LoadsWhatIsSaved, Unreached
  <1> QED BY <1>1, SaveKeepsInv, BetweenKeepsInv, FaultKeepsInv, RestoreKeepsInv DEF Next

(* "Save current process registers": whichever register addresses prev and *)
(* whatever the code in front of the block has overwritten, the context it *)
(* saves lacks exactly the register that addresses prev, the overwritten   *)
(* ones, the stack pointer, the flags and the instruction pointer.         *)
THEOREM SaveLosesItsBase == Spec => []LostBySave
  <1>1. SwitchInv => LostBySave
    <2> SUFFICES ASSUME SwitchInv, Saved
                 PROVE  {r \in Registers : Regs[prev][r] # Live(r)}
                            = {save_base} \cup used \cup Changed
      BY DEF LostBySave
    <2>1. at.block = "save" /\ at.done = 17 /\ SwitchTyped /\ SavesWhatItFound
      BY DEF Saved, SwitchInv
    <2>2. ASSUME NEW r \in Registers
          PROVE  Regs[prev][r] # Live(r) <=> r \in {save_base} \cup used \cup Changed
      <3>1. PICK n \in Moves : Move[n] = r
        BY MovesAreRegisters
      <3>2. CASE n = 18
        <4>1. r \in Changed
          BY <3>1, <3>2 DEF Move, Changed
        <4>2. Regs[prev][r] = EntryPoint
          BY <2>1, <3>1, <3>2 DEF SavesWhatItFound
        <4> QED BY <4>1, <4>2, FoundIs
      <3>3. CASE n # 18
        <4>1. Regs[prev][r] = Found(r)
          BY <2>1, <3>1, <3>3 DEF SavesWhatItFound, Moves
        <4> QED BY <4>1, FoundIs
      <3> QED BY <3>2, <3>3
    <2>3. {save_base} \cup used \cup Changed \subseteq Registers
      <3>1. Changed \subseteq Registers
        BY DEF Changed, Registers, Moves, Move
      <3> QED BY <2>1, <3>1, MovesAreRegisters DEF SwitchTyped
    <2> QED BY <2>2, <2>3
  <1> QED BY <1>1, SwitchInit, SwitchInductive, PTL DEF Spec

(* Whichever register the compiler chooses, the second block of            *)
(* context_switch does not get as far as its jump: what the run of         *)
(* RestoreJumps finds for one choice is so for each of the fifteen.        *)
THEOREM SwitchNeverJumps == Spec => [](at.block = "restore" => at.done # 18)
  <1>1. SwitchInv => (at.block = "restore" => at.done # 18)
    BY DEF SwitchInv, Unreached, SwitchTyped
  <1> QED BY <1>1, SwitchInit, SwitchInductive, PTL DEF Spec

-----------------------------------------------------------------------------
(* Exceptions.                                                             *)

Words ==
    {Own(r) : r \in Names} \cup {Code(n) : n \in Nat} \cup {Frame(n) : n \in Nat}
        \cup {Vector(v) : v \in Vectors} \cup {Junk, NoCode}

Exception == [vector : Vectors, low : BOOLEAN, next : Nat, registers : [Names -> Words]]

Table == [v \in Vectors |-> IF v \in isr_err_stub THEN ErrStub ELSE NoErrStub]

ExcTyped ==
    /\ idt \in {<<>>, Table}
    /\ register \in [Names -> Words]
    /\ stack \in Seq(Words)
    /\ frames \in Seq(Exception)
    /\ running \in {"code", "stub", "handler", "hlt"}

(* The stub of a vector that has no code to pop: its handler halts, so that*)
(* it does not get behind its call.                                        *)
WithoutCode ==
    top.vector \notin isr_err_stub =>
        /\ running = "stub" =>
              /\ top.next \in 1 .. 5
              /\ top.next >= 4 => register["rsi"] = NoCode
              /\ top.next = 5 => register["rdi"] = Vector(top.vector)
        /\ running # "stub" => passed = [vector |-> Vector(top.vector), code |-> NoCode]

(* The stub of one that has: the code goes from the stack to rsi.          *)
WithCode ==
    top.vector \in isr_err_stub =>
        /\ top.next \in 1 .. 6
        /\ running = "stub" /\ top.next = 1 => stack # <<>> /\ Head(stack) = Code(Len(frames))
        /\ running = "stub" /\ top.next \in 2 .. 4 => register["rsi"] = Code(Len(frames))
        /\ running = "stub" /\ top.next = 4 => register["rdi"] = Vector(top.vector)
        /\ running # "stub" =>
              /\ top.next = 5
              /\ passed = [vector |-> Vector(top.vector), code |-> Code(Len(frames))]

(* Only an exception that no other is below can return: what its stub has  *)
(* on the stack, and the registers it must leave as they were.             *)
Outermost ==
    Len(frames) = 1 /\ top.vector \in isr_err_stub =>
        /\ register["rbx"] = top.registers["rbx"]
        /\ top.next = 1 => stack = <<Code(1), Frame(1)>>
        /\ top.next \in {2, 6} => stack = <<Frame(1)>>
        /\ top.next \in {3, 4, 5} => stack = <<top.registers["rdi"], Frame(1)>>
        /\ top.next \in {1, 2, 6} => register["rdi"] = top.registers["rdi"]

(* An exception inside another is the page fault of mmap at address 0, and *)
(* is not handled.                                                         *)
Nested ==
    /\ Len(frames) \in {1, 2}
    /\ Len(frames) = 2 => /\ top.vector = PageFault /\ top.low
                          /\ running = "stub" => top.next \in 1 .. 4

InHandler == idt = Table /\ Nested /\ WithoutCode /\ WithCode /\ Outermost

ExcInv ==
    /\ ExcTyped
    /\ running = "code" => frames = <<>> /\ stack = <<>> /\ RegistersComeBack
    /\ running # "code" => InHandler

LEMMA WordsAre ==
  /\ \A r \in Names : Own(r) \in Words
  /\ \A n \in Nat : Code(n) \in Words /\ Frame(n) \in Words
  /\ \A v \in Vectors : Vector(v) \in Words
  /\ Junk \in Words /\ NoCode \in Words
  BY DEF Words

LEMMA VectorsDiffer == \A v, w \in Vectors : Vector(v) = Vector(w) => v = w
  BY DEF Vector

LEMMA Instructions ==
  /\ ErrStub[1] = Pop("rsi") /\ ErrStub[2] = Push("rdi") /\ ErrStub[3] = MovVector
  /\ ErrStub[4] = Call /\ ErrStub[5] = Pop("rdi") /\ ErrStub[6] = Iretq
  /\ NoErrStub[1] = Push("rsi") /\ NoErrStub[2] = Push("rdi") /\ NoErrStub[3] = XorRsi
  /\ NoErrStub[4] = MovVector /\ NoErrStub[5] = Call
  BY DEF ErrStub, NoErrStub

(* The next instruction of the stub that runs, from its place.             *)
Place(op, arg) ==
    /\ top.vector \in isr_err_stub =>
        /\ top.next = 1 => op = "pop" /\ arg = "rsi"
        /\ top.next = 2 => op = "push" /\ arg = "rdi"
        /\ top.next = 3 => op = "mov" /\ arg = "rdi"
        /\ top.next = 4 => op = "call"
        /\ top.next = 5 => op = "pop" /\ arg = "rdi"
        /\ top.next = 6 => op = "iretq"
    /\ top.vector \notin isr_err_stub =>
        /\ top.next = 1 => op = "push" /\ arg = "rsi"
        /\ top.next = 2 => op = "push" /\ arg = "rdi"
        /\ top.next = 3 => op = "xor" /\ arg = "rsi"
        /\ top.next = 4 => op = "mov" /\ arg = "rdi"
        /\ top.next = 5 => op = "call"

LEMMA Operations ==
  /\ \A r \in Names : Pop(r).op = "pop" /\ Pop(r).arg = r
  /\ \A r \in Names : Push(r).op = "push" /\ Push(r).arg = r
  /\ MovVector.op = "mov" /\ MovVector.arg = "rdi" /\ XorRsi.op = "xor" /\ XorRsi.arg = "rsi"
  /\ Call.op = "call" /\ Iretq.op = "iretq"
  BY DEF Instruction, Pop, Push, MovVector, XorRsi, Call, Iretq

LEMMA TopIs ==
  ASSUME ExcTyped, frames # <<>>
  PROVE  top \in Exception /\ Len(frames) \in Nat \ {0}
  <1>1. frames \in Seq(Exception)
    BY DEF ExcTyped
  <1> HIDE DEF Exception
  <1> QED BY <1>1 DEF top

LEMMA ProceedIs ==
  ASSUME ExcTyped, frames # <<>>, Proceed
  PROVE  /\ Len(frames') = Len(frames) /\ frames' \in Seq(Exception)
         /\ top' = [top EXCEPT !.next = @ + 1]
  <1>1. frames \in Seq(Exception) /\ 1 \in DOMAIN frames
    BY DEF ExcTyped
  <1>2. [top EXCEPT !.next = @ + 1] \in Exception
    BY TopIs DEF Exception
  <1>3. frames' = [frames EXCEPT ![1] = [top EXCEPT !.next = @ + 1]]
    BY DEF Proceed, top
  <1> HIDE DEF Exception
  <1> QED BY <1>1, <1>2, <1>3 DEF top

LEMMA PlaceIs ==
  ASSUME ExcInv, running = "stub"
  PROVE  /\ InHandler /\ ExcTyped /\ frames # <<>> /\ top \in Exception
         /\ Place(instruction.op, instruction.arg)
         /\ top.vector \notin isr_err_stub => top.next \in 1 .. 5
         /\ top.vector \in isr_err_stub => top.next \in 1 .. 6
  <1>1. InHandler /\ ExcTyped
    BY DEF ExcInv
  <1>2. frames # <<>>
    BY <1>1 DEF InHandler, Nested
  <1>3. top \in Exception
    BY <1>1, <1>2, TopIs
  <1>4. instruction = IF top.vector \in isr_err_stub THEN ErrStub[top.next]
                                                     ELSE NoErrStub[top.next]
    BY <1>1, <1>3 DEF instruction, InHandler, Table, Exception
  <1> HIDE DEF instruction
  <1>5. CASE top.vector \in isr_err_stub
    <2>1. top.next \in 1 .. 6
      BY <1>1, <1>5 DEF InHandler, WithCode
    <2>2. /\ top.next = 1 => instruction = Pop("rsi")
          /\ top.next = 2 => instruction = Push("rdi")
          /\ top.next = 3 => instruction = MovVector
          /\ top.next = 4 => instruction = Call
          /\ top.next = 5 => instruction = Pop("rdi")
          /\ top.next = 6 => instruction = Iretq
      BY <1>4, <1>5, Instructions
    <2>3. Place(instruction.op, instruction.arg)
      BY <1>5, <2>2, Operations DEF Place, Names
    <2> QED BY <1>1, <1>2, <1>3, <1>5, <2>1, <2>3
  <1>6. CASE top.vector \notin isr_err_stub
    <2>1. top.next \in 1 .. 5
      BY <1>1, <1>6 DEF InHandler, WithoutCode
    <2>2. /\ top.next = 1 => instruction = Push("rsi")
          /\ top.next = 2 => instruction = Push("rdi")
          /\ top.next = 3 => instruction = XorRsi
          /\ top.next = 4 => instruction = MovVector
          /\ top.next = 5 => instruction = Call
      BY <1>4, <1>6, Instructions
    <2>3. Place(instruction.op, instruction.arg)
      BY <1>6, <2>2, Operations DEF Place, Names
    <2> QED BY <1>1, <1>2, <1>3, <1>6, <2>1, <2>3
  <1> QED BY <1>5, <1>6

LEMMA Stacks ==
  ASSUME NEW s \in Seq(Words), NEW x \in Words
  PROVE  /\ <<x>> \o s \in Seq(Words) /\ <<x>> \o s # <<>> /\ Head(<<x>> \o s) = x
         /\ \A y \in Words : s = <<y>> => <<x>> \o s = <<x, y>>
         /\ s # <<>> => Head(s) \in Words /\ Tail(s) \in Seq(Words)
         /\ \A y \in Words : s = <<x, y>> => Tail(s) = <<y>> /\ Head(s) = x
         /\ s = <<x>> => Tail(s) = <<>> /\ Head(s) = x
  <1> HIDE DEF Words
  <1>1. <<x>> \o s \in Seq(Words) /\ <<x>> \o s # <<>> /\ Head(<<x>> \o s) = x
    OBVIOUS
  <1>2. ASSUME NEW y \in Words, s = <<y>> PROVE <<x>> \o s = <<x, y>>
    <2> DEFINE j == <<x>> \o <<y>>
    <2>1. j \in Seq(Words) /\ Len(j) = 2 /\ j[1] = x /\ j[2] = y
      OBVIOUS
    <2> HIDE DEF j
    <2>2. j = <<j[1], j[2]>>
      BY <2>1
    <2>3. j = <<x, y>>
      BY <2>1, <2>2
    <2> QED BY <1>2, <2>3 DEF j
  <1>3. s # <<>> => Head(s) \in Words /\ Tail(s) \in Seq(Words)
    OBVIOUS
  <1>4. \A y \in Words : s = <<x, y>> => Tail(s) = <<y>> /\ Head(s) = x
    OBVIOUS
  <1>5. s = <<x>> => Tail(s) = <<>> /\ Head(s) = x
    OBVIOUS
  <1> QED BY <1>1, <1>2, <1>3, <1>4, <1>5

(* What a step within a stub keeps.                                        *)
LEMMA StubStep ==
  ASSUME ExcInv, running = "stub", Proceed
  PROVE  /\ Len(frames') = Len(frames) /\ frames' \in Seq(Exception)
         /\ top'.vector = top.vector /\ top'.low = top.low
         /\ top'.registers = top.registers /\ top'.next = top.next + 1
         /\ top.next \in Nat /\ top.registers \in [Names -> Words]
         /\ top.vector \in Vectors
         /\ Len(frames) = 2 => top.vector \in isr_err_stub
  <1>1. frames # <<>> /\ ExcTyped /\ InHandler /\ top \in Exception
    BY PlaceIs
  <1>2. Len(frames) = 2 => top.vector \in isr_err_stub
    BY <1>1 DEF InHandler, Nested, PageFault, isr_err_stub
  <1> QED BY <1>1, <1>2, ProceedIs DEF Exception

LEMMA PushKeepsInv == ExcInv /\ PushRegister => ExcInv'
  <1> SUFFICES ASSUME ExcInv, PushRegister PROVE ExcInv'
    OBVIOUS
  <1> DEFINE r == instruction.arg
  <1>1. /\ running = "stub" /\ running' = "stub" /\ instruction.op = "push" /\ Proceed
        /\ stack' = <<register[r]>> \o stack
        /\ UNCHANGED <<idt, register, passed, resumed>>
    BY DEF PushRegister, Executes
  <1>2. InHandler /\ ExcTyped /\ top \in Exception
    BY <1>1, PlaceIs
  <1>3. /\ Len(frames') = Len(frames) /\ frames' \in Seq(Exception)
        /\ top'.vector = top.vector /\ top'.low = top.low
        /\ top'.registers = top.registers /\ top'.next = top.next + 1
        /\ top.next \in Nat /\ top.registers \in [Names -> Words]
        /\ Len(frames) = 2 => top.vector \in isr_err_stub
    BY <1>1, StubStep
  <1>4. /\ top.vector \in isr_err_stub => top.next = 2 /\ r = "rdi"
        /\ top.vector \notin isr_err_stub => top.next \in {1, 2} /\ r \in Names
    <2>1. /\ Place("push", r)
          /\ top.vector \notin isr_err_stub => top.next \in 1 .. 5
          /\ top.vector \in isr_err_stub => top.next \in 1 .. 6
      BY <1>1, PlaceIs
    <2> HIDE DEF r
    <2> QED BY <2>1 DEF Place, Names
  <1> HIDE DEF r
  <1>5. register[r] \in Words /\ stack \in Seq(Words) /\ "rdi" \in Names
    BY <1>2, <1>4 DEF ExcTyped, Names
  <1>6. ExcTyped'
    BY <1>1, <1>2, <1>3, <1>5, Stacks DEF ExcTyped
  <1>7. Nested' /\ WithoutCode' /\ WithCode'
    BY <1>1, <1>2, <1>3, <1>4 DEF InHandler, Nested, WithoutCode, WithCode
  <1>8. Outermost'
    <2> SUFFICES ASSUME Len(frames) = 1, top.vector \in isr_err_stub
                 PROVE  Outermost'
      BY <1>3 DEF Outermost
    <2>1. /\ register["rbx"] = top.registers["rbx"] /\ stack = <<Frame(1)>>
          /\ register["rdi"] = top.registers["rdi"] /\ r = "rdi" /\ top'.next = 3
      BY <1>2, <1>3, <1>4 DEF InHandler, Outermost
    <2>2. stack' = <<top.registers["rdi"], Frame(1)>>
      BY <1>1, <1>5, <2>1, Stacks, WordsAre
    <2>3. /\ register'["rbx"] = top'.registers["rbx"]
          /\ stack' = <<top'.registers["rdi"], Frame(1)>>
      BY <1>1, <1>3, <2>1, <2>2
    <2> QED BY <2>1, <2>3 DEF Outermost
  <1>9. InHandler'
    BY <1>1, <1>2, <1>7, <1>8 DEF InHandler
  <1> QED BY <1>1, <1>6, <1>9 DEF ExcInv

LEMMA PopKeepsInv == ExcInv /\ PopRegister => ExcInv'
  <1> SUFFICES ASSUME ExcInv, PopRegister PROVE ExcInv'
    OBVIOUS
  <1> DEFINE r == instruction.arg
  <1>1. /\ running = "stub" /\ running' = "stub" /\ instruction.op = "pop" /\ Proceed
        /\ stack' = Tail(stack) /\ register' = [register EXCEPT ![r] = Head(stack)]
        /\ UNCHANGED <<idt, passed, resumed>>
    BY DEF PopRegister, Executes
  <1>2. InHandler /\ ExcTyped /\ top \in Exception
    BY <1>1, PlaceIs
  <1>3. /\ Len(frames') = Len(frames) /\ frames' \in Seq(Exception)
        /\ top'.vector = top.vector /\ top'.low = top.low
        /\ top'.registers = top.registers /\ top'.next = top.next + 1
        /\ top.next \in Nat /\ top.registers \in [Names -> Words]
        /\ Len(frames) = 2 => top.vector \in isr_err_stub
    BY <1>1, StubStep
  <1>4. /\ top.vector \in isr_err_stub
        /\ (top.next = 1 /\ r = "rsi") \/ (top.next = 5 /\ r = "rdi")
    <2>1. /\ Place("pop", r)
          /\ top.vector \notin isr_err_stub => top.next \in 1 .. 5
          /\ top.vector \in isr_err_stub => top.next \in 1 .. 6
      BY <1>1, PlaceIs
    <2> HIDE DEF r
    <2> QED BY <2>1 DEF Place
  <1> HIDE DEF r
  <1>5. r \in Names /\ register \in [Names -> Words] /\ stack \in Seq(Words)
        /\ {"rbx", "rsi", "rdi"} \subseteq Names
    BY <1>2, <1>4 DEF ExcTyped, Names
  <1>6. CASE top.next = 1
    <2>1. r = "rsi" /\ stack # <<>> /\ Head(stack) = Code(Len(frames))
      BY <1>1, <1>2, <1>4, <1>6 DEF InHandler, WithCode
    <2>2. Head(stack) \in Words /\ Tail(stack) \in Seq(Words)
      BY <1>5, <2>1, Stacks, WordsAre
    <2>3. ExcTyped'
      BY <1>1, <1>2, <1>3, <1>5, <2>2 DEF ExcTyped
    <2>4. /\ register'["rsi"] = Code(Len(frames))
          /\ register'["rdi"] = register["rdi"] /\ register'["rbx"] = register["rbx"]
      BY <1>1, <1>5, <2>1
    <2>5. Nested' /\ WithoutCode' /\ WithCode'
      BY <1>1, <1>2, <1>3, <1>4, <1>6, <2>4 DEF InHandler, Nested, WithoutCode, WithCode
    <2>6. Len(frames) = 1 => stack' = <<Frame(1)>>
      <3>1. Len(frames) = 1 => stack = <<Code(1), Frame(1)>>
        BY <1>2, <1>4, <1>6 DEF InHandler, Outermost
      <3>2. Code(1) \in Words /\ Frame(1) \in Words
        BY WordsAre
      <3>3. ASSUME NEW x \in Words, NEW y \in Words, stack = <<x, y>> PROVE Tail(stack) = <<y>>
        BY <1>5, <3>3, Stacks
      <3> QED BY <1>1, <3>1, <3>2, <3>3
    <2>7. Outermost'
      BY <1>2, <1>3, <1>4, <1>6, <2>4, <2>6 DEF InHandler, Outermost
    <2>8. InHandler'
      BY <1>1, <1>2, <2>5, <2>7 DEF InHandler
    <2> QED BY <1>1, <2>3, <2>8 DEF ExcInv
  <1>7. CASE top.next = 5
    <2>1. r = "rdi" /\ Len(frames) = 1
      BY <1>1, <1>2, <1>4, <1>7 DEF InHandler, Nested
    <2>2. stack = <<top.registers["rdi"], Frame(1)>> /\ top.registers["rdi"] \in Words
      BY <1>2, <1>3, <1>4, <1>5, <1>7, <2>1 DEF InHandler, Outermost
    <2>3. /\ Tail(stack) = <<Frame(1)>> /\ Head(stack) = top.registers["rdi"]
      BY <1>5, <2>2, Stacks, WordsAre
    <2>4. ExcTyped'
      <3>1. <<Frame(1)>> \in Seq(Words)
        <4>1. Frame(1) \in Words
          BY WordsAre
        <4> HIDE DEF Words
        <4> QED BY <4>1
      <3> QED BY <1>1, <1>2, <1>3, <1>5, <2>2, <2>3, <3>1 DEF ExcTyped
    <2>5. /\ register'["rdi"] = top.registers["rdi"] /\ register'["rbx"] = register["rbx"]
      BY <1>1, <1>5, <2>1, <2>3
    <2>6. Nested' /\ WithoutCode' /\ WithCode'
      BY <1>1, <1>2, <1>3, <1>4, <1>7, <2>1 DEF InHandler, Nested, WithoutCode, WithCode
    <2>7. Outermost'
      BY <1>1, <1>2, <1>3, <1>4, <1>7, <2>1, <2>3, <2>5 DEF InHandler, Outermost
    <2>8. InHandler'
      BY <1>1, <1>2, <2>6, <2>7 DEF InHandler
    <2> QED BY <1>1, <2>4, <2>8 DEF ExcInv
  <1> QED BY <1>4, <1>6, <1>7

LEMMA LoadKeepsInv == ExcInv /\ LoadArgument => ExcInv'
  <1> SUFFICES ASSUME ExcInv, LoadArgument PROVE ExcInv'
    OBVIOUS
  <1> DEFINE r == instruction.arg
             w == IF instruction.op = "mov" THEN Vector(top.vector) ELSE NoCode
  <1>1. /\ running = "stub" /\ running' = "stub" /\ Proceed
        /\ instruction.op \in {"mov", "xor"}
        /\ register' = [register EXCEPT ![r] = w]
        /\ UNCHANGED <<idt, stack, passed, resumed>>
    BY DEF LoadArgument, Executes
  <1>2. InHandler /\ ExcTyped /\ top \in Exception
    BY <1>1, PlaceIs
  <1>3. /\ Len(frames') = Len(frames) /\ frames' \in Seq(Exception)
        /\ top'.vector = top.vector /\ top'.low = top.low
        /\ top'.registers = top.registers /\ top'.next = top.next + 1
        /\ top.next \in Nat /\ top.registers \in [Names -> Words]
        /\ top.vector \in Vectors
        /\ Len(frames) = 2 => top.vector \in isr_err_stub
    BY <1>1, StubStep
  <1>4. \/ top.vector \in isr_err_stub /\ top.next = 3 /\ r = "rdi" /\ w = Vector(top.vector)
        \/ top.vector \notin isr_err_stub /\ top.next = 3 /\ r = "rsi" /\ w = NoCode
        \/ top.vector \notin isr_err_stub /\ top.next = 4 /\ r = "rdi" /\ w = Vector(top.vector)
    <2>1. /\ Place(instruction.op, r)
          /\ top.vector \notin isr_err_stub => top.next \in 1 .. 5
          /\ top.vector \in isr_err_stub => top.next \in 1 .. 6
      BY <1>1, PlaceIs
    <2> HIDE DEF r
    <2> QED BY <1>1, <2>1 DEF Place
  <1> HIDE DEF r, w
  <1>5. /\ w \in Words /\ register \in [Names -> Words]
        /\ {"rbx", "rsi", "rdi"} \subseteq Names
    BY <1>2, <1>3, <1>4, WordsAre DEF ExcTyped, Names
  <1>6. ExcTyped'
    BY <1>1, <1>2, <1>3, <1>4, <1>5 DEF ExcTyped
  <1>7. /\ register'["rbx"] = register["rbx"]
        /\ r = "rdi" => register'["rdi"] = w /\ register'["rsi"] = register["rsi"]
        /\ r = "rsi" => register'["rsi"] = w /\ register'["rdi"] = register["rdi"]
    BY <1>1, <1>4, <1>5
  <1>8. Nested'
    BY <1>1, <1>2, <1>3, <1>4 DEF InHandler, Nested
  <1>9. WithoutCode'
    BY <1>1, <1>2, <1>3, <1>4, <1>7 DEF InHandler, WithoutCode
  <1>10. WithCode'
    BY <1>1, <1>2, <1>3, <1>4, <1>7 DEF InHandler, WithCode
  <1>11. Outermost'
    <2> SUFFICES ASSUME Len(frames) = 1, top.vector \in isr_err_stub
                 PROVE  Outermost'
      BY <1>3 DEF Outermost
    <2>1. /\ register["rbx"] = top.registers["rbx"] /\ top'.next = 4
          /\ stack = <<top.registers["rdi"], Frame(1)>>
      BY <1>2, <1>3, <1>4 DEF InHandler, Outermost
    <2>2. /\ register'["rbx"] = top'.registers["rbx"]
          /\ stack' = <<top'.registers["rdi"], Frame(1)>>
      BY <1>1, <1>3, <1>7, <2>1
    <2> QED BY <2>1, <2>2 DEF Outermost
  <1>12. InHandler'
    BY <1>1, <1>2, <1>8, <1>9, <1>10, <1>11 DEF InHandler
  <1> QED BY <1>1, <1>6, <1>12 DEF ExcInv

LEMMA CallKeepsInv == ExcInv /\ CallHandler => ExcInv'
  <1> SUFFICES ASSUME ExcInv, CallHandler PROVE ExcInv'
    OBVIOUS
  <1>1. /\ running = "stub" /\ running' = "handler" /\ instruction.op = "call" /\ Proceed
        /\ passed' = [vector |-> register["rdi"], code |-> register["rsi"]]
        /\ UNCHANGED <<idt, register, stack, resumed>>
    BY DEF CallHandler, Executes
  <1>2. InHandler /\ ExcTyped /\ top \in Exception
    BY <1>1, PlaceIs
  <1>3. /\ Len(frames') = Len(frames) /\ frames' \in Seq(Exception)
        /\ top'.vector = top.vector /\ top'.low = top.low
        /\ top'.registers = top.registers /\ top'.next = top.next + 1
        /\ top.next \in Nat
    BY <1>1, StubStep
  <1>4. /\ top.vector \in isr_err_stub => top.next = 4
        /\ top.vector \notin isr_err_stub => top.next = 5
    <2>1. /\ Place("call", instruction.arg)
          /\ top.vector \notin isr_err_stub => top.next \in 1 .. 5
          /\ top.vector \in isr_err_stub => top.next \in 1 .. 6
      BY <1>1, PlaceIs
    <2> QED BY <2>1 DEF Place
  <1>5. ExcTyped'
    BY <1>1, <1>2, <1>3 DEF ExcTyped
  <1>6. Nested'
    BY <1>1, <1>2, <1>3 DEF InHandler, Nested
  <1>7. WithoutCode'
    BY <1>1, <1>2, <1>3, <1>4 DEF InHandler, WithoutCode
  <1>8. WithCode'
    BY <1>1, <1>2, <1>3, <1>4 DEF InHandler, WithCode
  <1>9. Outermost'
    BY <1>1, <1>2, <1>3, <1>4 DEF InHandler, Outermost
  <1>10. InHandler'
    BY <1>1, <1>2, <1>6, <1>7, <1>8, <1>9 DEF InHandler
  <1> QED BY <1>1, <1>5, <1>10 DEF ExcInv

LEMMA ReturnKeepsInv == ExcInv /\ Return => ExcInv'
  <1> SUFFICES ASSUME ExcInv, Return PROVE ExcInv'
    OBVIOUS
  <1>1. /\ running = "stub" /\ instruction.op = "iretq"
        /\ running' = IF Head(stack) = Frame(Len(frames)) THEN "code" ELSE "lost"
        /\ stack' = Tail(stack) /\ frames' = Tail(frames) /\ resumed' = top.registers
        /\ UNCHANGED <<idt, register, passed>>
    BY DEF Return, Executes
  <1>2. InHandler /\ ExcTyped /\ top \in Exception
    BY <1>1, PlaceIs
  <1>3. top.vector \in isr_err_stub /\ top.next = 6
    <2>1. /\ Place("iretq", instruction.arg)
          /\ top.vector \notin isr_err_stub => top.next \in 1 .. 5
          /\ top.vector \in isr_err_stub => top.next \in 1 .. 6
      BY <1>1, PlaceIs
    <2> QED BY <2>1 DEF Place
  <1>4. Len(frames) = 1
    BY <1>1, <1>2, <1>3 DEF InHandler, Nested
  <1>5. /\ stack = <<Frame(1)>>
        /\ register["rbx"] = top.registers["rbx"] /\ register["rdi"] = top.registers["rdi"]
    BY <1>2, <1>3, <1>4 DEF InHandler, Outermost
  <1>6. Tail(stack) = <<>> /\ Head(stack) = Frame(1)
    BY <1>5
  <1>7. Tail(frames) = <<>>
    <2>1. frames \in Seq(Exception)
      BY <1>2 DEF ExcTyped
    <2> HIDE DEF Exception
    <2> DEFINE rest == Tail(frames)
    <2>2. rest \in Seq(Exception) /\ Len(rest) = 0
      BY <1>4, <2>1
    <2> HIDE DEF rest
    <2>3. rest = <<>>
      BY <2>2
    <2> QED BY <2>3 DEF rest
  <1>8. running' = "code" /\ frames' = <<>> /\ stack' = <<>>
    BY <1>1, <1>4, <1>6, <1>7
  <1>9. RegistersComeBack'
    BY <1>1, <1>5 DEF RegistersComeBack
  <1>10. ExcTyped'
    <2>1. <<>> \in Seq(Words) /\ <<>> \in Seq(Exception)
      OBVIOUS
    <2> QED BY <1>1, <1>2, <1>8, <2>1 DEF ExcTyped
  <1> QED BY <1>8, <1>9, <1>10 DEF ExcInv

(* An exception enters its stub: the first of the kernel's code, or one of *)
(* the handler.                                                            *)
LEMMA RaiseEntersStub ==
  ASSUME ExcTyped, NEW v \in Vectors, NEW low \in BOOLEAN, Raise(v, low), idt = Table,
         \/ frames = <<>> /\ stack = <<>>
         \/ Len(frames) = 1 /\ v = PageFault /\ low
  PROVE  ExcInv'
  <1> DEFINE n == Len(frames) + 1
             f == [vector |-> v, low |-> low, next |-> 1, registers |-> register]
             pushed == IF v \in PushesCode THEN <<Code(n)>> ELSE <<>>
  <1>1. /\ frames' = <<f>> \o frames /\ running' = "stub"
        /\ stack' = pushed \o <<Frame(n)>> \o stack
        /\ UNCHANGED <<idt, register, passed, resumed>>
    BY DEF Raise
  <1>2. frames \in Seq(Exception) /\ stack \in Seq(Words) /\ register \in [Names -> Words]
    BY DEF ExcTyped
  <1>3. f \in Exception
    BY <1>2 DEF Exception
  <1>4. f.vector = v /\ f.low = low /\ f.next = 1 /\ f.registers = register
    OBVIOUS
  <1>5. n \in {1, 2} /\ (n = 2 => v = PageFault /\ low) /\ (n = 1 => stack = <<>>)
    <2>1. CASE frames = <<>> /\ stack = <<>>
      BY <2>1
    <2>2. CASE Len(frames) = 1 /\ v = PageFault /\ low
      BY <2>2
    <2> QED BY <2>1, <2>2
  <1> HIDE DEF f
  <1>6. /\ frames' \in Seq(Exception) /\ Len(frames') = n /\ top' = f
    <2> HIDE DEF Exception
    <2>1. /\ <<f>> \o frames \in Seq(Exception) /\ Len(<<f>> \o frames) = n
          /\ (<<f>> \o frames)[1] = f
      BY <1>2, <1>3
    <2> QED BY <1>1, <2>1 DEF top
  <1> HIDE DEF n
  <1>7. Frame(n) \in Words /\ Code(n) \in Words
    BY <1>5, WordsAre
  <1>8. /\ pushed \o <<Frame(n)>> \o stack \in Seq(Words)
        /\ v \in PushesCode => /\ pushed \o <<Frame(n)>> \o stack # <<>>
                               /\ Head(pushed \o <<Frame(n)>> \o stack) = Code(n)
        /\ v \in PushesCode /\ n = 1 =>
              pushed \o <<Frame(n)>> \o stack = <<Code(1), Frame(1)>>
    <2> DEFINE s == <<Code(n)>> \o <<Frame(n)>> \o stack
               both == <<Code(n)>> \o <<Frame(n)>>
    <2>1. /\ <<Frame(n)>> \o stack \in Seq(Words) /\ <<>> \o <<Frame(n)>> = <<Frame(n)>>
          /\ <<Frame(n)>> \in Seq(Words)
      BY <1>2, <1>7, Stacks
    <2>2. both \in Seq(Words) /\ both = <<Code(n), Frame(n)>>
      BY <1>7, <2>1, Stacks
    <2> HIDE DEF both
    <2>3. /\ both \o stack \in Seq(Words) /\ both \o stack # <<>>
          /\ Head(both \o stack) = Code(n)
          /\ stack = <<>> => both \o stack = both
      <3> HIDE DEF Words
      <3>1. Len(both) = 2 /\ both[1] = Code(n)
        BY <2>2
      <3> DEFINE w == both \o stack
      <3>2. w \in Seq(Words) /\ Len(w) = 2 + Len(stack) /\ Len(stack) \in Nat /\ w[1] = Code(n)
        BY <1>2, <2>2, <3>1
      <3>3. stack = <<>> => w = both
        BY <2>2
      <3> HIDE DEF w
      <3>4. w # <<>> /\ Head(w) = Code(n)
        BY <3>2
      <3> QED BY <3>2, <3>3, <3>4 DEF w
    <2>4. v \in PushesCode => pushed \o <<Frame(n)>> = both
      BY DEF both
    <2>5. v \notin PushesCode => pushed \o <<Frame(n)>> = <<Frame(n)>>
      BY <2>1
    <2> HIDE DEF pushed
    <2>6. CASE v \in PushesCode
      BY <1>5, <2>2, <2>3, <2>4, <2>6
    <2>7. CASE v \notin PushesCode
      BY <2>1, <2>5, <2>7
    <2> QED BY <2>6, <2>7
  <1> HIDE DEF pushed
  <1>9. ExcTyped'
    BY <1>1, <1>2, <1>6, <1>8 DEF ExcTyped
  <1>10. Nested' /\ WithoutCode'
    BY <1>1, <1>4, <1>5, <1>6 DEF Nested, WithoutCode
  <1>11. WithCode'
    <2>1. v \in isr_err_stub => v \in PushesCode
      BY DEF isr_err_stub, PushesCode
    <2> QED BY <1>1, <1>4, <1>6, <1>8, <2>1 DEF WithCode
  <1>12. Outermost'
    <2>1. v \in isr_err_stub => v \in PushesCode
      BY DEF isr_err_stub, PushesCode
    <2> SUFFICES ASSUME n = 1, v \in isr_err_stub PROVE Outermost'
      BY <1>4, <1>6 DEF Outermost
    <2>2. stack' = <<Code(1), Frame(1)>>
      BY <1>1, <1>8, <2>1
    <2>3. top'.next = 1 /\ top'.registers = register' /\ Len(frames') = 1
      BY <1>1, <1>4, <1>6
    <2> QED BY <2>2, <2>3 DEF Outermost
  <1>13. InHandler'
    BY <1>1, <1>10, <1>11, <1>12 DEF InHandler
  <1> QED BY <1>1, <1>9, <1>13 DEF ExcInv

LEMMA CodeFaultsKeepsInv == ExcInv /\ CodeFaults => ExcInv'
  <1> SUFFICES ASSUME ExcInv, CodeFaults PROVE ExcInv'
    OBVIOUS
  <1>1. PICK v \in Vectors, low \in BOOLEAN : Raise(v, low)
    BY DEF CodeFaults
  <1>2. ExcTyped /\ idt = Table /\ frames = <<>> /\ stack = <<>>
    BY DEF CodeFaults, ExcInv, ExcTyped
  <1> QED BY <1>1, <1>2, RaiseEntersStub

(* Only the outermost exception can be handled, and it is a page fault.    *)
LEMMA HandledIs ==
  ASSUME ExcInv, running = "handler", HandledFault
  PROVE  /\ InHandler /\ ExcTyped /\ Len(frames) = 1 /\ frames # <<>>
         /\ top.vector = PageFault /\ top.vector \in isr_err_stub /\ top.next = 5
  <1>1. InHandler /\ ExcTyped
    BY DEF ExcInv
  <1>2. frames # <<>> /\ top \in Exception
    BY <1>1, TopIs DEF InHandler, Nested
  <1>3. Len(frames) = 1
    BY <1>1 DEF InHandler, Nested, HandledFault
  <1>4. passed.vector = Vector(top.vector)
    BY <1>1 DEF InHandler, WithCode, WithoutCode
  <1>5. top.vector = PageFault
    <2>1. top.vector \in Vectors /\ PageFault \in Vectors
      BY <1>2 DEF Exception, PageFault, Vectors
    <2>2. Vector(top.vector) = Vector(PageFault)
      BY <1>4 DEF HandledFault
    <2> QED BY <2>1, <2>2, VectorsDiffer
  <1>6. top.vector \in isr_err_stub
    BY <1>5 DEF PageFault, isr_err_stub
  <1> QED BY <1>1, <1>2, <1>3, <1>5, <1>6 DEF InHandler, WithCode

LEMMA HandlerFaultsKeepsInv == ExcInv /\ HandlerFaults => ExcInv'
  <1> SUFFICES ASSUME ExcInv, HandlerFaults PROVE ExcInv'
    OBVIOUS
  <1>1. Raise(PageFault, TRUE) /\ running = "handler" /\ HandledFault
    BY DEF HandlerFaults
  <1>2. ExcTyped /\ idt = Table /\ Len(frames) = 1
    BY <1>1, HandledIs DEF InHandler
  <1>3. PageFault \in Vectors
    BY DEF PageFault, Vectors
  <1> QED BY <1>1, <1>2, <1>3, RaiseEntersStub

LEMMA HandlerReturnsKeepsInv == ExcInv /\ HandlerReturns => ExcInv'
  <1> SUFFICES ASSUME ExcInv, HandlerReturns PROVE ExcInv'
    OBVIOUS
  <1>1. /\ running = "handler" /\ HandledFault /\ running' = "stub"
        /\ register' = [r \in Names |-> IF r \in Scratch THEN Junk ELSE register[r]]
        /\ UNCHANGED <<idt, stack, frames, passed, resumed>>
    BY DEF HandlerReturns
  <1>2. /\ InHandler /\ ExcTyped /\ Len(frames) = 1 /\ frames # <<>>
        /\ top.vector = PageFault /\ top.vector \in isr_err_stub /\ top.next = 5
    BY <1>1, HandledIs
  <1>3. top' = top /\ Len(frames') = 1
    BY <1>1, <1>2 DEF top
  <1>4. register'["rbx"] = register["rbx"] /\ register' \in [Names -> Words]
    BY <1>1, <1>2, WordsAre DEF ExcTyped, Names, Scratch
  <1>5. ExcTyped'
    BY <1>1, <1>2, <1>4 DEF ExcTyped
  <1>6. Nested' /\ WithoutCode' /\ WithCode'
    BY <1>1, <1>2, <1>3 DEF Nested, WithoutCode, WithCode
  <1>7. Outermost'
    BY <1>1, <1>2, <1>3, <1>4 DEF InHandler, Outermost
  <1>8. InHandler'
    BY <1>1, <1>2, <1>6, <1>7 DEF InHandler
  <1> QED BY <1>1, <1>5, <1>8 DEF ExcInv

LEMMA HaltKeepsInv == ExcInv /\ Halt => ExcInv'
  <1> SUFFICES ASSUME ExcInv, Halt PROVE ExcInv'
    OBVIOUS
  <1>1. /\ running = "handler" /\ running' = "hlt"
        /\ UNCHANGED <<idt, register, stack, frames, passed, resumed>>
    BY DEF Halt
  <1>2. InHandler /\ ExcTyped /\ top' = top
    BY <1>1 DEF ExcInv, top
  <1>3. ExcTyped'
    BY <1>1, <1>2 DEF ExcTyped
  <1>4. Nested' /\ WithoutCode' /\ WithCode' /\ Outermost'
    BY <1>1, <1>2 DEF InHandler, Nested, WithoutCode, WithCode, Outermost
  <1> QED BY <1>1, <1>2, <1>3, <1>4 DEF ExcInv, InHandler

LEMMA ExcInductive == ExcInv /\ [ExcNext]_excVars => ExcInv'
  <1>1. ExcInv /\ idt_init_exceptions => ExcInv'
    <2> SUFFICES ASSUME ExcInv, idt_init_exceptions PROVE ExcInv'
      OBVIOUS
    <2>1. idt' = Table /\ UNCHANGED <<register, stack, running, frames, passed, resumed>>
      BY DEF idt_init_exceptions, Table
    <2>2. running = "code"
      <3>1. <<>> # Table
        BY DEF Table, Vectors
      <3> QED BY <3>1 DEF idt_init_exceptions, ExcInv, InHandler
    <2> QED BY <2>1, <2>2 DEF ExcInv, ExcTyped, RegistersComeBack
  <1>2. ExcInv /\ UNCHANGED excVars => ExcInv'
    BY DEF excVars, ExcInv, ExcTyped, RegistersComeBack, InHandler, Nested, WithoutCode,
           WithCode, Outermost, top
  <1> QED BY <1>1, <1>2, CodeFaultsKeepsInv, PushKeepsInv, PopKeepsInv, LoadKeepsInv,
             CallKeepsInv, HaltKeepsInv, HandlerFaultsKeepsInv, HandlerReturnsKeepsInv,
             ReturnKeepsInv DEF ExcNext

LEMMA ExcInvHolds == ExcSpec => []ExcInv
  <1>1. ExcInit => ExcInv
    <2> SUFFICES ASSUME ExcInit PROVE ExcInv
      OBVIOUS
    <2>1. register \in [Names -> Words]
      BY WordsAre DEF ExcInit
    <2>2. <<>> \in Seq(Words) /\ <<>> \in Seq(Exception)
      OBVIOUS
    <2> QED BY <2>1, <2>2 DEF ExcInit, ExcInv, ExcTyped, RegistersComeBack
  <1> QED BY <1>1, ExcInductive, PTL DEF ExcSpec

(* Every exception whose handler returns finds the frame that the processor*)
(* pushed for it: the stubs of idt.asm pop exactly what they and the       *)
(* processor have pushed.                                                  *)
THEOREM StubsFindTheirFrame == ExcSpec => []FrameIsFound
  <1>1. ExcInv => FrameIsFound
    BY DEF ExcInv, ExcTyped, FrameIsFound
  <1> QED BY <1>1, ExcInvHolds, PTL

(* exception_handler's arguments are the vector and its error code, for    *)
(* every vector and also when mmap faults inside the handler.              *)
THEOREM HandlerIsTold == ExcSpec => []ArgumentsArrive
  <1>1. ExcInv => ArgumentsArrive
    <2> SUFFICES ASSUME ExcInv, running = "handler" PROVE ArgumentsArrive
      BY DEF ArgumentsArrive
    <2>1. InHandler
      BY DEF ExcInv
    <2>2. PushesCode \ {21, 29} = isr_err_stub
      BY DEF PushesCode, isr_err_stub
    <2> QED BY <2>1, <2>2 DEF InHandler, WithoutCode, WithCode, ArgumentsArrive
  <1> QED BY <1>1, ExcInvHolds, PTL

(* After a page fault that was handled, rdi and the registers that a C     *)
(* function preserves are what they were.                                  *)
THEOREM PreservedRegistersComeBack == ExcSpec => []RegistersComeBack
  <1>1. ExcInv => RegistersComeBack
    BY DEF ExcInv, RegistersComeBack
  <1> QED BY <1>1, ExcInvHolds, PTL
=============================================================================
