----------------------------- MODULE RegSwitch -----------------------------
(***************************************************************************)
(* The two asm blocks of context_switch (sched/scheduler.c), one step per  *)
(* register moved: from the processor to prev's Procedure, and from next's *)
(* Procedure to the processor, then the jump.  Every operand is addressed  *)
(* through a register that holds the Procedure's address; the compiler     *)
(* chooses it, and the blocks do not tell it which registers they change.  *)
(* When the first block begins, the processor no longer holds all that the *)
(* interrupted code left in it: the compiler has loaded prev's address and *)
(* computed next in registers of its choice, and the stack pointer and the *)
(* flags are those of the handler.                                         *)
(* next has never run: the first switch of a boot meets no other.          *)
(***************************************************************************)
EXTENDS Integers

(* The moves in their order: the flags go over the stack, and the last,    *)
(* which only the second block has, is the jump.                           *)
Move == <<"rax", "rbx", "rcx", "rdx", "rsi", "rdi", "rbp", "rsp",
          "r8", "r9", "r10", "r11", "r12", "r13", "r14", "r15", "rflags",
          "rip">>
Moves == 1 .. 18
Saves == 1 .. 17
Registers == {Move[n] : n \in Moves}

(* The interrupt itself changes these; its frame keeps the old ones.       *)
Changed == {"rsp", "rflags", "rip"}
Bases == Registers \ Changed

CONSTANT Overwritten    \* what the code in front of the block may have used

ASSUME RegSwitchAssumption == Overwritten \subseteq SUBSET Bases

(* The contents that matter: the two Procedures' addresses, what           *)
(* create_proc stored, and what the interrupted code and the code of the   *)
(* interrupt (pit_handler to context_switch) left in the n-th register.    *)
prev == 1
next == 2
Procedures == {prev, next}
Zero == 0
StackTop == 3
Flags == 4
EntryPoint == 5
Number(r) == CHOOSE n \in Moves : Move[n] = r
Live(r) == 100 + Number(r)
Handlers(r) == 200 + Number(r)

Fresh == [r \in Registers |-> CASE r = "rsp" -> StackTop
                                [] r = "rflags" -> Flags
                                [] r = "rip" -> EntryPoint
                                [] OTHER -> Zero]

VARIABLES
    save_base,      \* the register that addresses *prev in the first block
    restore_base,   \* the register that addresses *next in the second
    used,           \* the general registers that hold the handler's values
    regs,           \* the processor's registers
    Regs,           \* state.Regs of both Procedures
    at              \* the block, and how many of its moves are done

vars == <<save_base, restore_base, used, regs, Regs, at>>

(* What the first block finds in a register.                               *)
Found(r) ==
    CASE r = save_base -> prev
      [] r # save_base /\ r \in used \cup Changed -> Handlers(r)
      [] r # save_base /\ r \notin used \cup Changed -> Live(r)

(* Without a current_proc the first block is skipped.                      *)
Init ==
    /\ save_base \in Bases
    /\ restore_base \in Bases
    /\ used \in Overwritten
    /\ regs = [r \in Registers |-> Found(r)]
    /\ Regs = [p \in Procedures |-> Fresh]
    /\ at \in [block : {"save", "skip"}, done : {0}]

(* Mutant of Operand: the operands of rbp and rsp exchanged.               *)
OperandSwapped(n) ==
    CASE Move[n] = "rbp" -> "rsp"
      [] Move[n] = "rsp" -> "rbp"
      [] OTHER -> Move[n]

(* The field of Regs that the n-th move of a block names.                  *)
Operand(n) == Move[n]

Save ==
    /\ at.block = "save" /\ at.done + 1 \in Saves
    /\ LET n == at.done + 1 IN
       /\ Regs' = [Regs EXCEPT ![regs[save_base]][Operand(n)] = regs[Move[n]]]
       /\ at' = [at EXCEPT !.done = n]
    /\ UNCHANGED <<save_base, restore_base, used, regs>>

(* proc_state and current_proc are set, and next's address is loaded.      *)
Between ==
    /\ at.block = "skip" \/ at = [block |-> "save", done |-> 17]
    /\ regs' = [regs EXCEPT ![restore_base] = next]
    /\ at' = [block |-> "restore", done |-> 0]
    /\ UNCHANGED <<save_base, restore_base, used, Regs>>

(* An address in the first page is not mapped: exception_handler halts.    *)
Fault ==
    /\ at.block = "restore" /\ at.done + 1 \in Moves
    /\ regs[restore_base] \notin Procedures
    /\ at' = [at EXCEPT !.block = "fault"]
    /\ UNCHANGED <<save_base, restore_base, used, regs, Regs>>

Restore ==
    /\ at.block = "restore" /\ at.done + 1 \in Moves
    /\ regs[restore_base] \in Procedures
    /\ LET n == at.done + 1 IN
       /\ regs' = [regs EXCEPT ![Move[n]] = Regs[regs[restore_base]][Operand(n)]]
       /\ at' = [at EXCEPT !.done = n]
    /\ UNCHANGED <<save_base, restore_base, used, Regs>>

Next == Save \/ Between \/ Restore \/ Fault

Spec == Init /\ [][Next]_vars

-----------------------------------------------------------------------------
Saved == at = [block |-> "save", done |-> 17]

(* What the saved context lacks of the interrupted code: the register that *)
(* addresses prev, those the handler has used, the stack pointer, the flags*)
(* and the instruction pointer, for which the block has no move.  Every    *)
(* other register is in its own field, although none was reserved.         *)
LostBySave ==
    Saved => {r \in Registers : Regs[prev][r] # Live(r)} = {save_base} \cup used \cup Changed

(* "Save current process registers": the general registers that still hold *)
(* the interrupted code's values when prev is loaded are saved.            *)
SaveKeepsProcess == Saved => \A r \in Bases \ used : Regs[prev][r] = Live(r)

(* "Restore next process registers and jump": the second block gets to its *)
(* jump and does not fault on the way.                                     *)
RestoreJumps == at.block # "fault"
=============================================================================
