----------------------------- MODULE Exceptions -----------------------------
(***************************************************************************)
(* The way from an exception to exception_handler (IDT/idt.c) and back:    *)
(* the descriptors idt_init_exceptions stores and the stubs of IDT/idt.asm,*)
(* one step per instruction.  The gates clear IF, so nothing interrupts a  *)
(* stub.  The code that an exception interrupts may be any, handlers       *)
(* included; mmap, which the handler calls, may fault at address 0 itself. *)
(*                                                                         *)
(* Of the registers the model keeps the two the stubs use, and one each    *)
(* for those a C function may change (rax for rax, rcx, rdx, r8 to r11) and*)
(* those it must restore (rbx for rbx, rbp, r12 to r15).                   *)
(***************************************************************************)
EXTENDS Integers, Sequences

Vectors == 0 .. 31
PageFault == 14

(* External: the exceptions for which the processor pushes an error code.  *)
PushesCode == {8, 10, 11, 12, 13, 14, 17, 21, 29, 30}

(* Mutant of isr_err_stub: the page fault's is taken for one without code. *)
isr_err_stub_no_page_fault == {8, 10, 11, 12, 13, 17, 30}

(* The vectors whose stub is an isr_err_stub.                              *)
isr_err_stub == {8, 10, 11, 12, 13, 14, 17, 30}

Instruction(op, arg) == [op |-> op, arg |-> arg]
Push(r) == Instruction("push", r)
Pop(r) == Instruction("pop", r)
Call == Instruction("call", "exception_handler")
Iretq == Instruction("iretq", "")
MovVector == Instruction("mov", "rdi")
XorRsi == Instruction("xor", "rsi")

NoErrStub == <<Push("rsi"), Push("rdi"), XorRsi, MovVector, Call,
               Pop("rdi"), Pop("rsi"), Iretq>>

(* Mutant of ErrStub: rdi is given the vector before it is saved.          *)
ErrStubLate == <<Pop("rsi"), MovVector, Push("rdi"), Call, Pop("rdi"), Iretq>>
ErrStub == <<Pop("rsi"), Push("rdi"), MovVector, Call, Pop("rdi"), Iretq>>

Names == {"rax", "rbx", "rsi", "rdi"}
Scratch == {"rax", "rsi", "rdi"}    \* what exception_handler may change

VARIABLES
    idt,        \* the stub each descriptor leads to, of the vectors set so far
    register,
    stack,      \* the stack's words from its top
    running,    \* what the processor executes: "code", "stub", "handler", "hlt"
    frames,     \* the exceptions not returned from, the latest first: vector,
                \* whether cr2 is in the first page, the stub's next
                \* instruction, and (history) the registers it began with
    passed,     \* the arguments of the last call of exception_handler
    resumed     \* history: the registers before the last one that returned

excVars == <<idt, register, stack, running, frames, passed, resumed>>

Own(r) == <<"own", r>>
Junk == <<"junk">>
Code(n) == <<"code", n>>        \* the error code of the n-th exception
Frame(n) == <<"frame", n>>      \* its five words: rip, cs, rflags, rsp, ss
NoCode == <<"zero">>
Vector(v) == <<"vector", v>>

ExcInit ==
    /\ idt = <<>>
    /\ register = [r \in Names |-> Own(r)]
    /\ stack = <<>>
    /\ running = "code"
    /\ frames = <<>>
    /\ resumed = register
    /\ passed = [vector |-> Vector(0), code |-> NoCode]

(* idt_init_exceptions: every vector's descriptor leads to its stub, behind*)
(* an interrupt gate.  Before the lidt no exception gets here.             *)
idt_init_exceptions ==
    /\ idt = <<>>
    /\ idt' = [v \in Vectors |-> IF v \in isr_err_stub THEN ErrStub ELSE NoErrStub]
    /\ UNCHANGED <<register, stack, running, frames, passed, resumed>>

(* External: the processor pushes its frame, and the code if it has one.   *)
Raise(v, low) ==
    LET n == Len(frames) + 1
    IN  /\ frames' = <<[vector |-> v, low |-> low, next |-> 1, registers |-> register]>>
                       \o frames
        /\ stack' = (IF v \in PushesCode THEN <<Code(n)>> ELSE <<>>) \o <<Frame(n)>> \o stack
        /\ running' = "stub"
        /\ UNCHANGED <<idt, register, passed, resumed>>

(* The interrupted code raises an exception, with cr2 in the first page or *)
(* not if it is a page fault.                                              *)
CodeFaults ==
    /\ running = "code" /\ idt # <<>>
    /\ \E v \in Vectors, low \in BOOLEAN : Raise(v, low)

-----------------------------------------------------------------------------
top == frames[1]
instruction == idt[top.vector][top.next]
Executes(op) == running = "stub" /\ instruction.op = op
Proceed == frames' = [frames EXCEPT ![1].next = @ + 1]

PushRegister ==
    /\ Executes("push")
    /\ stack' = <<register[instruction.arg]>> \o stack
    /\ Proceed
    /\ UNCHANGED <<idt, register, running, passed, resumed>>

PopRegister ==
    /\ Executes("pop")
    /\ register' = [register EXCEPT ![instruction.arg] = Head(stack)]
    /\ stack' = Tail(stack)
    /\ Proceed
    /\ UNCHANGED <<idt, running, passed, resumed>>

LoadArgument ==
    /\ Executes("mov") \/ Executes("xor")
    /\ register' = [register EXCEPT ![instruction.arg] =
                       IF instruction.op = "mov" THEN Vector(top.vector) ELSE NoCode]
    /\ Proceed
    /\ UNCHANGED <<idt, stack, running, passed, resumed>>

CallHandler ==
    /\ Executes("call")
    /\ running' = "handler"
    /\ passed' = [vector |-> register["rdi"], code |-> register["rsi"]]
    /\ Proceed
    /\ UNCHANGED <<idt, register, stack, resumed>>

-----------------------------------------------------------------------------
(* exception_handler.                                                      *)
HandledFault == passed.vector = Vector(PageFault) /\ ~top.low

(* Any exception but a page fault beyond the first page ends in cli; hlt.  *)
Halt ==
    /\ running = "handler" /\ ~HandledFault
    /\ running' = "hlt"
    /\ UNCHANGED <<idt, register, stack, frames, passed, resumed>>

(* mmap clears the NULL that palloc returned.                              *)
HandlerFaults ==
    /\ running = "handler" /\ HandledFault
    /\ Raise(PageFault, TRUE)

(* The address is mapped; the function returns to the stub, which finds    *)
(* other values in the scratch registers.                                  *)
HandlerReturns ==
    /\ running = "handler" /\ HandledFault
    /\ register' = [r \in Names |-> IF r \in Scratch THEN Junk ELSE register[r]]
    /\ running' = "stub"
    /\ UNCHANGED <<idt, stack, frames, passed, resumed>>

(* iretq takes the five words at the top of the stack for a frame, and the *)
(* interrupted code goes on with the registers as they are.                *)
Return ==
    /\ Executes("iretq")
    /\ running' = IF Head(stack) = Frame(Len(frames)) THEN "code" ELSE "lost"
    /\ stack' = Tail(stack)
    /\ frames' = Tail(frames)
    /\ resumed' = top.registers
    /\ UNCHANGED <<idt, register, passed>>

ExcNext ==
    \/ idt_init_exceptions
    \/ CodeFaults
    \/ PushRegister \/ PopRegister \/ LoadArgument \/ CallHandler
    \/ Halt \/ HandlerFaults \/ HandlerReturns
    \/ Return

ExcSpec == ExcInit /\ [][ExcNext]_excVars

-----------------------------------------------------------------------------
(* Every exception that returns finds the frame the processor pushed for it*)
(* on top of the stack, and leaves the stack as it was.  (The stubs of 21  *)
(* and 29 do not pop the code the processor pushes: they must not return.) *)
FrameIsFound ==
    /\ running # "lost"
    /\ running = "code" => stack = <<>>

(* exception_handler gets the vector that was raised, also when it raises  *)
(* one itself, and the error code with it; 0 where the stub knows of none. *)
ArgumentsArrive ==
    running = "handler" =>
        /\ passed.vector = Vector(top.vector)
        /\ passed.code = IF top.vector \in PushesCode \ {21, 29} THEN Code(Len(frames))
                                                                 ELSE NoCode

(* The code that a page fault interrupted goes on with its rdi and with the*)
(* registers a C function restores.  Its rsi, and the registers a function *)
(* may change, are lost: no stub saves them all.                           *)
RegistersComeBack ==
    running = "code" => \A r \in {"rbx", "rdi"} : register[r] = resumed[r]
=============================================================================
