------------------------------ MODULE TimerIrq ------------------------------
(***************************************************************************)
(* The interrupts that drive the scheduler: idt_init (IDT/idt.c) lets them *)
(* in, the 8259 delivers line 0 to pit_handler (Drivers/PIT/driver.c) and  *)
(* line 1 to idt_keyboard_handler, and each handler ends its interrupt     *)
(* with an EOI on its way out.  A context_switch inside pit_handler does   *)
(* not come back: it leaves through the jump of the restore sequence.      *)
(***************************************************************************)
EXTENDS Scheduler

(* The interrupt lines that are unmasked, the lower the more urgent.       *)
Timer == 0
Keyboard == 1
Lines == {Timer, Keyboard}
NoIrq == -1

VARIABLES
    booted,     \* idt_init has run
    iflag,      \* RFLAGS.IF
    irr,        \* the 8259's requests that wait
    isr,        \* its lines in service
    handler,    \* the line whose handler is executed
    saved_if    \* the IF bit of Regs.rflags of each process

vars == <<schedVars, booted, iflag, irr, isr, handler, saved_if>>

(* The bootloader hands over with interrupts off.                          *)
IrqInit ==
    /\ Init
    /\ booted = FALSE
    /\ iflag = FALSE
    /\ irr = {}
    /\ isr = {}
    /\ handler = NoIrq
    /\ saved_if = [p \in Procs |-> TRUE]

(* Code outside the handlers is executed.                                  *)
Undisturbed == handler = NoIrq /\ cpu # Halted

(* Its initialisation commands make the 8259 forget what it has seen.      *)
idt_pic_remap == irr' = {} /\ isr' = {}

(* The gates and masks are set before the sti.                             *)
idt_init ==
    /\ ~booted
    /\ booted' = TRUE
    /\ iflag' = TRUE
    /\ idt_pic_remap
    /\ UNCHANGED <<schedVars, handler, saved_if>>

(* kmain from scheduler_init on.                                           *)
Kernel ==
    /\ booted /\ Undisturbed
    /\ KmainStep
    /\ iflag' = (iflag /\ cpu' # Halted)
    /\ UNCHANGED <<booted, irr, isr, handler, saved_if>>

(* The PIT's output, or a key, raises its line.                            *)
Raise(line) ==
    /\ irr' = irr \cup {line}
    /\ UNCHANGED <<schedVars, booted, iflag, isr, handler, saved_if>>

(* The 8259 offers a line that is more urgent than all in service and all  *)
(* that wait; the gate clears IF.                                          *)
Deliver(line) ==
    /\ iflag /\ Undisturbed
    /\ line \in irr \ isr
    /\ \A l \in irr \cup isr : line <= l
    /\ irr' = irr \ {line}
    /\ isr' = isr \cup {line}
    /\ handler' = line
    /\ iflag' = FALSE
    /\ UNCHANGED <<schedVars, booted, saved_if>>

(* A non-specific EOI ends the most urgent line in service.                *)
Eoi(lines) == {l \in lines : \E m \in lines : m < l}

(* The handler returns through iretq, which restores IF.                   *)
Return == handler' = NoIrq /\ iflag' = TRUE

(* A tick that switches leaves through the jump: the restored rflags decide *)
(* about IF, and the flags saved here, inside a gate, have it clear.        *)
LeaveBySwitch ==
    /\ current_proc' # current_proc
    /\ saved_if' = [p \in Procs |-> p # current_proc /\ saved_if[p]]
    /\ handler' = NoIrq
    /\ iflag' = (cpu' # Halted /\ saved_if[current_proc'])

(* A tick that reads the process list through a NULL slot does not end.    *)
LeaveByFault ==
    /\ current_proc' = current_proc /\ cpu' # cpu
    /\ UNCHANGED <<handler, iflag, saved_if>>

LeaveByReturn ==
    /\ current_proc' = current_proc /\ cpu' = cpu
    /\ saved_if' = saved_if
    /\ Return

(* Mutants of pit_handler: the EOI forgotten, and the EOI sent first.      *)
pit_handler_no_eoi ==
    /\ handler = Timer
    /\ scheduler_tick
    /\ LeaveByReturn \/ LeaveBySwitch \/ LeaveByFault
    /\ UNCHANGED <<booted, irr, isr>>

pit_handler_eoi_first ==
    /\ handler = Timer
    /\ isr' = Eoi(isr)
    /\ scheduler_tick
    /\ LeaveByReturn \/ LeaveBySwitch \/ LeaveByFault
    /\ UNCHANGED <<booted, irr>>

(* pit_handler: scheduler_tick, then the EOI, which only a tick that       *)
(* returns gets to.                                                        *)
pit_handler ==
    /\ handler = Timer
    /\ scheduler_tick
    /\ \/ LeaveByReturn /\ isr' = Eoi(isr)
       \/ (LeaveBySwitch \/ LeaveByFault) /\ UNCHANGED isr
    /\ UNCHANGED <<booted, irr>>

(* The keyboard's handler sends its EOI, then a second one.                *)
idt_keyboard_handler ==
    /\ handler = Keyboard
    /\ isr' = Eoi(Eoi(isr))
    /\ Return
    /\ UNCHANGED <<schedVars, booted, irr, saved_if>>

(* A process returns to its fake return address, 0: the page fault at 0    *)
(* ends in exception_handler's cli; hlt.                                   *)
Finish(p) ==
    /\ cpu = p /\ Undisturbed
    /\ cpu' = Halted
    /\ iflag' = FALSE
    /\ UNCHANGED <<proc_list, proc_count, current_proc, proc_state, sched_ticks,
                   handle, kmain, waited, booted, irr, isr, handler, saved_if>>

IrqNext ==
    \/ idt_init
    \/ Kernel
    \/ \E line \in Lines : Raise(line) \/ Deliver(line)
    \/ pit_handler
    \/ idt_keyboard_handler
    \/ \E p \in Procs : Finish(p)

IrqSpec == IrqInit /\ [][IrqNext]_vars

(* The processor executes, the 8259 delivers and the PIT ticks on.         *)
Fairness ==
    /\ WF_vars(idt_init)
    /\ WF_vars(Kernel)
    /\ WF_vars(Raise(Timer))
    /\ \A line \in Lines : WF_vars(Deliver(line))
    /\ WF_vars(pit_handler)
    /\ WF_vars(idt_keyboard_handler)

FairIrqSpec == IrqSpec /\ Fairness

-----------------------------------------------------------------------------
(* As long as kmain has the processor, each interrupt is in service from   *)
(* its delivery to the return of its handler and is ended exactly once,    *)
(* the keyboard's second EOI included, and no handler is interrupted.      *)
AckedOnce ==
    booted /\ cpu = Kmain =>
        /\ isr = {handler} \ {NoIrq}
        /\ iflag <=> handler = NoIrq

(* No process gets the processor with interrupts off, though context_switch*)
(* saves rflags inside a gate: whoever gave way there never runs again.    *)
ProcessesInterruptible == cpu \in Procs /\ handler = NoIrq => iflag

(* A tick that waits is handled, whatever register_proc and the keyboard   *)
(* do, as long as kmain has the processor.                                 *)
TicksServed ==
    (booted /\ Timer \in irr) ~> (Timer \notin irr \/ cpu # Kmain)
=============================================================================
