----------------------------- MODULE Scheduler -----------------------------
(***************************************************************************)
(* sched/scheduler.c: the round-robin run queue, filled by kmain's         *)
(* test_sched (init.c) while the timer interrupt may already call          *)
(* scheduler_tick.  register_proc is preemptible between its stores; the   *)
(* first two, the slot and proc_count, come in either order, as C leaves it*)
(* to the compiler.  A tick runs with interrupts off and is one step.      *)
(*                                                                         *)
(* A process is named by its place in the order of creation.  Of the saved *)
(* registers only where the restore ends up matters here: it jumps to the  *)
(* next process or faults on the way (module RegSwitch).                   *)
(***************************************************************************)
EXTENDS Integers

CONSTANTS
    NProcs,            \* the processes kmain creates and registers
    MAX_PROCS,         \* the slots of proc_list
    SchedTickFreq,     \* a switch is due every so many ticks
    CreateOutcomes,    \* how create_proc may end: "made", "null", "fault"
    RestoreOutcomes    \* what the restore may end in: "jumps", "faults"

ASSUME SchedulerAssumption ==
    /\ NProcs \in Nat \ {0}
    /\ MAX_PROCS \in Nat \ {0}
    /\ SchedTickFreq \in Nat \ {0}
    /\ CreateOutcomes \subseteq {"made", "null", "fault"}
    /\ RestoreOutcomes \subseteq {"jumps", "faults"} /\ RestoreOutcomes # {}

Procs == 1 .. NProcs
NULL == 0

(* Whose code the processor executes, beside a process.                    *)
Kmain == 0
Halted == -1

VARIABLES
    proc_list,      \* the slots of the run queue
    proc_count,
    current_proc,
    proc_state,     \* "NONE" until create_proc has made the process
    sched_ticks,    \* modulo SchedTickFreq
    handle,         \* what create_proc returned, kmain's proc<n>_ptr
    kmain,          \* kmain's next step, and the process it is at
    cpu,            \* whose code is executed
    waited          \* history: switches to others since a process was READY

schedVars == <<proc_list, proc_count, current_proc, proc_state, sched_ticks,
               handle, kmain, cpu, waited>>

Slots == 0 .. MAX_PROCS - 1
States == {"NONE", "NEW", "READY", "RUNNING"}
Steps == {"init", "create", "append", "slot", "count", "ready", "current",
          "running", "done"}

Init ==
    /\ proc_list = [s \in Slots |-> NULL]
    /\ proc_count = 0
    /\ current_proc = NULL
    /\ proc_state = [p \in Procs |-> "NONE"]
    /\ sched_ticks = 0
    /\ handle = [p \in Procs |-> NULL]
    /\ kmain = [step |-> "init", p |-> 1]
    /\ cpu = Kmain
    /\ waited = [p \in Procs |-> 0]

-----------------------------------------------------------------------------
(* kmain: scheduler_init, then test_sched.                                 *)

At(step) == cpu = Kmain /\ kmain.step = step
Goto(step) == kmain' = [kmain EXCEPT !.step = step]

scheduler_init ==
    /\ At("init")
    /\ proc_count' = 0
    /\ current_proc' = NULL
    /\ Goto("create")
    /\ UNCHANGED <<proc_list, proc_state, sched_ticks, handle, cpu, waited>>

(* The next create_proc, or the first register_proc after the last.        *)
AfterCreate ==
    kmain' = IF kmain.p < NProcs THEN [kmain EXCEPT !.p = kmain.p + 1]
                                 ELSE [step |-> "append", p |-> 1]

(* Without a page for the Procedure create_proc returns NULL.  Without one *)
(* for the stack the store of the fake return address faults near 0.       *)
create_proc ==
    /\ At("create")
    /\ \/ /\ "made" \in CreateOutcomes
          /\ proc_state' = [proc_state EXCEPT ![kmain.p] = "NEW"]
          /\ handle' = [handle EXCEPT ![kmain.p] = kmain.p]
          /\ AfterCreate
          /\ UNCHANGED cpu
       \/ /\ "null" \in CreateOutcomes
          /\ AfterCreate
          /\ UNCHANGED <<proc_state, handle, cpu>>
       \/ /\ "fault" \in CreateOutcomes
          /\ cpu' = Halted
          /\ UNCHANGED <<proc_state, handle, kmain>>
    /\ UNCHANGED <<proc_list, proc_count, current_proc, sched_ticks, waited>>

AfterRegister ==
    kmain' = IF kmain.p < NProcs THEN [step |-> "append", p |-> kmain.p + 1]
                                 ELSE [kmain EXCEPT !.step = "done"]

(* Mutants of ListFull and FreeSlot: > for >=, and the last slot taken.    *)
ListFullLate == proc_count > MAX_PROCS
LastSlot == IF proc_count = 0 THEN 0 ELSE proc_count - 1

ListFull == proc_count >= MAX_PROCS
FreeSlot == proc_count

(* register_proc: a full list drops the process without a word.  Otherwise *)
(* the slot is stored or the count, and the other one is still to do.      *)
RegisterAppend ==
    /\ At("append")
    /\ \/ /\ ListFull
          /\ AfterRegister
          /\ UNCHANGED <<proc_list, proc_count>>
       \/ /\ ~ListFull
          /\ proc_list' = [proc_list EXCEPT ![FreeSlot] = handle[kmain.p]]
          /\ Goto("count")
          /\ UNCHANGED proc_count
       \/ /\ ~ListFull
          /\ proc_count' = proc_count + 1
          /\ Goto("slot")
          /\ UNCHANGED proc_list
    /\ UNCHANGED <<current_proc, proc_state, sched_ticks, handle, cpu, waited>>

RegisterCount ==
    /\ At("count")
    /\ proc_count' = proc_count + 1
    /\ Goto("ready")
    /\ UNCHANGED <<proc_list, current_proc, proc_state, sched_ticks, handle, cpu, waited>>

(* Until this store a due tick finds the NULL that the new slot holds.     *)
RegisterSlot ==
    /\ At("slot")
    /\ proc_list' = [proc_list EXCEPT ![proc_count - 1] = handle[kmain.p]]
    /\ Goto("ready")
    /\ UNCHANGED <<proc_count, current_proc, proc_state, sched_ticks, handle, cpu, waited>>

(* The store through a NULL handle faults in the first page.               *)
RegisterReady ==
    /\ At("ready")
    /\ \/ /\ handle[kmain.p] = NULL
          /\ cpu' = Halted
          /\ UNCHANGED <<proc_state, kmain>>
       \/ /\ handle[kmain.p] # NULL
          /\ proc_state' = [proc_state EXCEPT ![kmain.p] = "READY"]
          /\ Goto("current")
          /\ UNCHANGED cpu
    /\ UNCHANGED <<proc_list, proc_count, current_proc, sched_ticks, handle, waited>>

(* Mutant of RegisterCurrent: !current_proc tested the wrong way round.    *)
RegisterAlwaysCurrent ==
    /\ At("current")
    /\ current_proc' = handle[kmain.p]
    /\ Goto("running")
    /\ UNCHANGED <<proc_list, proc_count, proc_state, sched_ticks, handle, cpu, waited>>

RegisterCurrent ==
    /\ At("current")
    /\ \/ /\ current_proc = NULL
          /\ current_proc' = handle[kmain.p]
          /\ Goto("running")
       \/ /\ current_proc # NULL
          /\ AfterRegister
          /\ UNCHANGED current_proc
    /\ UNCHANGED <<proc_list, proc_count, proc_state, sched_ticks, handle, cpu, waited>>

RegisterRunning ==
    /\ At("running")
    /\ proc_state' = [proc_state EXCEPT ![kmain.p] = "RUNNING"]
    /\ AfterRegister
    /\ UNCHANGED <<proc_list, proc_count, current_proc, sched_ticks, handle, cpu, waited>>

KmainStep ==
    \/ scheduler_init
    \/ create_proc
    \/ RegisterAppend
    \/ RegisterCount
    \/ RegisterSlot
    \/ RegisterReady
    \/ RegisterCurrent
    \/ RegisterRunning

-----------------------------------------------------------------------------
(* The tick.                                                               *)

Listed == 0 .. proc_count - 1

(* Mutant of Start: the search always begins with the first slot.          *)
StartAtFirst == 0

(* The slot behind current_proc, the first if it is not on the list.       *)
Start ==
    IF \E s \in Listed : proc_list[s] = current_proc /\ current_proc # NULL
    THEN ((CHOOSE s \in Listed : /\ proc_list[s] = current_proc
                                 /\ \A r \in Listed : proc_list[r] = current_proc => s <= r)
          + 1) % proc_count
    ELSE 0

(* The d-th slot the second loop of find_next_proc looks at.               *)
Looked(d) == proc_list[(Start + d) % proc_count]

(* Mutant of Stops: the search ends with the last slot, without wrapping.  *)
StopsUnwrapped(d) ==
    /\ Start + d < proc_count
    /\ Looked(d) # NULL => proc_state[Looked(d)] = "READY"

(* It stops at a READY process, or faults reading one through NULL.        *)
Stops(d) == Looked(d) # NULL => proc_state[Looked(d)] = "READY"
StopsAt(d) == Stops(d) /\ \A e \in Listed : e < d => ~Stops(e)

(* The rest of context_switch.  The context that is saved is the one the   *)
(* tick interrupted, kmain's too; with no current_proc none is saved.      *)
SwitchTo(next) ==
    /\ proc_state' = [p \in Procs |-> CASE p = next -> "RUNNING"
                                        [] p = current_proc -> "READY"
                                        [] OTHER -> proc_state[p]]
    /\ current_proc' = next
    /\ waited' = [p \in Procs |-> IF p = next \/ proc_state[p] # "READY"
                                  THEN 0 ELSE waited[p] + 1]
    /\ \/ "jumps" \in RestoreOutcomes /\ cpu' = next
       \/ "faults" \in RestoreOutcomes /\ cpu' = Halted

NoSwitch == UNCHANGED <<current_proc, proc_state, cpu, waited>>

context_switch ==
    \/ /\ \A d \in Listed : ~Stops(d)
       /\ NoSwitch
    \/ \E d \in Listed :
          /\ StopsAt(d)
          /\ CASE Looked(d) = NULL ->
                    cpu' = Halted /\ UNCHANGED <<current_proc, proc_state, waited>>
               [] Looked(d) \in Procs \cap {current_proc} -> NoSwitch
               [] Looked(d) \in Procs \ {current_proc} -> SwitchTo(Looked(d))

scheduler_tick ==
    /\ cpu # Halted
    /\ sched_ticks' = (sched_ticks + 1) % SchedTickFreq
    /\ \/ sched_ticks' = 0 /\ context_switch
       \/ sched_ticks' # 0 /\ NoSwitch
    /\ UNCHANGED <<proc_list, proc_count, handle, kmain>>

Next == KmainStep \/ scheduler_tick

Spec == Init /\ [][Next]_schedVars

-----------------------------------------------------------------------------
TypeOK ==
    /\ proc_list \in [Slots -> Procs \cup {NULL}]
    /\ proc_count \in 0 .. MAX_PROCS
    /\ current_proc \in Procs \cup {NULL}
    /\ proc_state \in [Procs -> States]
    /\ sched_ticks \in 0 .. SchedTickFreq - 1
    /\ handle \in [Procs -> Procs \cup {NULL}]
    /\ kmain \in [step : Steps, p : Procs]
    /\ cpu \in Procs \cup {Kmain, Halted}
    /\ waited \in [Procs -> Nat]

(* Wherever a tick interrupts register_proc, the processes that are        *)
(* RUNNING are at most current_proc, and the one whose code is executed.   *)
OneRunning ==
    /\ \A p \in Procs : proc_state[p] = "RUNNING" => p = current_proc
    /\ cpu \in Procs => cpu = current_proc /\ proc_state[cpu] = "RUNNING"

(* A process that may run is on the list, once, so that find_next_proc can *)
(* find it and does not favour it; one that the full list dropped is NEW.  *)
ListSound ==
    /\ \A r, s \in Listed : proc_list[r] = proc_list[s] /\ proc_list[r] # NULL => r = s
    /\ \A p \in Procs : proc_state[p] \in {"READY", "RUNNING"} =>
          \E s \in Listed : proc_list[s] = p

(* A READY process gets its turn after all others had at most one: the     *)
(* search begins behind the process that ran last.                         *)
BoundedWait == \A p \in Procs : waited[p] < proc_count \/ waited[p] = 0

(* A tick that is due takes the processor away from whoever has it if some *)
(* other process is READY, wherever it is on the list.                     *)
DueTickSwitches ==
    [][/\ UNCHANGED kmain
       /\ sched_ticks' = 0
       /\ \E p \in Procs : p # current_proc /\ proc_state[p] = "READY"
       => current_proc' # current_proc \/ cpu' = Halted]_schedVars
=============================================================================
