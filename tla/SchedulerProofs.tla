-------------------------- MODULE SchedulerProofs --------------------------
(***************************************************************************)
(* What TLAPS proves of Scheduler, for any number of processes, slots and  *)
(* ticks: the bookkeeping survives a tick between any two stores of        *)
(* register_proc, and the search for the next process overlooks nobody;    *)
(* and of TimerIrq: the interrupts of kmain are ended once, and the        *)
(* scheduler's invariant holds below the interrupts that drive it.         *)
(***************************************************************************)
EXTENDS TimerIrq, TLAPS

-----------------------------------------------------------------------------
(* Scheduler.                                                              *)

(* Before test_sched registers anything the queue is empty.                *)
NothingYet ==
    kmain.step \in {"init", "create"} =>
        /\ proc_count = 0
        /\ current_proc = NULL
        /\ cpu \in {Kmain, Halted}
        /\ \A p \in Procs : proc_state[p] \in {"NONE", "NEW"}

(* What kmain's next step tells of the process it is registering.          *)
RegisterState ==
    /\ \A p \in Procs : handle[p] \in {NULL, p}
    /\ kmain.step \in {"append", "slot", "count"} =>
          \A s \in Listed : proc_list[s] < kmain.p
    /\ kmain.step \in {"ready", "current", "running"} =>
          /\ proc_count > 0
          /\ proc_list[proc_count - 1] = handle[kmain.p]
          /\ \A s \in Listed : proc_list[s] <= kmain.p
    /\ kmain.step \in {"current", "running"} => handle[kmain.p] = kmain.p
    /\ kmain.step = "running" /\ cpu = Kmain => current_proc = kmain.p

(* Between the slot's store and the count's the list has a slot that is not*)
(* counted, or counts one that still holds NULL; all others behind are NULL*)
SlotsBehind ==
    /\ \A s \in Slots : s > proc_count => proc_list[s] = NULL
    /\ kmain.step # "count" /\ proc_count \in Slots => proc_list[proc_count] = NULL
    /\ kmain.step = "count" => /\ proc_count < MAX_PROCS
                                /\ proc_list[proc_count] = handle[kmain.p]
    /\ kmain.step = "slot" => /\ proc_count > 0
                               /\ proc_list[proc_count - 1] = NULL

CurrentListed ==
    current_proc \in Procs => \E s \in Listed : proc_list[s] = current_proc

Inv ==
    /\ TypeOK
    /\ NothingYet
    /\ RegisterState
    /\ SlotsBehind
    /\ CurrentListed
    /\ OneRunning
    /\ ListSound

-----------------------------------------------------------------------------
(* A slot that find_next_proc looks at is one of the list's.               *)
LEMMA LookedInList ==
  ASSUME Inv, NEW d \in Listed
  PROVE  /\ (Start + d) % proc_count \in Listed
         /\ Looked(d) \in Procs \cup {NULL}
  <1>1. proc_count \in Nat \ {0} /\ d \in Nat /\ proc_count <= MAX_PROCS
    BY SchedulerAssumption DEF Inv, TypeOK, Listed
  <1>2. \A a \in Nat : a % proc_count \in 0 .. proc_count - 1
    BY <1>1
  <1>3. Start \in Nat
    <2> DEFINE Is(s) == /\ proc_list[s] = current_proc
                        /\ \A r \in Listed : proc_list[r] = current_proc => s <= r
               found == CHOOSE s \in Listed : Is(s)
    <2>1. CASE ~\E s \in Listed : proc_list[s] = current_proc /\ current_proc # NULL
      BY <2>1 DEF Start
    <2>2. CASE \E s \in Listed : proc_list[s] = current_proc /\ current_proc # NULL
      <3>1. PICK s \in Listed : proc_list[s] = current_proc /\ current_proc # NULL
        BY <2>2
      <3>2. \A r \in Listed : proc_list[r] = current_proc => r = s
        BY <3>1 DEF Inv, ListSound
      <3>3. Is(s)
        BY <1>1, <3>1, <3>2 DEF Listed
      <3>4. found \in Listed
        BY <3>1, <3>3
      <3>5. Start = (found + 1) % proc_count
        BY <2>2 DEF Start
      <3>6. found + 1 \in Nat
        BY <3>4 DEF Listed
      <3> HIDE DEF found
      <3> QED  BY <1>1, <1>2, <3>5, <3>6
    <2> QED  BY <2>1, <2>2
  <1>4. (Start + d) % proc_count \in Listed
    BY <1>1, <1>2, <1>3 DEF Listed
  <1>5. Listed \subseteq Slots
    BY <1>1, SchedulerAssumption DEF Listed, Slots
  <1> QED  BY <1>4, <1>5 DEF Looked, Inv, TypeOK

(* A step of kmain, with a tick possible after each, keeps the invariant.  *)
LEMMA CreateInv ==
  ASSUME Inv, scheduler_init \/ create_proc
  PROVE  Inv'
  <1>1. /\ cpu = Kmain /\ kmain.step \in {"init", "create"}
        /\ kmain.p \in Procs /\ NProcs \in Nat /\ NProcs > 0
        /\ kmain \in [step : Steps, p : Procs]
    BY SchedulerAssumption DEF scheduler_init, create_proc, At, Inv, TypeOK
  <1>2. /\ proc_count = 0 /\ current_proc = NULL
        /\ \A p \in Procs : proc_state[p] \in {"NONE", "NEW"}
    BY <1>1 DEF Inv, NothingYet
  <1>3. /\ proc_count' = 0 /\ current_proc' = NULL /\ proc_list' = proc_list
        /\ waited' = waited /\ sched_ticks' = sched_ticks
        /\ cpu' \in {Kmain, Halted}
    BY <1>1, <1>2 DEF scheduler_init, create_proc
  <1>4. /\ \A p \in Procs : proc_state'[p] \in {"NONE", "NEW"}
        /\ proc_state' \in [Procs -> States]
    BY <1>1, <1>2 DEF scheduler_init, create_proc, Inv, TypeOK, States
  <1>5. /\ \A p \in Procs : handle'[p] \in {NULL, p}
        /\ handle' \in [Procs -> Procs \cup {NULL}]
    BY <1>1 DEF scheduler_init, create_proc, Inv, RegisterState, TypeOK
  <1>6. /\ kmain' \in [step : Steps, p : Procs]
        /\ kmain'.step \in {"create", "append"}
    <2>1. CASE scheduler_init
      BY <1>1, <2>1 DEF scheduler_init, Goto, Steps
    <2>2. CASE create_proc /\ AfterCreate
      BY <1>1, <2>2 DEF AfterCreate, Steps, Procs, At, create_proc
    <2>3. CASE create_proc /\ kmain' = kmain
      BY <1>1, <2>3 DEF At, create_proc
    <2> QED  BY <2>1, <2>2, <2>3 DEF create_proc
  <1>7. Listed' = {}
    BY <1>3 DEF Listed
  <1>8. TypeOK'
    BY <1>3, <1>4, <1>5, <1>6, SchedulerAssumption DEF Inv, TypeOK
  <1>9. NothingYet' /\ RegisterState' /\ CurrentListed'
    BY <1>3, <1>4, <1>5, <1>6, <1>7 DEF NothingYet, RegisterState, CurrentListed, NULL, Procs
  <1>10. OneRunning' /\ ListSound'
    BY <1>3, <1>4, <1>7 DEF OneRunning, ListSound, Kmain, Halted, Procs
  <1>11. SlotsBehind'
    BY <1>1, <1>2, <1>3, <1>6 DEF Inv, SlotsBehind
  <1> QED  BY <1>8, <1>9, <1>10, <1>11 DEF Inv

(* What every step of register_proc leaves for the next process.           *)
LEMMA AfterRegisterState ==
  ASSUME Inv, AfterRegister, kmain.step \in {"append", "ready", "current", "running"},
         kmain.step = "append" => ListFull
  PROVE  /\ kmain' \in [step : Steps, p : Procs]
         /\ kmain'.step \in {"append", "done"}
         /\ kmain'.step = "append" => kmain'.p = kmain.p + 1
         /\ \A s \in Listed : proc_list[s] < kmain.p + 1
  <1>1. /\ kmain.p \in Procs /\ NProcs \in Nat
        /\ kmain \in [step : Steps, p : Procs]
    BY SchedulerAssumption DEF Inv, TypeOK
  <1>2. \A s \in Listed : proc_list[s] \in Procs \cup {NULL}
    <2>1. Listed \subseteq Slots
      BY SchedulerAssumption DEF Inv, TypeOK, Listed, Slots
    <2> QED  BY <2>1 DEF Inv, TypeOK
  <1>3. \A s \in Listed : proc_list[s] < kmain.p + 1
    BY <1>1, <1>2 DEF Inv, RegisterState, Procs, NULL
  <1>4. CASE kmain.p < NProcs
    BY <1>1, <1>3, <1>4 DEF AfterRegister, Steps, Procs
  <1>5. CASE ~(kmain.p < NProcs)
    BY <1>1, <1>3, <1>5 DEF AfterRegister, Steps, Procs
  <1> QED  BY <1>4, <1>5

LEMMA AppendInv ==
  ASSUME Inv, RegisterAppend
  PROVE  Inv'
  <1>1. /\ cpu = Kmain /\ kmain.step = "append"
        /\ kmain.p \in Procs
        /\ kmain \in [step : Steps, p : Procs]
        /\ UNCHANGED <<current_proc, proc_state, sched_ticks, handle, cpu, waited>>
    BY DEF RegisterAppend, At, Inv, TypeOK
  <1>2. CASE ListFull
    <2>1. /\ AfterRegister /\ proc_list' = proc_list /\ proc_count' = proc_count
      BY <1>2 DEF RegisterAppend
    <2>2. /\ kmain' \in [step : Steps, p : Procs]
          /\ kmain'.step \in {"append", "done"}
          /\ kmain'.step = "append" => kmain'.p = kmain.p + 1
          /\ \A s \in Listed : proc_list[s] < kmain.p + 1
      BY <1>1, <1>2, <2>1, AfterRegisterState
    <2>3. Listed' = Listed
      BY <2>1 DEF Listed
    <2> QED  BY <1>1, <2>1, <2>2, <2>3
             DEF Inv, TypeOK, NothingYet, RegisterState, SlotsBehind, CurrentListed, OneRunning, ListSound
  <1>3. CASE ~ListFull /\ Goto("count")
    <2>1. /\ proc_list' = [proc_list EXCEPT ![proc_count] = handle[kmain.p]]
          /\ proc_count' = proc_count /\ kmain' = [kmain EXCEPT !.step = "count"]
      <3>1. kmain'.step = "count"
        BY <1>1, <1>3 DEF Goto
      <3>2. kmain' # [kmain EXCEPT !.step = "slot"]
        BY <1>1, <3>1
      <3> QED BY <1>1, <1>3, <3>2 DEF RegisterAppend, FreeSlot, Goto
    <2>2. /\ proc_count \in Nat /\ proc_count < MAX_PROCS /\ proc_count \in Slots
          /\ Listed' = Listed /\ Listed \subseteq Slots /\ proc_count \notin Listed
      BY <1>3, <2>1, SchedulerAssumption DEF ListFull, Inv, TypeOK, Slots, Listed
    <2>3. /\ \A s \in Slots : s # proc_count => proc_list'[s] = proc_list[s]
          /\ proc_list'[proc_count] = handle[kmain.p]
          /\ \A s \in Listed : proc_list'[s] = proc_list[s]
      BY <2>1, <2>2 DEF Inv, TypeOK
    <2>4. /\ kmain' \in [step : Steps, p : Procs]
          /\ kmain'.step = "count" /\ kmain'.p = kmain.p
      BY <1>1, <2>1 DEF Steps
    <2>5. TypeOK'
      <3>1. proc_list' \in [Slots -> Procs \cup {NULL}]
        BY <1>1, <2>1 DEF Inv, TypeOK
      <3> QED  BY <1>1, <2>1, <2>4, <3>1 DEF Inv, TypeOK
    <2>6. NothingYet' /\ RegisterState' /\ CurrentListed' /\ OneRunning' /\ ListSound'
      BY <1>1, <2>1, <2>2, <2>3, <2>4
      DEF Inv, NothingYet, RegisterState, SlotsBehind, CurrentListed, OneRunning, ListSound
    <2>7. SlotsBehind'
      <3>1. \A s \in Slots : s > proc_count => s # proc_count
        BY <2>2 DEF Slots
      <3> QED BY <1>1, <2>1, <2>2, <2>3, <2>4, <3>1 DEF Inv, SlotsBehind
    <2> QED  BY <2>5, <2>6, <2>7 DEF Inv
  <1>4. CASE ~ListFull /\ Goto("slot")
    <2>1. /\ proc_list' = proc_list /\ proc_count' = proc_count + 1
          /\ kmain' = [kmain EXCEPT !.step = "slot"]
      <3>1. kmain'.step = "slot"
        BY <1>1, <1>4 DEF Goto
      <3>2. kmain' # [kmain EXCEPT !.step = "count"]
        BY <1>1, <3>1
      <3> QED BY <1>1, <1>4, <3>2 DEF RegisterAppend, Goto
    <2>2. /\ proc_count \in Nat /\ proc_count < MAX_PROCS /\ proc_count \in Slots
          /\ MAX_PROCS \in Nat
      BY <1>4, SchedulerAssumption DEF ListFull, Inv, TypeOK, Slots
    <2>3. Listed' = Listed \cup {proc_count} /\ proc_list[proc_count] = NULL
      BY <1>1, <2>1, <2>2 DEF Listed, Inv, SlotsBehind
    <2>4. /\ kmain' \in [step : Steps, p : Procs]
          /\ kmain'.step = "slot" /\ kmain'.p = kmain.p
      BY <1>1, <2>1 DEF Steps
    <2>5. TypeOK'
      <3>1. proc_count' \in 0 .. MAX_PROCS
        BY <2>1, <2>2
      <3> QED BY <1>1, <2>1, <2>4, <3>1 DEF Inv, TypeOK
    <2>6. RegisterState'
      BY <1>1, <2>1, <2>3, <2>4 DEF Inv, RegisterState, NULL, Procs
    <2>7. SlotsBehind'
      BY <2>1, <2>2, <2>3, <2>4 DEF Inv, SlotsBehind, Slots
    <2>8. NothingYet' /\ CurrentListed' /\ OneRunning'
      BY <1>1, <2>1, <2>3, <2>4 DEF Inv, NothingYet, CurrentListed, OneRunning
    <2>9. ListSound'
      BY <1>1, <2>1, <2>3 DEF Inv, ListSound
    <2> QED  BY <2>5, <2>6, <2>7, <2>8, <2>9 DEF Inv
  <1> QED  BY <1>2, <1>3, <1>4 DEF RegisterAppend

(* The stored slot is counted, and holds a process that was not listed.    *)
LEMMA CountInv ==
  ASSUME Inv, RegisterCount
  PROVE  Inv'
  <1>1. /\ cpu = Kmain /\ kmain.step = "count" /\ kmain.p \in Procs
        /\ kmain \in [step : Steps, p : Procs]
        /\ UNCHANGED <<proc_list, current_proc, proc_state, sched_ticks, handle, cpu, waited>>
        /\ proc_count' = proc_count + 1
        /\ kmain' = [kmain EXCEPT !.step = "ready"]
    BY DEF RegisterCount, At, Goto, Inv, TypeOK
  <1>2. /\ proc_count \in Nat /\ proc_count < MAX_PROCS /\ proc_count \in Slots
        /\ MAX_PROCS \in Nat /\ proc_list[proc_count] = handle[kmain.p]
    BY <1>1, SchedulerAssumption DEF Inv, TypeOK, SlotsBehind, Slots
  <1>3. Listed' = Listed \cup {proc_count} /\ Listed \subseteq Slots
    BY <1>1, <1>2 DEF Listed, Slots
  <1>4. /\ kmain' \in [step : Steps, p : Procs]
        /\ kmain'.step = "ready" /\ kmain'.p = kmain.p
    BY <1>1 DEF Steps
  <1>5. handle[kmain.p] \in {NULL, kmain.p} /\ kmain.p \in Int /\ kmain.p > 0
    BY <1>1 DEF Inv, RegisterState, Procs
  <1>6. \A s \in Listed : proc_list[s] \in Int /\ proc_list[s] < kmain.p
    BY <1>1, <1>3 DEF Inv, RegisterState, TypeOK, Procs, NULL
  <1>7. TypeOK'
    <2>1. proc_count' \in 0 .. MAX_PROCS
      BY <1>1, <1>2
    <2> QED  BY <1>1, <1>4, <2>1 DEF Inv, TypeOK
  <1>8. RegisterState'
    <2>1. \A s \in Listed' : proc_list[s] <= kmain.p
      BY <1>2, <1>3, <1>5, <1>6 DEF NULL
    <2>2. proc_count' > 0 /\ proc_count' - 1 = proc_count
      BY <1>1, <1>2
    <2> QED  BY <1>1, <1>2, <1>4, <2>1, <2>2 DEF Inv, RegisterState
  <1>9. SlotsBehind'
    <2>1. \A s \in Slots : s >= proc_count' => s > proc_count
      BY <1>1, <1>2 DEF Slots
    <2>2. \A s \in Slots : s > proc_count' => s >= proc_count'
      BY <1>1, <1>2 DEF Slots
    <2> QED  BY <1>1, <1>2, <1>4, <2>1, <2>2 DEF Inv, SlotsBehind
  <1>10. NothingYet' /\ CurrentListed' /\ OneRunning'
    BY <1>1, <1>3, <1>4 DEF Inv, NothingYet, CurrentListed, OneRunning
  <1>11. ListSound'
    <2>1. ASSUME NEW r \in Listed', NEW s \in Listed',
                 proc_list[r] = proc_list[s], proc_list[r] # NULL
          PROVE  r = s
      <3>1. CASE r \in Listed /\ s \in Listed
        BY <2>1, <3>1 DEF Inv, ListSound
      <3>2. CASE r = proc_count /\ s \in Listed
        BY <1>2, <1>5, <1>6, <2>1, <3>2
      <3>3. CASE s = proc_count /\ r \in Listed
        BY <1>2, <1>5, <1>6, <2>1, <3>3
      <3> QED  BY <1>3, <3>1, <3>2, <3>3
    <2> QED  BY <1>1, <1>3, <2>1 DEF Inv, ListSound
  <1> QED  BY <1>7, <1>8, <1>9, <1>10, <1>11 DEF Inv

(* The counted slot gets its process.                                      *)
LEMMA SlotInv ==
  ASSUME Inv, RegisterSlot
  PROVE  Inv'
  <1> DEFINE last == proc_count - 1
  <1>1. /\ cpu = Kmain /\ kmain.step = "slot" /\ kmain.p \in Procs
        /\ kmain \in [step : Steps, p : Procs]
        /\ UNCHANGED <<proc_count, current_proc, proc_state, sched_ticks, handle, cpu, waited>>
        /\ proc_list' = [proc_list EXCEPT ![last] = handle[kmain.p]]
        /\ kmain' = [kmain EXCEPT !.step = "ready"]
        /\ Listed' = Listed
    BY DEF RegisterSlot, At, Goto, Inv, TypeOK, Listed
  <1>2. /\ proc_count \in Nat \ {0} /\ proc_list[last] = NULL
        /\ last \in Listed /\ Listed \subseteq Slots /\ last \in Slots
    BY <1>1, SchedulerAssumption DEF Inv, TypeOK, SlotsBehind, Slots, Listed
  <1>3. /\ \A s \in Slots : s # last => proc_list'[s] = proc_list[s]
        /\ proc_list'[last] = handle[kmain.p]
    BY <1>1, <1>2 DEF Inv, TypeOK
  <1>4. /\ kmain' \in [step : Steps, p : Procs]
        /\ kmain'.step = "ready" /\ kmain'.p = kmain.p
    BY <1>1 DEF Steps
  <1>5. handle[kmain.p] \in {NULL, kmain.p} /\ kmain.p \in Int /\ kmain.p > 0
    BY <1>1 DEF Inv, RegisterState, Procs
  <1>6. \A s \in Listed : proc_list[s] \in Int /\ proc_list[s] < kmain.p
    BY <1>1, <1>2 DEF Inv, RegisterState, TypeOK, Procs, NULL
  <1>7. TypeOK'
    <2>1. proc_list' \in [Slots -> Procs \cup {NULL}]
      BY <1>1 DEF Inv, TypeOK
    <2> QED  BY <1>1, <1>4, <2>1 DEF Inv, TypeOK
  <1>8. RegisterState'
    <2>1. \A s \in Listed : proc_list'[s] <= kmain.p
      BY <1>2, <1>3, <1>5, <1>6 DEF NULL
    <2> QED  BY <1>1, <1>2, <1>3, <1>4, <2>1 DEF Inv, RegisterState
  <1>9. SlotsBehind'
    <2>1. \A s \in Slots : s >= proc_count => s # last
      BY <1>2 DEF Slots
    <2>2. \A s \in Slots : s > proc_count => s >= proc_count
      BY <1>2 DEF Slots
    <2> QED  BY <1>1, <1>2, <1>3, <1>4, <2>1, <2>2 DEF Inv, SlotsBehind
  <1>10. \A p \in Procs, s \in Listed : proc_list[s] = p => proc_list'[s] = p
    BY <1>2, <1>3 DEF NULL, Procs
  <1>11. NothingYet' /\ CurrentListed' /\ OneRunning'
    BY <1>1, <1>4, <1>10 DEF Inv, NothingYet, CurrentListed, OneRunning
  <1>12. ListSound'
    <2>1. ASSUME NEW r \in Listed, NEW s \in Listed,
                 proc_list'[r] = proc_list'[s], proc_list'[r] # NULL
          PROVE  r = s
      <3>1. CASE r # last /\ s # last
        BY <1>2, <1>3, <2>1, <3>1 DEF Inv, ListSound
      <3>2. CASE r = last /\ s # last
        BY <1>2, <1>3, <1>5, <1>6, <2>1, <3>2
      <3>3. CASE s = last /\ r # last
        BY <1>2, <1>3, <1>5, <1>6, <2>1, <3>3
      <3> QED  BY <3>1, <3>2, <3>3
    <2> QED  BY <1>1, <1>10, <2>1 DEF Inv, ListSound
  <1> QED  BY <1>7, <1>8, <1>9, <1>11, <1>12 DEF Inv

LEMMA ReadyInv ==
  ASSUME Inv, RegisterReady
  PROVE  Inv'
  <1>1. /\ cpu = Kmain /\ kmain.step = "ready" /\ kmain.p \in Procs
        /\ kmain \in [step : Steps, p : Procs]
        /\ UNCHANGED <<proc_list, proc_count, current_proc, sched_ticks, handle, waited>>
        /\ Listed' = Listed
    BY DEF RegisterReady, At, Inv, TypeOK, Listed
  <1>2. CASE handle[kmain.p] = NULL
    <2>1. cpu' = Halted /\ proc_state' = proc_state /\ kmain' = kmain
      BY <1>2 DEF RegisterReady
    <2>2. Halted \notin Procs /\ Halted # Kmain
      BY DEF Halted, Kmain, Procs
    <2> QED  BY <1>1, <2>1, <2>2
             DEF Inv, TypeOK, NothingYet, RegisterState, SlotsBehind, CurrentListed, OneRunning, ListSound
  <1>3. CASE handle[kmain.p] # NULL
    <2>1. /\ proc_state' = [proc_state EXCEPT ![kmain.p] = "READY"]
          /\ kmain' = [kmain EXCEPT !.step = "current"]
          /\ cpu' = cpu
      BY <1>3 DEF RegisterReady, Goto
    <2>2. handle[kmain.p] = kmain.p
      BY <1>1, <1>3 DEF Inv, RegisterState
    <2>3. /\ kmain' \in [step : Steps, p : Procs]
          /\ kmain'.step = "current" /\ kmain'.p = kmain.p
      BY <1>1, <2>1 DEF Steps
    <2>4. TypeOK'
      BY <1>1, <2>1, <2>3 DEF Inv, TypeOK, States
    <2>5. \E s \in Listed : proc_list[s] = kmain.p
      BY <1>1, <2>2 DEF Inv, RegisterState, TypeOK, Listed
    <2>6. /\ \A p \in Procs : proc_state'[p] = "RUNNING" => proc_state[p] = "RUNNING"
          /\ \A p \in Procs : p # kmain.p => proc_state'[p] = proc_state[p]
      BY <1>1, <2>1 DEF Inv, TypeOK
    <2>7. OneRunning' /\ ListSound'
      BY <1>1, <2>1, <2>5, <2>6 DEF Inv, OneRunning, ListSound, Kmain, Procs
    <2>8. NothingYet' /\ RegisterState' /\ SlotsBehind' /\ CurrentListed'
      BY <1>1, <2>1, <2>2, <2>3 DEF Inv, NothingYet, RegisterState, SlotsBehind, CurrentListed
    <2> QED  BY <2>4, <2>7, <2>8 DEF Inv
  <1> QED  BY <1>2, <1>3

LEMMA CurrentInv ==
  ASSUME Inv, RegisterCurrent
  PROVE  Inv'
  <1>1. /\ cpu = Kmain /\ kmain.step = "current" /\ kmain.p \in Procs
        /\ kmain \in [step : Steps, p : Procs]
        /\ UNCHANGED <<proc_list, proc_count, proc_state, sched_ticks, handle, cpu, waited>>
        /\ Listed' = Listed /\ cpu \notin Procs
    BY DEF RegisterCurrent, At, Inv, TypeOK, Listed, Kmain, Procs
  <1>2. CASE current_proc # NULL
    <2>1. AfterRegister /\ current_proc' = current_proc
      BY <1>2 DEF RegisterCurrent
    <2>2. /\ kmain' \in [step : Steps, p : Procs]
          /\ kmain'.step \in {"append", "done"}
          /\ kmain'.step = "append" => kmain'.p = kmain.p + 1
          /\ \A s \in Listed : proc_list[s] < kmain.p + 1
      BY <1>1, <2>1, AfterRegisterState
    <2> QED  BY <1>1, <2>1, <2>2
             DEF Inv, TypeOK, NothingYet, RegisterState, SlotsBehind, CurrentListed, OneRunning, ListSound
  <1>3. CASE current_proc = NULL
    <2>1. /\ current_proc' = handle[kmain.p]
          /\ kmain' = [kmain EXCEPT !.step = "running"]
      BY <1>3 DEF RegisterCurrent, Goto
    <2>2. handle[kmain.p] = kmain.p
      BY <1>1 DEF Inv, RegisterState
    <2>3. /\ kmain' \in [step : Steps, p : Procs]
          /\ kmain'.step = "running" /\ kmain'.p = kmain.p
      BY <1>1, <2>1 DEF Steps
    <2>4. CurrentListed'
      BY <1>1, <2>1, <2>2 DEF Inv, RegisterState, TypeOK, Listed, CurrentListed
    <2>5. OneRunning'
      BY <1>1, <1>3 DEF Inv, OneRunning, NULL, Procs
    <2> QED  BY <1>1, <2>1, <2>2, <2>3, <2>4, <2>5
             DEF Inv, TypeOK, NothingYet, RegisterState, SlotsBehind, ListSound
  <1> QED  BY <1>2, <1>3

LEMMA RunningInv ==
  ASSUME Inv, RegisterRunning
  PROVE  Inv'
  <1>1. /\ cpu = Kmain /\ kmain.step = "running" /\ kmain.p \in Procs
        /\ UNCHANGED <<proc_list, proc_count, current_proc, sched_ticks, handle, cpu, waited>>
        /\ proc_state' = [proc_state EXCEPT ![kmain.p] = "RUNNING"]
        /\ Listed' = Listed /\ cpu \notin Procs /\ AfterRegister
    BY DEF RegisterRunning, At, Inv, TypeOK, Listed, Kmain, Procs
  <1>2. /\ kmain' \in [step : Steps, p : Procs]
        /\ kmain'.step \in {"append", "done"}
        /\ kmain'.step = "append" => kmain'.p = kmain.p + 1
        /\ \A s \in Listed : proc_list[s] < kmain.p + 1
    BY <1>1, AfterRegisterState
  <1>3. current_proc = kmain.p /\ \E s \in Listed : proc_list[s] = kmain.p
    BY <1>1 DEF Inv, RegisterState, CurrentListed
  <1>4. \A p \in Procs : p # kmain.p => proc_state'[p] = proc_state[p]
    BY <1>1 DEF Inv, TypeOK
  <1>5. TypeOK'
    BY <1>1, <1>2 DEF Inv, TypeOK, States
  <1>6. NothingYet' /\ RegisterState' /\ SlotsBehind' /\ CurrentListed'
    BY <1>1, <1>2 DEF Inv, NothingYet, RegisterState, SlotsBehind, CurrentListed
  <1>7. OneRunning' /\ ListSound'
    BY <1>1, <1>3, <1>4 DEF Inv, OneRunning, ListSound
  <1> QED  BY <1>5, <1>6, <1>7 DEF Inv

-----------------------------------------------------------------------------
(* A switch to a READY process of the list keeps the invariant.            *)
LEMMA SwitchInv ==
  ASSUME Inv, cpu # Halted, NEW next \in Procs, proc_state[next] = "READY",
         next # current_proc, SwitchTo(next), sched_ticks' \in 0 .. SchedTickFreq - 1,
         UNCHANGED <<proc_list, proc_count, handle, kmain>>
  PROVE  Inv'
  <1>1. /\ \A p \in Procs : proc_state'[p] = CASE p = next -> "RUNNING"
                                               [] p = current_proc -> "READY"
                                               [] OTHER -> proc_state[p]
        /\ proc_state' \in [Procs -> States]
    BY DEF SwitchTo, Inv, TypeOK, States
  <1>2. /\ current_proc' = next /\ cpu' \in {next, Halted}
        /\ Listed' = Listed
    BY DEF SwitchTo, Listed
  <1>3. waited' \in [Procs -> Nat]
    BY DEF SwitchTo, Inv, TypeOK
  <1>4. TypeOK'
    BY <1>1, <1>2, <1>3 DEF Inv, TypeOK
  <1>5. Halted \notin Procs /\ Kmain \notin Procs /\ Halted # Kmain
    BY DEF Halted, Kmain, Procs
  <1>6. OneRunning'
    <2>1. ASSUME NEW p \in Procs, proc_state'[p] = "RUNNING"  PROVE p = next
      BY <1>1, <2>1 DEF Inv, OneRunning
    <2>2. proc_state'[next] = "RUNNING"
      BY <1>1
    <2> QED  BY <1>2, <1>5, <2>1, <2>2 DEF OneRunning
  <1>7. \E s \in Listed : proc_list[s] = next
    BY DEF Inv, ListSound
  <1>8. ListSound' /\ CurrentListed'
    <2>1. ASSUME NEW p \in Procs, proc_state'[p] \in {"READY", "RUNNING"}
          PROVE  \E s \in Listed : proc_list[s] = p
      <3>1. CASE p = next
        BY <1>7, <3>1
      <3>2. CASE p # next /\ p = current_proc
        BY <3>2 DEF Inv, CurrentListed
      <3>3. CASE p # next /\ p # current_proc
        BY <1>1, <2>1, <3>3 DEF Inv, ListSound
      <3> QED  BY <3>1, <3>2, <3>3
    <2>2. \A r, s \in Listed' : proc_list'[r] = proc_list'[s] /\ proc_list'[r] # NULL => r = s
      BY <1>2 DEF Inv, ListSound
    <2> QED  BY <1>2, <1>7, <2>1, <2>2 DEF ListSound, CurrentListed
  <1>9. NothingYet'
    BY <1>5 DEF Inv, NothingYet
  <1>10. RegisterState' /\ SlotsBehind'
    BY <1>2, <1>5 DEF Inv, RegisterState, SlotsBehind
  <1> QED  BY <1>4, <1>6, <1>8, <1>9, <1>10 DEF Inv

LEMMA TickInv ==
  ASSUME Inv, scheduler_tick
  PROVE  Inv'
  <1>1. /\ cpu # Halted
        /\ UNCHANGED <<proc_list, proc_count, handle, kmain>>
        /\ Listed' = Listed
    BY DEF scheduler_tick, Listed
  <1>2. sched_ticks' \in 0 .. SchedTickFreq - 1
    <2>1. \A a \in Nat, n \in Nat \ {0} : a % n \in 0 .. n - 1
      OBVIOUS
    <2>2. sched_ticks + 1 \in Nat /\ SchedTickFreq \in Nat \ {0}
      BY SchedulerAssumption DEF Inv, TypeOK
    <2> QED  BY <2>1, <2>2 DEF scheduler_tick
  <1>3. ASSUME NoSwitch  PROVE Inv'
    BY <1>1, <1>2, <1>3
    DEF NoSwitch, Inv, TypeOK, NothingYet, RegisterState, SlotsBehind, CurrentListed, OneRunning, ListSound
  <1>4. ASSUME cpu' = Halted, UNCHANGED <<current_proc, proc_state, waited>>
        PROVE  Inv'
    <2>1. Halted \notin Procs /\ Halted # Kmain
      BY DEF Halted, Kmain, Procs
    <2> QED  BY <1>1, <1>2, <1>4, <2>1
             DEF Inv, TypeOK, NothingYet, RegisterState, SlotsBehind, CurrentListed, OneRunning, ListSound
  <1>5. ASSUME NEW d \in Listed, StopsAt(d),
               CASE Looked(d) = NULL ->
                      cpu' = Halted /\ UNCHANGED <<current_proc, proc_state, waited>>
                 [] Looked(d) \in Procs \cap {current_proc} -> NoSwitch
                 [] Looked(d) \in Procs \ {current_proc} -> SwitchTo(Looked(d))
        PROVE  Inv'
    <2>1. Looked(d) \in Procs \cup {NULL} /\ NULL \notin Procs
      BY LookedInList DEF NULL, Procs
    <2>2. CASE Looked(d) = NULL
      BY <1>4, <1>5, <2>1, <2>2
    <2>3. CASE Looked(d) \in Procs \cap {current_proc}
      BY <1>3, <1>5, <2>1, <2>3
    <2>4. CASE Looked(d) \in Procs \ {current_proc}
      <3>1. SwitchTo(Looked(d))
        BY <1>5, <2>1, <2>4
      <3>2. proc_state[Looked(d)] = "READY"
        BY <1>5, <2>1, <2>4 DEF StopsAt, Stops
      <3> QED  BY <1>1, <1>2, <2>4, <3>1, <3>2, SwitchInv
    <2> QED  BY <2>1, <2>2, <2>3, <2>4
  <1>6. CASE context_switch
    BY <1>3, <1>5, <1>6 DEF context_switch
  <1> QED  BY <1>3, <1>6 DEF scheduler_tick

LEMMA InvInductive ==
  /\ Init => Inv
  /\ Inv /\ [Next]_schedVars => Inv'
  <1>1. Init => Inv
    <2> SUFFICES ASSUME Init  PROVE Inv
      OBVIOUS
    <2>1. Listed = {}
      BY DEF Init, Listed
    <2>2. TypeOK
      BY SchedulerAssumption
      DEF Init, TypeOK, States, Steps, Procs, NULL, Kmain, Halted
    <2>3. NothingYet /\ RegisterState /\ CurrentListed
      BY <2>1 DEF Init, NothingYet, RegisterState, CurrentListed, NULL, Procs
    <2>5. SlotsBehind
      BY DEF Init, SlotsBehind
    <2>4. OneRunning /\ ListSound
      BY <2>1 DEF Init, OneRunning, ListSound, Kmain, Procs
    <2> QED  BY <2>2, <2>3, <2>4, <2>5 DEF Inv
  <1>2. ASSUME Inv, UNCHANGED schedVars  PROVE Inv'
    BY <1>2 DEF schedVars, Inv, TypeOK, Listed, NothingYet, RegisterState, SlotsBehind,
                CurrentListed, OneRunning, ListSound
  <1> QED  BY <1>1, <1>2, CreateInv, AppendInv, CountInv, SlotInv, ReadyInv, CurrentInv,
              RunningInv, TickInv
           DEF Next, KmainStep

(* The scheduler's statics keep their types.                               *)
THEOREM TypeCorrect == Spec => []TypeOK
  <1>1. Inv => TypeOK  BY DEF Inv
  <1> QED  BY <1>1, InvInductive, PTL DEF Spec

(* However ticks and registrations interleave, no process but current_proc *)
(* is RUNNING, and no other process's code is executed.                    *)
THEOREM OneProcessRuns == Spec => []OneRunning
  <1>1. Inv => OneRunning  BY DEF Inv
  <1> QED  BY <1>1, InvInductive, PTL DEF Spec

(* However they interleave, every process that may run is on the list      *)
(* exactly once.                                                           *)
THEOREM RunnableAreListed == Spec => []ListSound
  <1>1. Inv => ListSound  BY DEF Inv
  <1> QED  BY <1>1, InvInductive, PTL DEF Spec

-----------------------------------------------------------------------------
(* The turn of a process: how far behind the search's start its slot is.   *)

Wrap(x) == IF x < proc_count THEN x ELSE x - proc_count

LEMMA Remainder ==
  ASSUME NEW n \in Nat \ {0}, NEW x \in 0 .. 2 * n - 1
  PROVE  x % n = IF x < n THEN x ELSE x - n
  OBVIOUS

(* The search begins behind current_proc's slot.                           *)
StartsBehind ==
    /\ Start \in Listed
    /\ \A c \in Listed : proc_list[c] = current_proc /\ current_proc # NULL
                           => Start = Wrap(c + 1)

LEMMA StartIs == Inv /\ proc_count > 0 => StartsBehind
  <1> SUFFICES ASSUME Inv, proc_count > 0
               PROVE  /\ Start \in Listed
                      /\ \A c \in Listed : proc_list[c] = current_proc /\ current_proc # NULL
                                             => Start = Wrap(c + 1)
    BY DEF StartsBehind
  <1>1. proc_count \in Nat \ {0} /\ 0 \in Listed
    BY DEF Inv, TypeOK, Listed
  <1>2. \A c \in Listed : (c + 1) % proc_count = Wrap(c + 1) /\ Wrap(c + 1) \in Listed
    <2> TAKE c \in Listed
    <2>1. c + 1 \in 0 .. 2 * proc_count - 1
      BY <1>1 DEF Listed
    <2> QED BY <1>1, <2>1, Remainder DEF Wrap, Listed
  <1>3. ASSUME NEW c \in Listed, proc_list[c] = current_proc, current_proc # NULL
        PROVE  Start = Wrap(c + 1)
    <2> DEFINE Is(s) == /\ proc_list[s] = current_proc
                        /\ \A r \in Listed : proc_list[r] = current_proc => s <= r
               found == CHOOSE s \in Listed : Is(s)
    <2>1. \A r \in Listed : proc_list[r] = current_proc => r = c
      BY <1>3 DEF Inv, ListSound
    <2>2. Is(c)
      BY <1>1, <1>3, <2>1 DEF Listed
    <2>3. found \in Listed /\ Is(found)
      BY <2>2
    <2>4. found = c
      BY <2>1, <2>3
    <2>5. Start = (found + 1) % proc_count
      BY <1>3 DEF Start
    <2> QED BY <1>2, <2>4, <2>5
  <1>4. CASE \E c \in Listed : proc_list[c] = current_proc /\ current_proc # NULL
    BY <1>2, <1>3, <1>4
  <1>5. CASE ~\E c \in Listed : proc_list[c] = current_proc /\ current_proc # NULL
    <2>1. Start = 0
      BY <1>5 DEF Start
    <2> QED BY <1>1, <1>5, <2>1
  <1> QED BY <1>3, <1>4, <1>5

(* The search looks at every slot of the list, from its start on.          *)
Round ==
    /\ \A d \in Listed : /\ Wrap(Start + d) \in Listed
                          /\ Looked(d) = proc_list[Wrap(Start + d)]
    /\ \A s \in Listed : \E d \in Listed : Wrap(Start + d) = s

LEMMA LooksEverywhere == Inv /\ proc_count > 0 => Round
  <1> SUFFICES ASSUME Inv, proc_count > 0
               PROVE  /\ \A d \in Listed : /\ Wrap(Start + d) \in Listed
                                            /\ Looked(d) = proc_list[Wrap(Start + d)]
                      /\ \A s \in Listed : \E d \in Listed : Wrap(Start + d) = s
    BY DEF Round
  <1>1. proc_count \in Nat \ {0}
    BY DEF Inv, TypeOK
  <1>2. Start \in Listed
    BY StartIs DEF StartsBehind
  <1>3. ASSUME NEW d \in Listed
        PROVE  (Start + d) % proc_count = Wrap(Start + d) /\ Wrap(Start + d) \in Listed
    <2>1. Start + d \in 0 .. 2 * proc_count - 1
      BY <1>1, <1>2 DEF Listed
    <2>2. (Start + d) % proc_count = Wrap(Start + d)
      BY <1>1, <2>1, Remainder DEF Wrap
    <2>3. Wrap(Start + d) \in Listed
      BY <1>1, <2>1 DEF Wrap, Listed
    <2> QED BY <2>2, <2>3
  <1>4. ASSUME NEW s \in Listed PROVE \E d \in Listed : Wrap(Start + d) = s
    <2>1. CASE s >= Start
      <3>1. s - Start \in Listed /\ Wrap(Start + (s - Start)) = s
        BY <1>1, <1>2, <2>1 DEF Wrap, Listed
      <3> QED BY <3>1
    <2>2. CASE s < Start
      <3>1. s - Start + proc_count \in Listed /\ Wrap(Start + (s - Start + proc_count)) = s
        BY <1>1, <1>2, <2>2 DEF Wrap, Listed
      <3> QED BY <3>1
    <2> QED BY <1>1, <1>2, <2>1, <2>2 DEF Listed
  <1> QED BY <1>3, <1>4 DEF Looked

(* A process that may run is one the search would stop at.                 *)
LEMMA ReadyIsFound ==
  ASSUME Inv, NEW p \in Procs, proc_state[p] = "READY"
  PROVE  /\ proc_count > 0
         /\ \E d \in Listed : Looked(d) = p /\ Stops(d)
  <1>1. PICK s \in Listed : proc_list[s] = p
    BY DEF Inv, ListSound
  <1>2. proc_count > 0
    BY <1>1 DEF Inv, TypeOK, Listed
  <1>3. PICK d \in Listed : Wrap(Start + d) = s
    BY <1>2, LooksEverywhere DEF Round
  <1>4. Looked(d) = p
    BY <1>1, <1>2, <1>3, LooksEverywhere DEF Round
  <1> QED BY <1>2, <1>4 DEF Stops

(* The search looks at current_proc last.                                  *)
LEMMA CurrentIsLast ==
  ASSUME Inv, NEW d \in Listed, Looked(d) = current_proc, current_proc # NULL
  PROVE  d = proc_count - 1
  <1>1. proc_count \in Nat \ {0}
    BY DEF Inv, TypeOK, Listed
  <1>2. Start \in Listed /\ Wrap(Start + d) \in Listed
    BY <1>1, StartIs, LooksEverywhere DEF StartsBehind, Round
  <1>3. Start = Wrap(Wrap(Start + d) + 1)
    BY <1>1, <1>2, StartIs, LooksEverywhere DEF StartsBehind, Round
  <1> QED BY <1>1, <1>2, <1>3 DEF Wrap, Listed

(* A tick that is due switches if some other process is READY: the search  *)
(* looks at that process before it comes back to current_proc.             *)
THEOREM DueTicksSwitch == Spec => DueTickSwitches
  <1> DEFINE Switches ==
        UNCHANGED kmain /\ sched_ticks' = 0
          /\ (\E p \in Procs : p # current_proc /\ proc_state[p] = "READY")
        => current_proc' # current_proc \/ cpu' = Halted
  <1>1. ASSUME Inv, KmainStep, UNCHANGED kmain PROVE cpu' = Halted
    <2>1. kmain \in [step : Steps, p : Procs] /\ Procs \subseteq Int
      BY <1>1 DEF Inv, TypeOK, Procs
    <2>2. ~AfterCreate \/ kmain.step # "create"
      BY <1>1, <2>1 DEF AfterCreate
    <2>3. ~AfterRegister \/ kmain.step \notin {"append", "current", "running"}
      BY <1>1, <2>1 DEF AfterRegister
    <2>4. \A step \in Steps : Goto(step) => step = kmain.step
      <3> TAKE step \in Steps
      <3>1. [kmain EXCEPT !.step = step].step = step
        BY <2>1
      <3> QED BY <1>1, <3>1 DEF Goto
    <2> QED BY <1>1, <2>2, <2>3, <2>4
            DEF KmainStep, scheduler_init, create_proc, RegisterAppend, RegisterCount,
                RegisterSlot, RegisterReady, RegisterCurrent, RegisterRunning, At, Steps
  <1>2. ASSUME Inv, scheduler_tick, sched_ticks' = 0,
               NEW p \in Procs, p # current_proc, proc_state[p] = "READY"
        PROVE  current_proc' # current_proc \/ cpu' = Halted
    <2>1. PICK f \in Listed : Looked(f) = p /\ Stops(f)
      BY <1>2, ReadyIsFound
    <2>2. context_switch
      BY <1>2 DEF scheduler_tick
    <2>3. PICK d \in Listed :
             /\ StopsAt(d)
             /\ CASE Looked(d) = NULL ->
                       cpu' = Halted /\ UNCHANGED <<current_proc, proc_state, waited>>
                  [] Looked(d) \in Procs \cap {current_proc} -> NoSwitch
                  [] Looked(d) \in Procs \ {current_proc} -> SwitchTo(Looked(d))
      BY <2>1, <2>2 DEF context_switch
    <2>4. Looked(d) \in Procs \cup {NULL} /\ NULL \notin Procs
      BY <1>2, LookedInList DEF NULL, Procs
    <2>5. CASE Looked(d) = NULL
      BY <2>3, <2>4, <2>5
    <2>6. CASE Looked(d) = current_proc /\ current_proc # NULL
      <3>1. d = proc_count - 1
        BY <1>2, <2>6, CurrentIsLast
      <3>2. f # d /\ f <= d /\ f \in Int /\ d \in Int
        BY <1>2, <2>1, <2>6, <3>1 DEF Listed, Inv, TypeOK
      <3> QED BY <2>1, <2>3, <3>2 DEF StopsAt
    <2>7. CASE Looked(d) \in Procs \ {current_proc}
      <3>1. SwitchTo(Looked(d))
        BY <2>3, <2>4, <2>7
      <3> QED BY <2>7, <3>1 DEF SwitchTo
    <2> QED BY <2>4, <2>5, <2>6, <2>7
  <1>3. Inv /\ [Next]_schedVars => [Switches]_schedVars
    BY <1>1, <1>2 DEF Next
  <1> QED BY <1>3, InvInductive, PTL DEF Spec, DueTickSwitches

-----------------------------------------------------------------------------
(* kmain, once it is interrupted for a process, does not come back, so that*)
(* nothing has waited while the list grows; and what a process has waited  *)
(* and what the search has in front of it are together less than a round.  *)
TurnComes ==
    /\ cpu = Kmain => \A p \in Procs : waited[p] = 0
    /\ \A p \in Procs : proc_state[p] # "READY" => waited[p] = 0
    /\ \A d \in Listed : Looked(d) \in Procs => waited[Looked(d)] + d < proc_count

LEMMA NoneWaited ==
  TypeOK /\ (\A p \in Procs : waited[p] = 0) => TurnComes
  BY DEF TurnComes, TypeOK, Listed

(* A switch takes as much from what is in front of a process as it adds to *)
(* what the process has waited.                                            *)
LEMMA SwitchTurn ==
  ASSUME Inv, Inv', TurnComes, NEW e \in Listed, StopsAt(e),
         Looked(e) \in Procs, SwitchTo(Looked(e)),
         UNCHANGED <<proc_list, proc_count>>
  PROVE  TurnComes'
  <1>1. /\ proc_count \in Nat \ {0} /\ waited \in [Procs -> Nat]
        /\ current_proc' = Looked(e) /\ cpu' \in {Looked(e), Halted}
        /\ Listed' = Listed /\ e \in Nat
    BY DEF Inv, TypeOK, Listed, SwitchTo
  <1>2. \A p \in Procs :
           waited'[p] = IF p = Looked(e) \/ proc_state[p] # "READY"
                        THEN 0 ELSE waited[p] + 1
    BY DEF SwitchTo
  <1>3. cpu' # Kmain
    BY <1>1 DEF Kmain, Halted, Procs
  <1>4. ASSUME NEW p \in Procs, proc_state'[p] # "READY" PROVE waited'[p] = 0
    <2>1. p = Looked(e) \/ proc_state'[p] = proc_state[p]
      BY <1>4 DEF SwitchTo
    <2> QED BY <1>2, <1>4, <2>1
  <1>5. ASSUME NEW d \in Listed, Looked(d)' \in Procs
        PROVE  waited'[Looked(d)'] + d < proc_count
    <2> DEFINE p == Looked(d)'
    <2>1. d \in Nat /\ d < proc_count
      BY <1>1 DEF Listed
    <2>2. CASE p = Looked(e) \/ proc_state[p] # "READY"
      BY <1>2, <1>5, <2>1, <2>2
    <2>3. CASE p # Looked(e) /\ proc_state[p] = "READY"
      <3> DEFINE s == Wrap(Start + e)
                 next == e + 1 + d
      <3>1. Start \in Listed /\ s \in Listed /\ proc_list[s] = Looked(e)
        BY <1>1, StartIs, LooksEverywhere DEF StartsBehind, Round
      <3>2. (proc_count > 0)'
        BY <1>1
      <3>3. StartsBehind' /\ Round'
        BY <3>2, StartIs, LooksEverywhere, PTL
      <3>4. Start' = Wrap(s + 1)
        <4>1. proc_list'[s] = current_proc' /\ current_proc' # NULL /\ s \in Listed'
          BY <1>1, <3>1 DEF NULL, Procs
        <4> HIDE DEF s
        <4> QED BY <4>1, <3>3 DEF StartsBehind, Wrap
      <3>5. p = proc_list[Wrap(Wrap(s + 1) + d)]
        <4>1. Looked(d)' = proc_list[Wrap(Start' + d)]
          BY <1>1, <3>3 DEF Round, Wrap
        <4> QED BY <3>4, <4>1
      <3>6. CASE next < proc_count
        <4>1. next \in Listed /\ Wrap(Wrap(s + 1) + d) = Wrap(Start + next)
          BY <1>1, <2>1, <3>1, <3>6 DEF Wrap, Listed
        <4>2. p = Looked(next)
          BY <1>1, <3>5, <4>1, LooksEverywhere DEF Round
        <4>3. waited[p] \in Nat /\ waited[p] + next < proc_count /\ waited'[p] = waited[p] + 1
          BY <1>1, <1>2, <1>5, <2>3, <4>1, <4>2 DEF TurnComes
        <4>4. waited'[p] + d < proc_count
          <5> HIDE DEF p
          <5> QED BY <1>1, <2>1, <4>3
        <4> QED BY <4>4
      <3>7. CASE next >= proc_count
        <4> DEFINE back == next - proc_count
        <4>1. back \in Listed /\ back <= e /\ Wrap(Wrap(s + 1) + d) = Wrap(Start + back)
          BY <1>1, <2>1, <3>1, <3>7 DEF Wrap, Listed
        <4>2. p = Looked(back)
          BY <1>1, <3>5, <4>1, LooksEverywhere DEF Round
        <4>3. Stops(back) /\ back # e
          BY <2>3, <4>2 DEF Stops
        <4>4. back < e
          BY <1>1, <2>1, <4>1, <4>3
        <4> QED BY <4>1, <4>3, <4>4 DEF StopsAt
      <3> QED BY <1>1, <2>1, <3>6, <3>7
    <2> QED BY <2>2, <2>3
  <1> QED BY <1>1, <1>3, <1>4, <1>5 DEF TurnComes

LEMMA TurnStep ==
  ASSUME Inv, Inv', TurnComes, [Next]_schedVars
  PROVE  TurnComes'
  <1>1. /\ proc_count \in Nat /\ waited \in [Procs -> Nat] /\ TypeOK'
        /\ Kmain # Halted
    BY DEF Inv, TypeOK, Kmain, Halted
  <1>2. CASE KmainStep
    <2>1. cpu = Kmain /\ waited' = waited
      BY <1>2 DEF KmainStep, scheduler_init, create_proc, RegisterAppend, RegisterCount,
                  RegisterSlot, RegisterReady, RegisterCurrent, RegisterRunning, At
    <2>2. (\A p \in Procs : waited[p] = 0)'
      BY <2>1 DEF TurnComes
    <2>3. (TypeOK /\ (\A p \in Procs : waited[p] = 0) => TurnComes)'
      BY NoneWaited, PTL
    <2> QED BY <1>1, <2>2, <2>3
  <1>3. ASSUME UNCHANGED <<proc_list, proc_count, current_proc, proc_state, waited>>,
               cpu' = Kmain => cpu = Kmain
        PROVE  TurnComes'
    BY <1>3 DEF TurnComes, Looked, Start, Listed
  <1>4. CASE scheduler_tick /\ ~NoSwitch
    <2>1. UNCHANGED <<proc_list, proc_count>> /\ context_switch
      BY <1>4 DEF scheduler_tick
    <2>2. PICK d \in Listed :
             /\ StopsAt(d)
             /\ CASE Looked(d) = NULL ->
                       cpu' = Halted /\ UNCHANGED <<current_proc, proc_state, waited>>
                  [] Looked(d) \in Procs \cap {current_proc} -> NoSwitch
                  [] Looked(d) \in Procs \ {current_proc} -> SwitchTo(Looked(d))
      BY <1>4, <2>1 DEF context_switch
    <2>3. Looked(d) \in Procs \cup {NULL} /\ NULL \notin Procs
      BY LookedInList DEF NULL, Procs
    <2>4. CASE Looked(d) = NULL
      BY <1>1, <1>3, <2>1, <2>2, <2>3, <2>4
    <2>5. CASE Looked(d) \in Procs \cap {current_proc}
      BY <1>4, <2>2, <2>3, <2>5
    <2>6. CASE Looked(d) \in Procs \ {current_proc}
      <3>1. SwitchTo(Looked(d))
        BY <2>2, <2>3, <2>6
      <3> QED BY <2>1, <2>2, <2>6, <3>1, SwitchTurn
    <2> QED BY <2>3, <2>4, <2>5, <2>6
  <1>5. CASE scheduler_tick /\ NoSwitch
    BY <1>3, <1>5 DEF scheduler_tick, NoSwitch
  <1>6. CASE UNCHANGED schedVars
    BY <1>3, <1>6 DEF schedVars
  <1> QED BY <1>2, <1>4, <1>5, <1>6 DEF Next

(* A READY process gets its turn after every other one had at most one.    *)
THEOREM NobodyIsOvertakenTwice == Spec => []BoundedWait
  <1>1. Init => TurnComes
    <2>1. Init => TypeOK /\ \A p \in Procs : waited[p] = 0
      BY InvInductive DEF Init, Inv
    <2> QED BY <2>1, NoneWaited
  <1>2. Inv /\ TurnComes => BoundedWait
    <2> SUFFICES ASSUME Inv, TurnComes, NEW p \in Procs, waited[p] # 0
                 PROVE  waited[p] < proc_count
      BY DEF BoundedWait
    <2>1. proc_state[p] = "READY"
      BY DEF TurnComes
    <2>2. PICK d \in Listed : Looked(d) = p
      BY <2>1, ReadyIsFound
    <2>3. waited[p] + d < proc_count
      BY <2>2 DEF TurnComes
    <2>4. d \in Nat /\ waited[p] \in Nat /\ proc_count \in Nat
      BY DEF Inv, TypeOK, Listed
    <2> QED BY <2>3, <2>4
  <1>3. Spec => []Inv
    BY InvInductive, PTL DEF Spec
  <1>4. Inv /\ Inv' /\ TurnComes /\ [Next]_schedVars => TurnComes'
    BY TurnStep
  <1> QED BY <1>1, <1>2, <1>3, <1>4, PTL DEF Spec

-----------------------------------------------------------------------------
(* TimerIrq.                                                               *)

Typed ==
    /\ booted \in BOOLEAN /\ iflag \in BOOLEAN
    /\ irr \subseteq Lines /\ isr \subseteq Lines
    /\ handler \in Lines \cup {NoIrq}
    /\ saved_if \in [Procs -> BOOLEAN]

(* Before a process has run none has been saved inside a gate.             *)
FlagsAreInitial == cpu = Kmain => \A p \in Procs : saved_if[p]

(* The timer's interrupt that gave a process the processor is still in     *)
(* service, so that the 8259 delivers nothing to it.                       *)
ProcessUndisturbed ==
    cpu \in Procs => booted /\ iflag /\ handler = NoIrq /\ Timer \in isr

IrqInv ==
    /\ Inv
    /\ Typed
    /\ handler # NoIrq \/ iflag => booted
    /\ AckedOnce
    /\ FlagsAreInitial
    /\ ProcessUndisturbed

-----------------------------------------------------------------------------
LEMMA NamesDiffer ==
  /\ Kmain \notin Procs /\ Halted \notin Procs /\ Kmain # Halted
  /\ Timer # NoIrq /\ Keyboard # NoIrq /\ Timer # Keyboard
  /\ Timer \in Lines /\ Keyboard \in Lines
  BY DEF Kmain, Halted, Procs, Timer, Keyboard, NoIrq, Lines

(* An EOI with one line in service ends it, a second one changes nothing.  *)
LEMMA EoiEnds ==
  /\ Eoi({}) = {}
  /\ \A line \in Lines : Eoi({line}) = {}
  BY DEF Eoi, Lines, Timer, Keyboard

(* How a tick can end: nothing, a fault on the list, or a switch.          *)
LEMMA TickEnds ==
  ASSUME Inv, scheduler_tick
  PROVE  \/ UNCHANGED <<cpu, current_proc>>
         \/ cpu' = Halted /\ current_proc' = current_proc
         \/ /\ current_proc' \in Procs \ {current_proc}
            /\ cpu' \in {current_proc', Halted}
  <1>1. CASE NoSwitch
    BY <1>1 DEF NoSwitch
  <1>2. ASSUME NEW d \in Listed,
               CASE Looked(d) = NULL ->
                      cpu' = Halted /\ UNCHANGED <<current_proc, proc_state, waited>>
                 [] Looked(d) \in Procs \cap {current_proc} -> NoSwitch
                 [] Looked(d) \in Procs \ {current_proc} -> SwitchTo(Looked(d))
        PROVE  \/ UNCHANGED <<cpu, current_proc>>
               \/ cpu' = Halted /\ current_proc' = current_proc
               \/ /\ current_proc' \in Procs \ {current_proc}
                  /\ cpu' \in {current_proc', Halted}
    <2>1. Looked(d) \in Procs \cup {NULL} /\ NULL \notin Procs
      BY LookedInList DEF NULL, Procs
    <2>2. CASE Looked(d) = NULL
      BY <1>2, <2>1, <2>2
    <2>3. CASE Looked(d) \in Procs \cap {current_proc}
      BY <1>2, <2>1, <2>3 DEF NoSwitch
    <2>4. CASE Looked(d) \in Procs \ {current_proc}
      <3>1. SwitchTo(Looked(d))
        BY <1>2, <2>1, <2>4
      <3> QED  BY <2>4, <3>1 DEF SwitchTo
    <2> QED  BY <2>1, <2>2, <2>3, <2>4
  <1>3. CASE context_switch
    BY <1>1, <1>2, <1>3 DEF context_switch
  <1> QED  BY <1>1, <1>3 DEF scheduler_tick

(* kmain's steps leave the processor to kmain, or halt.                    *)
LEMMA KmainKeepsProcessor ==
  ASSUME KmainStep
  PROVE  cpu = Kmain /\ cpu' \in {Kmain, Halted}
  BY DEF KmainStep, scheduler_init, create_proc, RegisterAppend, RegisterCount,
         RegisterSlot, RegisterReady, RegisterCurrent, RegisterRunning, At

LEMMA SchedulerInvKept ==
  ASSUME Inv, UNCHANGED schedVars
  PROVE  Inv'
  BY InvInductive

-----------------------------------------------------------------------------
LEMMA BootIrqInv ==
  ASSUME IrqInv, idt_init
  PROVE  IrqInv'
  <1>1. Inv' /\ cpu' = cpu
    BY SchedulerInvKept DEF IrqInv, idt_init, schedVars
  <1>2. handler = NoIrq
    BY DEF IrqInv, idt_init
  <1> QED  BY <1>1, <1>2, NamesDiffer
           DEF IrqInv, idt_init, idt_pic_remap, Typed, AckedOnce, FlagsAreInitial,
               ProcessUndisturbed

LEMMA KernelIrqInv ==
  ASSUME IrqInv, Kernel
  PROVE  IrqInv'
  <1>1. Inv'
    BY InvInductive DEF IrqInv, Kernel, Next
  <1>2. cpu = Kmain /\ cpu' \in {Kmain, Halted}
    BY KmainKeepsProcessor DEF Kernel
  <1>3. UNCHANGED <<booted, irr, isr, handler, saved_if>>
        /\ iflag' = (iflag /\ cpu' # Halted)
    BY DEF Kernel
  <1> QED  BY <1>1, <1>2, <1>3, NamesDiffer
           DEF IrqInv, Typed, AckedOnce, FlagsAreInitial, ProcessUndisturbed

LEMMA RaiseIrqInv ==
  ASSUME IrqInv, NEW line \in Lines, Raise(line)
  PROVE  IrqInv'
  <1>1. Inv' /\ cpu' = cpu
    BY SchedulerInvKept DEF IrqInv, Raise, schedVars
  <1> QED  BY <1>1
           DEF IrqInv, Raise, Typed, AckedOnce, FlagsAreInitial, ProcessUndisturbed

(* With the timer's line in service the 8259 offers nothing.               *)
LEMMA DeliverIrqInv ==
  ASSUME IrqInv, NEW line \in Lines, Deliver(line)
  PROVE  IrqInv'
  <1>1. Inv' /\ cpu' = cpu
    BY SchedulerInvKept DEF IrqInv, Deliver, schedVars
  <1>2. cpu \notin Procs
    <2>1. Timer \in isr => line <= Timer /\ line # Timer
      BY DEF Deliver
    <2>2. Timer \notin isr
      BY <2>1 DEF Lines, Timer, Keyboard
    <2> QED  BY <2>2 DEF IrqInv, ProcessUndisturbed
  <1>3. /\ booted' = booted /\ handler = NoIrq /\ handler' = line
        /\ irr' \subseteq Lines /\ isr' = isr \cup {line} /\ iflag' = FALSE
        /\ saved_if' = saved_if /\ line # NoIrq /\ iflag
    BY NamesDiffer DEF Deliver, Undisturbed, IrqInv, Typed, Lines
  <1>4. booted /\ booted'
    BY <1>3 DEF IrqInv, Deliver
  <1>5. Typed'
    BY <1>3 DEF IrqInv, Typed
  <1>6. AckedOnce'
    <2> SUFFICES ASSUME cpu = Kmain
                 PROVE  isr' = {handler'} \ {NoIrq} /\ (iflag' <=> handler' = NoIrq)
      BY <1>1 DEF AckedOnce
    <2>1. isr = {}
      BY <1>3, <1>4 DEF IrqInv, AckedOnce
    <2> QED  BY <1>3, <2>1
  <1>7. FlagsAreInitial' /\ ProcessUndisturbed'
    BY <1>1, <1>2, <1>3 DEF IrqInv, FlagsAreInitial, ProcessUndisturbed
  <1> QED  BY <1>1, <1>4, <1>5, <1>6, <1>7 DEF IrqInv

LEMMA KeyboardIrqInv ==
  ASSUME IrqInv, idt_keyboard_handler
  PROVE  IrqInv'
  <1>1. Inv' /\ cpu' = cpu
    BY SchedulerInvKept DEF IrqInv, idt_keyboard_handler, schedVars
  <1>2. booted /\ handler = Keyboard /\ handler' = NoIrq /\ iflag' = TRUE
        /\ cpu \notin Procs /\ isr' = Eoi(Eoi(isr))
        /\ UNCHANGED <<booted, irr, saved_if>>
    BY NamesDiffer DEF IrqInv, idt_keyboard_handler, Return, ProcessUndisturbed
  <1>3. isr' \subseteq Lines
    BY <1>2 DEF Eoi, IrqInv, Typed
  <1>4. cpu = Kmain => isr' = {}
    <2> SUFFICES ASSUME cpu = Kmain  PROVE Eoi(Eoi(isr)) = {}
      BY <1>2
    <2>1. isr = {Keyboard}
      BY <1>2, NamesDiffer DEF IrqInv, AckedOnce
    <2> QED  BY <2>1, EoiEnds, NamesDiffer
  <1> QED  BY <1>1, <1>2, <1>3, <1>4
           DEF IrqInv, Typed, AckedOnce, FlagsAreInitial, ProcessUndisturbed

(* Only kmain is interrupted, and a switch leaves the timer in service.    *)
LEMMA TimerIrqInv ==
  ASSUME IrqInv, pit_handler
  PROVE  IrqInv'
  <1>1. Inv' /\ scheduler_tick
    BY InvInductive DEF IrqInv, pit_handler, Next
  <1>2. /\ booted /\ handler = Timer /\ cpu \notin Procs /\ cpu # Halted
        /\ UNCHANGED <<booted, irr>>
    BY NamesDiffer, <1>1 DEF IrqInv, pit_handler, ProcessUndisturbed, scheduler_tick
  <1>3. cpu = Kmain
    BY <1>1, <1>2 DEF IrqInv, Inv, TypeOK
  <1>4. isr = {Timer} /\ \A p \in Procs : saved_if[p]
    BY <1>2, <1>3, NamesDiffer DEF IrqInv, AckedOnce, FlagsAreInitial
  <1>5. CASE LeaveByReturn /\ isr' = Eoi(isr)
    <2>1. /\ cpu' = Kmain /\ isr' = {} /\ handler' = NoIrq /\ iflag' = TRUE
          /\ saved_if' = saved_if
      BY <1>3, <1>4, <1>5, EoiEnds, NamesDiffer DEF LeaveByReturn, Return
    <2> QED  BY <1>1, <1>2, <1>4, <2>1, NamesDiffer
             DEF IrqInv, Typed, AckedOnce, FlagsAreInitial, ProcessUndisturbed
  <1>6. CASE LeaveBySwitch /\ UNCHANGED isr
    <2>1. current_proc' \in Procs /\ cpu' \in {current_proc', Halted}
      BY <1>1, <1>6, TickEnds DEF IrqInv, LeaveBySwitch
    <2>2. /\ iflag' = (cpu' # Halted) /\ handler' = NoIrq
          /\ saved_if' \in [Procs -> BOOLEAN]
      BY <1>4, <1>6, <2>1 DEF LeaveBySwitch, IrqInv, Typed
    <2> QED  BY <1>1, <1>2, <1>4, <1>6, <2>1, <2>2, NamesDiffer
             DEF IrqInv, Typed, AckedOnce, FlagsAreInitial, ProcessUndisturbed
  <1>7. CASE LeaveByFault /\ UNCHANGED isr
    <2>1. cpu' = Halted /\ UNCHANGED <<handler, iflag, saved_if>>
      BY <1>1, <1>7, TickEnds DEF IrqInv, LeaveByFault
    <2> QED  BY <1>1, <1>2, <1>7, <2>1, NamesDiffer
             DEF IrqInv, Typed, AckedOnce, FlagsAreInitial, ProcessUndisturbed
  <1> QED  BY <1>5, <1>6, <1>7 DEF pit_handler

LEMMA FinishIrqInv ==
  ASSUME IrqInv, NEW p \in Procs, Finish(p)
  PROVE  IrqInv'
  <1>1. /\ cpu' = Halted
        /\ UNCHANGED <<proc_list, proc_count, current_proc, proc_state, sched_ticks,
                       handle, kmain, waited, booted, irr, isr, handler, saved_if>>
        /\ iflag' = FALSE
    BY DEF Finish
  <1>2. Inv'
    <2>1. Listed' = Listed
      BY <1>1 DEF Listed
    <2> QED  BY <1>1, <2>1, NamesDiffer
             DEF IrqInv, Inv, TypeOK, NothingYet, RegisterState, SlotsBehind, CurrentListed,
                 OneRunning, ListSound
  <1> QED  BY <1>1, <1>2, NamesDiffer
           DEF IrqInv, Typed, AckedOnce, FlagsAreInitial, ProcessUndisturbed

LEMMA IrqInvInductive ==
  /\ IrqInit => IrqInv
  /\ IrqInv /\ [IrqNext]_vars => IrqInv'
  <1>1. IrqInit => IrqInv
    <2> SUFFICES ASSUME IrqInit  PROVE IrqInv
      OBVIOUS
    <2>1. Inv
      BY InvInductive DEF IrqInit
    <2>2. cpu = Kmain
      BY DEF IrqInit, Init
    <2> QED  BY <2>1, <2>2, NamesDiffer
             DEF IrqInit, IrqInv, Typed, AckedOnce, FlagsAreInitial, ProcessUndisturbed
  <1>2. ASSUME IrqInv, UNCHANGED vars  PROVE IrqInv'
    <2>1. Inv' /\ cpu' = cpu
      BY <1>2, SchedulerInvKept DEF IrqInv, vars, schedVars
    <2> QED  BY <1>2, <2>1
             DEF vars, IrqInv, Typed, AckedOnce, FlagsAreInitial, ProcessUndisturbed
  <1> QED  BY <1>1, <1>2, BootIrqInv, KernelIrqInv, RaiseIrqInv, DeliverIrqInv,
              TimerIrqInv, KeyboardIrqInv, FinishIrqInv
           DEF IrqNext

-----------------------------------------------------------------------------
(* While kmain runs each interrupt is in service from its delivery to the  *)
(* return of its handler, which ends it once, the second EOI of            *)
(* idt_keyboard_handler included.                                          *)
THEOREM InterruptsAckedOnce == IrqSpec => []AckedOnce
  <1>1. IrqInv => AckedOnce  BY DEF IrqInv
  <1> QED  BY <1>1, IrqInvInductive, PTL DEF IrqSpec

(* No process gets the processor with interrupts off, although the flags   *)
(* context_switch saves have IF clear.                                     *)
THEOREM ProcessesStartInterruptible == IrqSpec => []ProcessesInterruptible
  <1>1. IrqInv => ProcessesInterruptible
    BY DEF IrqInv, ProcessUndisturbed, ProcessesInterruptible
  <1> QED  BY <1>1, IrqInvInductive, PTL DEF IrqSpec

(* What the scheduler keeps by itself it keeps when its ticks come from    *)
(* the 8259, with processes that finish.                                   *)
THEOREM SchedulerSoundUnderInterrupts == IrqSpec => [](OneRunning /\ ListSound)
  <1>1. IrqInv => OneRunning /\ ListSound  BY DEF IrqInv, Inv
  <1> QED  BY <1>1, IrqInvInductive, PTL DEF IrqSpec

KeepsProcessor == cpu \in Procs => cpu' \in {cpu, Halted}

(* A process that has the processor keeps it until it halts the machine:   *)
(* pit_handler's EOI comes after a switch that does not return.            *)
THEOREM FirstSwitchIsLast == IrqSpec => [][KeepsProcessor]_vars
  <1>1. IrqInv /\ [IrqNext]_vars => [KeepsProcessor]_vars
    <2> SUFFICES ASSUME IrqInv, IrqNext, cpu \in Procs  PROVE cpu' \in {cpu, Halted}
      BY DEF KeepsProcessor
    <2>1. handler = NoIrq
      BY DEF IrqInv, ProcessUndisturbed
    <2>2. ~Kernel
      BY KmainKeepsProcessor, NamesDiffer DEF Kernel
    <2>3. ~pit_handler /\ ~idt_keyboard_handler
      BY <2>1, NamesDiffer DEF pit_handler, idt_keyboard_handler
    <2> QED  BY <2>2, <2>3 DEF IrqNext, idt_init, Raise, Deliver, Finish, schedVars
  <1> QED  BY <1>1, IrqInvInductive, PTL DEF IrqSpec
=============================================================================
