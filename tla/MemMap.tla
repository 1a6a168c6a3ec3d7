------------------------------- MODULE MemMap -------------------------------
(***************************************************************************)
(* How kmain (init.c) picks the two memory regions it gives to pmm_init:   *)
(* one pass over the bootloader's memory map, one step per entry, then the *)
(* call.  The totals the loop also adds up are only logged.                *)
(***************************************************************************)
EXTENDS Integers

CONSTANTS
    MemoryMaps,    \* the memory maps a bootloader may hand over
    HhdmOffset,    \* where physical memory is mapped, hhdm_request.response
    Stray          \* what a read of entries[-1] may return for a length

ASSUME MemoryMapsAssumption ==
    \A m \in MemoryMaps :
        /\ m \in [DOMAIN m -> [base : Nat, length : Nat, usable : BOOLEAN]]
        /\ 0 \in DOMAIN m /\ DOMAIN m \subseteq Nat
        /\ \A j \in DOMAIN m : 0 .. j \subseteq DOMAIN m
ASSUME HhdmAssumption == HhdmOffset \in Nat \ {0}
ASSUME StrayAssumption == Stray \subseteq Nat

VARIABLES
    entries,                  \* memmap_request.response->entries
    i,                        \* the loop counter
    LargestEntry,             \* -1: none yet
    SecondLargestEntry,
    BaseLargestEntry,
    BaseSecondLargestEntry,
    call                      \* the arguments of pmm_init, once it is called

vars == <<entries, i, LargestEntry, SecondLargestEntry, BaseLargestEntry,
          BaseSecondLargestEntry, call>>

NotCalled == [largest_base |-> 0, largest_length |-> 0,
              second_largest_base |-> 0, second_largest_length |-> 0]

NULL == 0

Index == DOMAIN entries

Init ==
    /\ entries \in MemoryMaps
    /\ i = 0
    /\ LargestEntry = -1
    /\ SecondLargestEntry = -1
    /\ BaseLargestEntry = NULL
    /\ BaseSecondLargestEntry = NULL
    /\ call = NotCalled

(* Mutants of Larger: >= for >, and a comparison with the runner-up.       *)
LargerOrEqual(n) ==
    LargestEntry # -1 =>
        entries[n].length >= entries[LargestEntry].length
LargerThanSecond(n) ==
    SecondLargestEntry # -1 =>
        entries[n].length > entries[SecondLargestEntry].length

Larger(n) ==
    LargestEntry # -1 =>
        entries[n].length > entries[LargestEntry].length

Selected(n) == Larger(n) /\ entries[n].usable

(* Mutant of Promote: the old base is read after it is overwritten.        *)
PromoteSwapped(n) ==
    /\ SecondLargestEntry' = LargestEntry
    /\ LargestEntry' = n
    /\ BaseLargestEntry' = entries[n].base
    /\ BaseSecondLargestEntry' = BaseLargestEntry'

(* The entry becomes the largest, the largest so far the second.           *)
Promote(n) ==
    /\ SecondLargestEntry' = LargestEntry
    /\ LargestEntry' = n
    /\ BaseSecondLargestEntry' = BaseLargestEntry
    /\ BaseLargestEntry' = entries[n].base

Scan ==
    /\ i \in Index
    /\ i' = i + 1
    /\ \/ Selected(i) /\ Promote(i)
       \/ /\ ~Selected(i)
          /\ UNCHANGED <<LargestEntry, SecondLargestEntry, BaseLargestEntry,
                         BaseSecondLargestEntry>>
    /\ UNCHANGED <<entries, call>>

(* entries[e]->length, where e = -1 reads a pointer in front of the array. *)
(* What it points to has some length, or the access faults: a fault's      *)
(* handler does not return, and the behaviour ends in front of the call,   *)
(* as Spec, without fairness, lets it.                                     *)
LengthOf(e) == IF e \in Index THEN {entries[e].length} ELSE Stray

Rebase(base) == base + HhdmOffset

(* The rebasing of both pointers and the call; the guard on call stands    *)
(* for kmain running on to vmm_init.                                       *)
CallPmmInit ==
    /\ i \notin Index /\ call = NotCalled
    /\ BaseLargestEntry' = Rebase(BaseLargestEntry)
    /\ BaseSecondLargestEntry' = Rebase(BaseSecondLargestEntry)
    /\ \E l \in LengthOf(LargestEntry), s \in LengthOf(SecondLargestEntry) :
          call' = [largest_base |-> BaseLargestEntry',
                   largest_length |-> l,
                   second_largest_base |-> BaseSecondLargestEntry',
                   second_largest_length |-> s]
    /\ UNCHANGED <<entries, i, LargestEntry, SecondLargestEntry>>

Next == Scan \/ CallPmmInit

Spec == Init /\ [][Next]_vars

-----------------------------------------------------------------------------
Args == [largest_base : Nat, largest_length : Nat,
         second_largest_base : Nat, second_largest_length : Nat]

TypeOK ==
    /\ entries \in [Index -> [base : Nat, length : Nat, usable : BOOLEAN]]
    /\ i \in Nat
    /\ LargestEntry \in Index \cup {-1}
    /\ SecondLargestEntry \in Index \cup {-1}
    /\ BaseLargestEntry \in Nat
    /\ BaseSecondLargestEntry \in Nat
    /\ call \in Args

(* e is the first longest usable entry among the first n, -1 if none is.   *)
IsLargestOf(e, n) ==
    IF e = -1
    THEN \A j \in Index : j < n => ~entries[j].usable
    ELSE /\ e \in Index /\ e < n /\ entries[e].usable
         /\ \A j \in Index : j < n /\ entries[j].usable =>
               /\ entries[j].length <= entries[e].length
               /\ j < e => entries[j].length < entries[e].length

(* After every entry the loop holds the longest usable region seen so far: *)
(* reserved entries, ties and the -1 start never lead it astray.           *)
LargestIsLargest == IsLargestOf(LargestEntry, i)

(* What the loop really keeps as the second: the longest usable region in  *)
(* front of the largest one, whatever lies behind it.                      *)
SecondIsLargestBefore ==
    IF LargestEntry = -1 THEN SecondLargestEntry = -1
                         ELSE IsLargestOf(SecondLargestEntry, LargestEntry)

(* pmm_init gets the base and the length of one and the same usable entry  *)
(* for each region, though bases and indices are tracked apart.            *)
Describes(e, base, length) ==
    e \in Index => /\ entries[e].usable
                   /\ base = entries[e].base + HhdmOffset
                   /\ length = entries[e].length

ArgsDescribeEntries ==
    call # NotCalled =>
        /\ Describes(LargestEntry, call.largest_base, call.largest_length)
        /\ Describes(SecondLargestEntry, call.second_largest_base,
                     call.second_largest_length)
=============================================================================
