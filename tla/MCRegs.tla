------------------------------- MODULE MCRegs -------------------------------
(* The hand-written assembly for TLC: the two blocks of context_switch and *)
(* the stubs of the exceptions.  A behaviour runs one of the two.          *)
EXTENDS RegSwitch, Exceptions

VARIABLE part

asmVars == <<part, vars, excVars>>

AsmInit ==
    /\ Init /\ ExcInit
    /\ \/ part = "switch"
       \/ part = "exception" /\ save_base = "rax" /\ restore_base = "rax"
                             /\ used = {} /\ at.block = "skip"

AsmNext ==
    /\ \/ part = "switch" /\ Next /\ UNCHANGED excVars
       \/ part = "exception" /\ ExcNext /\ UNCHANGED vars
    /\ UNCHANGED part

AsmSpec == AsmInit /\ [][AsmNext]_asmVars
=============================================================================
