------------------------------- MODULE MCVmm -------------------------------
(* An instance of Vmm for TLC.                                             *)
EXTENDS Vmm

BootTables == <<21, 22, 23, 24, 25>>

(* Page 0, one that shares two levels with it, the kernel's page, one that *)
(* needs a page table next to the kernel's, and one of the direct map.     *)
SomeAddresses == {<<0, 0, 0, 0>>, <<0, 0, 1, 0>>, <<1, 1, 0, 1>>, <<1, 1, 1, 1>>,
                  <<1, 0, 0, 1>>}
=============================================================================
