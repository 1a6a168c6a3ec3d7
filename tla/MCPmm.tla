------------------------------- MODULE MCPmm -------------------------------
(* Instances of Pmm for TLC.                                               *)
EXTENDS Pmm

(* The sizes the kernel asks for: nothing, a Procedure, a whole page.      *)
OnePageSizes == {0, 236, 4096}

(* Below the region and just past its end.                                 *)
OutsidePointers == {LargestBase - 8, LargestBase + LargestLength}
=============================================================================
