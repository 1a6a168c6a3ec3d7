----------------------------- MODULE MCLibrary -----------------------------
(* The serial log and the string functions for TLC.  They share no state:  *)
(* a behaviour runs one of them.                                           *)
EXTENDS Serial, Strings

VARIABLE part

libraryVars == <<part, serialVars, stringVars>>

LibraryInit ==
    /\ SerialInit
    /\ StringsInit
    /\ \/ part = "serial" /\ mem = [a \in Cells |-> 0]
       \/ part = "strings"

LibraryNext ==
    /\ \/ part = "serial" /\ SerialNext /\ UNCHANGED stringVars
       \/ part = "strings" /\ StringsNext /\ UNCHANGED serialVars
    /\ UNCHANGED part

LibrarySpec == LibraryInit /\ [][LibraryNext]_libraryVars

(* Formats of the kind the kernel uses, and one per directive; those that  *)
(* end inside a directive or hold one the switch has no case for are last. *)
KernelFormats ==
    {<<<<"a">>>>,
     <<<<"%", "d">>, <<"a">>>>,
     <<<<"%", "p">>, <<"a">>, <<"%", "l", "l", "u">>>>,
     <<<<"%", "l", "l", "u">>, <<"%", "u">>>>,
     <<<<"%", "s">>, <<"%", "i">>>>,
     <<<<"%", "x">>, <<"%", "o">>>>,
     <<<<"%", "c">>, <<"%", "%">>, <<"%", "l", "l", "d">>>>,
     <<<<"%", "d">>, <<"%", "d">>>>,
     <<<<"a">>, <<"%", "0">>, <<"1">>, <<"6">>, <<"X">>, <<"a">>>>,
     <<<<"%", "u">>, <<"%", "c">>, <<"%", "d">>>>,
     <<<<"a">>, <<"%", "l", "d">>>>,
     <<<<"%", "l", "l", "x">>>>,
     <<<<"%">>>>, <<<<"%", "l">>>>, <<<<"a">>, <<"%", "l", "l">>>>}

SmallInts == {-12, -5, 0, 1, 2, 300, 12345}
SmallWords == {0, 9, 15, 16, 64, 255}
=============================================================================
