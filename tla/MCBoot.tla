------------------------------- MODULE MCBoot -------------------------------
(* Every memory map of up to four adjacent regions.  A page has two bytes: *)
(* the lengths are less than one page, one page, those that fill one byte  *)
(* of the bitmap, and 17 pages, for which a region of a page is too short. *)
EXTENDS Boot

Lengths == {1, 2, 16, 34}

Start(l, n) ==
    LET start[j \in 0 .. n] == IF j = 0 THEN 0 ELSE start[j - 1] + l[j - 1]
    IN  start

SmallMaps == UNION {
    {[j \in 0 .. n - 1 |-> [base |-> Start(l, n)[j], length |-> l[j], usable |-> u[j]]] :
        l \in [0 .. n - 1 -> Lengths], u \in [0 .. n - 1 -> BOOLEAN]} :
    n \in 1 .. 4}
=============================================================================
