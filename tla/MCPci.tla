------------------------------- MODULE MCPci -------------------------------
(* Instances of Pci for TLC.  A register has 7 bits, three of address.     *)
EXTENDS Pci, TLC

Device(matches, multi, bars, size) ==
    [matches |-> matches, multi |-> multi, bridge |-> FALSE,
     bars |-> bars, size |-> size]

(* Bridges whose bus numbers look like a 32-bit BAR and like a 64-bit BAR, *)
(* of which the upper half would be a window with a status bit, 64; and one*)
(* with a memory BAR in front of them.                                     *)
Bridges ==
    {[Device({}, FALSE, bars, <<32, 0, 128, 64>>) EXCEPT !.bridge = TRUE] :
        bars \in {<<0, 0, 16, 0>>, <<0, 0, 20, 82>>, <<96, 0, 16, 82>>}}

(* No BARs; I/O, at a port that has the bit of a 64-bit BAR, in front of    *)
(* memory of 32 bytes; 64-bit memory of 16 bytes,                          *)
(* of 2^7, which MMIOSize cannot hold, and of 2^8 bytes.                   *)
Shapes(multi) ==
    {Device({}, multi, <<0, 0>>, <<0, 0>>),
     Device({}, multi, <<37, 96>>, <<4, 32>>),
     Device({}, multi, <<36, 5>>, <<16, 0>>),
     Device({}, multi, <<4, 3>>, <<128, 0>>),
     Device({}, multi, <<12, 6>>, <<256, 0>>)}

Wanted(multi) ==
    {Device(m, multi, <<0, 0>>, <<0, 0>>) :
        m \in {{"PciFindDeviceByID"}, {"PciFindDeviceByClass"}}}

(* What is in a slot: one function, or function 0 and a later one.         *)
SlotContents ==
    {<<f>> : f \in Shapes(FALSE) \cup Wanted(FALSE) \cup Bridges} \cup
    (({Device({}, TRUE, <<0, 0>>, <<0, 0>>)} \cup Wanted(TRUE))
        \X ({Device({}, TRUE, <<4, 3>>, <<128, 0>>)} \cup Wanted(TRUE)))

Plug(l, content) ==
    IF Len(content) = 1
    THEN <<l[1], l[2], 0>> :> content[1]
    ELSE <<l[1], l[2], 0>> :> content[1] @@ <<l[1], l[2], 2>> :> content[2]

(* Up to two slots in use.                                                 *)
SmallMachines ==
    LET Places == (0 .. Buses - 1) \X (0 .. Slots - 1)
        Pairs == {p \in Places \X Places : p[1] # p[2]}
    IN  {Plug(l, c) : l \in Places, c \in SlotContents} \cup
        {Plug(p[1], c) @@ Plug(p[2], d) : p \in Pairs, c, d \in SlotContents}
=============================================================================
