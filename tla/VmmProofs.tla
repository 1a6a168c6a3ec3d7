------------------------------ MODULE VmmProofs ------------------------------
(***************************************************************************)
(* What TLAPS proves of Vmm, for any frames, addresses and targets: the    *)
(* tables are a tree of pages of their own, and a call changes at most the *)
(* translation of its own address.                                         *)
(*                                                                         *)
(* A node of the tree is a level and the indices that lead to it, with     *)
(* zeros behind them.                                                      *)
(***************************************************************************)
EXTENDS Vmm, TLAPS, WellFoundedInduction

Node == ({0} \X {0} \X {0} \X {0}) \cup ({1} \X Index \X {0} \X {0})
           \cup ({2} \X Index \X Index \X {0}) \cup ({3} \X Index \X Index \X Index)
Root == <<0, 0, 0, 0>>
DataNode == <<3, 1, 0, 0>>

Up(p) == CASE p[1] = 1 -> Root
           [] p[1] = 2 -> <<1, p[2], 0, 0>>
           [] p[1] = 3 -> <<2, p[2], p[3], 0>>
Last(p) == CASE p[1] = 1 -> p[2]
             [] p[1] = 2 -> p[3]
             [] p[1] = 3 -> p[4]
Down(q, i) == CASE q[1] = 0 -> <<1, i, 0, 0>>
                [] q[1] = 1 -> <<2, q[2], i, 0>>
                [] q[1] = 2 -> <<3, q[2], q[3], i>>

(* The entry of a table, and the table at a node, under given contents.    *)
Entry(tbl, f, i) == IF f \in Frames THEN tbl[f][i] ELSE Absent
Reached(tbl, root, p) ==
    CASE p[1] = 0 -> root
      [] p[1] = 1 -> Entry(tbl, root, p[2])
      [] p[1] = 2 -> Entry(tbl, Entry(tbl, root, p[2]), p[3])
      [] p[1] = 3 -> Entry(tbl, Entry(tbl, Entry(tbl, root, p[2]), p[3]), p[4])

Contents == [Frames -> [Index -> Int]]

Tree(tbl, taken, root) ==
    /\ tbl \in Contents
    /\ taken \subseteq Pool
    /\ root \in taken \cup BootFrames
    /\ \A p \in Node : \/ Reached(tbl, root, p) \in taken \cup BootFrames \cup {Absent}
                       \/ Reached(tbl, root, p) = Data /\ p = DataNode
    /\ \A p, q \in Node :
          p # q /\ Reached(tbl, root, p) # Absent
             => Reached(tbl, root, p) # Reached(tbl, root, q)

(* The page table of an address, and what Walk makes of the address.       *)
Leaf(va) == <<3, va[1], va[2], va[3]>>
Translation(tbl, root, va) ==
    IF Large(va) THEN Data + va[4] ELSE Entry(tbl, Reached(tbl, root, Leaf(va)), va[4])

Inv ==
    /\ Tree(tables, out, cr3)
    /\ PML4 = NULL \/ PML4 = cr3
    /\ tlb \in [Addresses -> Int]
    /\ \A va \in Addresses : Large(va) => tlb[va] \in {Absent, Data + va[4]}

-----------------------------------------------------------------------------
LEMMA FramesAre ==
  /\ Pool \subseteq Nat /\ BootFrames \subseteq Nat /\ Data \in Nat
  /\ Pool \cap BootFrames = {} /\ Data \notin Pool \cup BootFrames
  /\ Absent \notin Frames
  /\ Frames \subseteq Nat
  BY VmmAssumption DEF Frames, Absent

LEMMA NodeCases ==
  ASSUME NEW p \in Node
  PROVE  /\ p[1] \in 0 .. 3
         /\ p[1] = 0 => p = Root
         /\ p[1] = 1 => p[2] \in Index /\ p = <<1, p[2], 0, 0>>
         /\ p[1] = 2 => p[2] \in Index /\ p[3] \in Index /\ p = <<2, p[2], p[3], 0>>
         /\ p[1] = 3 => /\ p[2] \in Index /\ p[3] \in Index /\ p[4] \in Index
                        /\ p = <<3, p[2], p[3], p[4]>>
  BY DEF Node, Root

LEMMA NodeIs ==
  ASSUME NEW i \in Index, NEW j \in Index, NEW k \in Index
  PROVE  {Root, <<1, i, 0, 0>>, <<2, i, j, 0>>, <<3, i, j, k>>} \subseteq Node
  BY DEF Node, Root

LEMMA UpDown ==
  ASSUME NEW p \in Node, p[1] > 0
  PROVE  /\ Up(p) \in Node /\ Up(p)[1] = p[1] - 1
         /\ Last(p) \in Index
         /\ p = Down(Up(p), Last(p))
  <1>1. CASE p[1] = 1
    BY <1>1, NodeCases DEF Up, Last, Down, Node, Root
  <1>2. CASE p[1] = 2
    BY <1>2, NodeCases DEF Up, Last, Down, Node
  <1>3. CASE p[1] = 3
    BY <1>3, NodeCases DEF Up, Last, Down, Node
  <1> QED BY <1>1, <1>2, <1>3, NodeCases

LEMMA DownUp ==
  ASSUME NEW q \in Node, q[1] < 3, NEW i \in Index
  PROVE  /\ Down(q, i) \in Node /\ Down(q, i)[1] = q[1] + 1
         /\ Up(Down(q, i)) = q /\ Last(Down(q, i)) = i
  <1>1. CASE q[1] = 0
    BY <1>1, NodeCases DEF Up, Last, Down, Node, Root
  <1>2. CASE q[1] = 1
    BY <1>2, NodeCases DEF Up, Last, Down, Node
  <1>3. CASE q[1] = 2
    BY <1>3, NodeCases DEF Up, Last, Down, Node
  <1> QED BY <1>1, <1>2, <1>3, NodeCases

LEMMA ReachedUp ==
  ASSUME NEW tbl, NEW root, NEW p \in Node
  PROVE  /\ p[1] = 0 => Reached(tbl, root, p) = root
         /\ p[1] > 0 => Reached(tbl, root, p) = Entry(tbl, Reached(tbl, root, Up(p)), Last(p))
  <1>0. CASE p[1] = 0
    BY <1>0 DEF Reached
  <1>1. CASE p[1] = 1
    BY <1>1 DEF Reached, Up, Last, Root
  <1>2. CASE p[1] = 2
    BY <1>2 DEF Reached, Up, Last
  <1>3. CASE p[1] = 3
    BY <1>3 DEF Reached, Up, Last
  <1> QED BY <1>0, <1>1, <1>2, <1>3, NodeCases

LEMMA TreeFacts ==
  ASSUME NEW tbl, NEW taken, NEW root, Tree(tbl, taken, root), NEW p \in Node
  PROVE  /\ Reached(tbl, root, p) \in Frames \cup {Absent}
         /\ Reached(tbl, root, p) = Data => p = DataNode
         /\ p[1] < 3 => Reached(tbl, root, p) # Data
         /\ taken \cup BootFrames \subseteq Frames
  <1>1. \/ Reached(tbl, root, p) \in taken \cup BootFrames \cup {Absent}
        \/ Reached(tbl, root, p) = Data /\ p = DataNode
    BY DEF Tree
  <1>2. taken \cup BootFrames \subseteq Frames /\ Data \in Frames
    BY DEF Tree, Frames
  <1>3. Data \notin taken \cup BootFrames \cup {Absent}
    BY FramesAre DEF Tree, Absent
  <1>4. DataNode[1] = 3
    BY DEF DataNode
  <1> QED BY <1>1, <1>2, <1>3, <1>4

-----------------------------------------------------------------------------
(* Entries of page tables are not part of the tree.                        *)
SameAbove(tbl, tbl2, root) ==
    \A q \in Node : q[1] < 3 /\ Reached(tbl, root, q) \in Frames =>
        tbl2[Reached(tbl, root, q)] = tbl[Reached(tbl, root, q)]

LEMMA SameTree ==
  ASSUME NEW tbl, NEW tbl2, NEW root, SameAbove(tbl, tbl2, root)
  PROVE  \A p \in Node : Reached(tbl2, root, p) = Reached(tbl, root, p)
  <1> DEFINE Same(n) == \A p \in Node : p[1] = n => Reached(tbl2, root, p) = Reached(tbl, root, p)
  <1>1. Same(0)
    BY ReachedUp
  <1>2. ASSUME NEW n \in 0 .. 2, Same(n) PROVE Same(n + 1)
    <2> SUFFICES ASSUME NEW p \in Node, p[1] = n + 1
                 PROVE  Reached(tbl2, root, p) = Reached(tbl, root, p)
      OBVIOUS
    <2>1. Up(p) \in Node /\ Up(p)[1] = n
      BY UpDown
    <2>2. Reached(tbl2, root, Up(p)) = Reached(tbl, root, Up(p))
      BY <1>2, <2>1
    <2> QED BY <2>1, <2>2, ReachedUp DEF Entry, SameAbove
  <1> HIDE DEF Same
  <1>3. Same(1) /\ Same(2) /\ Same(3)
    BY <1>1, <1>2
  <1> QED BY <1>1, <1>3, NodeCases DEF Same

(* A new table, cleared, and linked from an entry that was absent.         *)
Linked(tbl, tbl2, at, i, f) ==
    tbl2 = [tbl EXCEPT ![f] = [j \in Index |-> Absent], ![at][i] = f]

SameData(tbl, tbl2) == tbl2[Data] = tbl[Data]

LEMMA Link ==
  ASSUME NEW tbl, NEW taken, NEW root, Tree(tbl, taken, root),
         NEW q \in Node, q[1] < 3, NEW i \in Index, NEW at \in Frames,
         at = Reached(tbl, root, q), Entry(tbl, at, i) = Absent,
         NEW f \in Pool \ taken, NEW tbl2, Linked(tbl, tbl2, at, i, f)
  PROVE  /\ Reached(tbl2, root, Down(q, i)) = f
         /\ Tree(tbl2, taken \cup {f}, root)
         /\ \A va \in AllAddresses :
               Translation(tbl2, root, va) = Translation(tbl, root, va)
         /\ SameData(tbl, tbl2)
  <1>0. tbl[at][i] = Absent
    BY DEF Entry
  <1>1. /\ f \in Frames /\ f # Data /\ f # Absent
        /\ f \notin taken \cup BootFrames
        /\ at # f
    BY FramesAre DEF Frames, Tree, Absent
  <1>2. at # Data
    BY TreeFacts
  <1>3. /\ tbl2 \in Contents
        /\ tbl2[f] = [j \in Index |-> Absent]
        /\ tbl2[at] = [tbl[at] EXCEPT ![i] = f]
        /\ \A g \in Frames \ {f, at} : tbl2[g] = tbl[g]
    BY <1>1, FramesAre DEF Tree, Contents, Absent, Linked
  <1>4. \A p \in Node : Reached(tbl, root, p) # f
    BY <1>1 DEF Tree
  <1>5. \A p \in Node : Reached(tbl, root, p) = at => p = q
    BY FramesAre DEF Tree
  <1>6. Reached(tbl, root, Down(q, i)) = Absent
    <2>1. Reached(tbl, root, Down(q, i)) = Entry(tbl, Reached(tbl, root, q), i)
      <3>1. Down(q, i) \in Node /\ Down(q, i)[1] > 0
        BY DownUp, NodeCases
      <3> QED BY <3>1, DownUp, ReachedUp
    <2> QED BY <1>0, <2>1 DEF Entry
  <1>7. \A p \in Node : p[1] > 0 /\ Up(p) = Down(q, i) => Reached(tbl, root, p) = Absent
    BY <1>6, ReachedUp, FramesAre DEF Entry
  <1> DEFINE As(p) == Reached(tbl2, root, p) = IF p = Down(q, i) THEN f ELSE Reached(tbl, root, p)
             Level(n) == \A p \in Node : p[1] = n => As(p)
  <1>8. Level(0)
    <2> SUFFICES ASSUME NEW p \in Node, p[1] = 0 PROVE As(p)
      OBVIOUS
    <2>1. Reached(tbl2, root, p) = root /\ Reached(tbl, root, p) = root
      BY ReachedUp
    <2>2. p # Down(q, i)
      BY DownUp, NodeCases
    <2> QED BY <2>1, <2>2
  <1>9. ASSUME NEW n \in 0 .. 2, Level(n) PROVE Level(n + 1)
    <2> SUFFICES ASSUME NEW p \in Node, p[1] = n + 1 PROVE As(p)
      OBVIOUS
    <2>1. /\ Up(p) \in Node /\ Up(p)[1] = n /\ Last(p) \in Index
          /\ p = Down(Up(p), Last(p))
          /\ Reached(tbl2, root, p) = Entry(tbl2, Reached(tbl2, root, Up(p)), Last(p))
          /\ Reached(tbl, root, p) = Entry(tbl, Reached(tbl, root, Up(p)), Last(p))
      BY UpDown, ReachedUp
    <2>2. As(Up(p))
      BY <1>9, <2>1
    <2>3. CASE Up(p) = Down(q, i)
      <3>1. p # Down(q, i)
        BY <2>1, <2>3
      <3>2. Reached(tbl2, root, p) = Absent
        BY <1>1, <1>3, <2>1, <2>2, <2>3 DEF Entry
      <3> QED BY <1>7, <2>1, <2>3, <3>1, <3>2
    <2>4. CASE Up(p) = q
      <3>1. Reached(tbl2, root, q) = at
        <4>1. q # Down(q, i)
          BY DownUp, NodeCases
        <4> QED BY <2>2, <2>4, <4>1
      <3>2. Reached(tbl2, root, p) = IF Last(p) = i THEN f ELSE tbl[at][Last(p)]
        BY <1>3, <2>1, <2>4, <3>1 DEF Entry, Tree, Contents
      <3>3. p = Down(q, i) <=> Last(p) = i
        BY <2>1, <2>4, DownUp
      <3> QED BY <2>1, <2>4, <3>2, <3>3 DEF Entry
    <2>5. CASE Up(p) # q /\ Up(p) # Down(q, i)
      <3>1. Reached(tbl2, root, Up(p)) = Reached(tbl, root, Up(p))
        BY <2>2, <2>5
      <3>2. Reached(tbl, root, Up(p)) \notin {at, f}
        BY <1>4, <1>5, <2>1, <2>5
      <3>3. p # Down(q, i)
        BY <2>5, DownUp
      <3> QED BY <1>3, <2>1, <3>1, <3>2, <3>3 DEF Entry
    <2> QED BY <2>3, <2>4, <2>5
  <1> HIDE DEF Level, As
  <1>10. Level(1) /\ Level(2) /\ Level(3)
    BY <1>8, <1>9
  <1>11. \A p \in Node : As(p)
    <2> TAKE p \in Node
    <2>1. p[1] \in 0 .. 3
      BY NodeCases
    <2> QED BY <1>8, <1>10, <2>1 DEF Level
  <1> USE DEF As
  <1>12. Tree(tbl2, taken \cup {f}, root)
    <2>1. /\ tbl2 \in Contents
          /\ taken \cup {f} \subseteq Pool
          /\ root \in taken \cup {f} \cup BootFrames
      BY <1>3 DEF Tree
    <2>2. \A p \in Node :
             \/ Reached(tbl2, root, p) \in taken \cup {f} \cup BootFrames \cup {Absent}
             \/ Reached(tbl2, root, p) = Data /\ p = DataNode
      BY <1>11 DEF Tree
    <2>3. \A p, r \in Node :
             p # r /\ Reached(tbl2, root, p) # Absent
                => Reached(tbl2, root, p) # Reached(tbl2, root, r)
      <3> SUFFICES ASSUME NEW p \in Node, NEW r \in Node, p # r,
                          Reached(tbl2, root, p) # Absent
                   PROVE  Reached(tbl2, root, p) # Reached(tbl2, root, r)
        OBVIOUS
      <3>1. CASE p = Down(q, i)
        BY <1>4, <1>11, <3>1
      <3>2. CASE r = Down(q, i)
        BY <1>4, <1>11, <3>2
      <3>3. CASE p # Down(q, i) /\ r # Down(q, i)
        <4>1. /\ Reached(tbl2, root, p) = Reached(tbl, root, p)
              /\ Reached(tbl2, root, r) = Reached(tbl, root, r)
          BY <1>11, <3>3
        <4> QED BY <4>1 DEF Tree
      <3> QED BY <3>1, <3>2, <3>3
    <2> QED BY <2>1, <2>2, <2>3 DEF Tree
  <1>13. ASSUME NEW va \in AllAddresses
         PROVE  Translation(tbl2, root, va) = Translation(tbl, root, va)
    <2>1. Leaf(va) \in Node /\ Leaf(va)[1] = 3 /\ va[4] \in Index
      BY NodeIs DEF AllAddresses, Leaf
    <2>2. CASE Leaf(va) = Down(q, i)
      <3>1. Entry(tbl2, Reached(tbl2, root, Leaf(va)), va[4]) = Absent
        <4>1. Reached(tbl2, root, Leaf(va)) = f
          BY <1>11, <2>1, <2>2
        <4>2. tbl2[f][va[4]] = Absent
          BY <1>3, <2>1
        <4> QED BY <1>1, <4>1, <4>2 DEF Entry
      <3>2. Entry(tbl, Reached(tbl, root, Leaf(va)), va[4]) = Absent
        BY <1>6, <2>2, FramesAre DEF Entry
      <3> QED BY <3>1, <3>2 DEF Translation
    <2>3. CASE Leaf(va) # Down(q, i)
      <3>1. Reached(tbl2, root, Leaf(va)) = Reached(tbl, root, Leaf(va))
        BY <1>11, <2>1, <2>3
      <3>2. Reached(tbl, root, Leaf(va)) \notin {at, f}
        <4>1. Leaf(va) # q
          BY <2>1
        <4> QED BY <1>4, <1>5, <2>1, <4>1
      <3>3. Entry(tbl2, Reached(tbl2, root, Leaf(va)), va[4])
               = Entry(tbl, Reached(tbl, root, Leaf(va)), va[4])
        <4> DEFINE g == Reached(tbl, root, Leaf(va))
        <4>1. g \in Frames => tbl2[g] = tbl[g]
          BY <1>3, <3>2
        <4> HIDE DEF g
        <4>2. Entry(tbl2, g, va[4]) = Entry(tbl, g, va[4])
          BY <4>1 DEF Entry
        <4> QED BY <3>1, <4>2 DEF g
      <3> QED BY <3>3 DEF Translation
    <2> QED BY <2>2, <2>3
  <1>14. tbl2[Data] = tbl[Data]
    BY <1>1, <1>2, <1>3 DEF Frames
  <1>15. Reached(tbl2, root, Down(q, i)) = f
    BY <1>11, DownUp
  <1> QED BY <1>12, <1>13, <1>14, <1>15 DEF SameData

(* An entry of a page table is written: the tree stays, and of the         *)
(* translations at most one changes.                                       *)
Written(tbl, tbl2, pt, i, v) == tbl2 = [tbl EXCEPT ![pt][i] = v]

LEMMA Write ==
  ASSUME NEW tbl, NEW taken, NEW root, Tree(tbl, taken, root),
         NEW va \in AllAddresses, NEW pt \in Frames,
         pt = Reached(tbl, root, Leaf(va)), NEW v \in Int, NEW tbl2,
         Written(tbl, tbl2, pt, va[4], v)
  PROVE  /\ Tree(tbl2, taken, root)
         /\ \A ua \in AllAddresses \ {va} :
               Translation(tbl2, root, ua) = Translation(tbl, root, ua)
         /\ ~Large(va) => Translation(tbl2, root, va) = v
         /\ ~Large(va) => SameData(tbl, tbl2)
  <1>1. /\ Leaf(va) \in Node /\ Leaf(va)[1] = 3 /\ va[4] \in Index
        /\ Leaf(va) = DataNode <=> Large(va)
    BY NodeIs DEF AllAddresses, Leaf, Large, DataNode
  <1>2. /\ tbl2 \in Contents
        /\ tbl2[pt] = [tbl[pt] EXCEPT ![va[4]] = v]
        /\ \A g \in Frames \ {pt} : tbl2[g] = tbl[g]
        /\ tbl[pt] \in [Index -> Int]
    BY <1>1 DEF Tree, Contents, Written
  <1>3. \A p \in Node : Reached(tbl, root, p) = pt => p = Leaf(va)
    BY <1>1, FramesAre DEF Tree
  <1>4. \A p \in Node : Reached(tbl2, root, p) = Reached(tbl, root, p)
    <2>1. ASSUME NEW q \in Node, q[1] < 3, Reached(tbl, root, q) \in Frames
          PROVE  tbl2[Reached(tbl, root, q)] = tbl[Reached(tbl, root, q)]
      <3>1. q # Leaf(va)
        BY <1>1, <2>1
      <3> QED BY <1>2, <1>3, <2>1, <3>1
    <2>2. SameAbove(tbl, tbl2, root)
      BY <2>1 DEF SameAbove
    <2> QED BY <2>2, SameTree
  <1>5. Tree(tbl2, taken, root)
    BY <1>2, <1>4 DEF Tree
  <1>6. ASSUME NEW ua \in AllAddresses, ua # va
        PROVE  Translation(tbl2, root, ua) = Translation(tbl, root, ua)
    <2>1. /\ Leaf(ua) \in Node /\ ua[4] \in Index
          /\ Leaf(ua) # Leaf(va) \/ ua[4] # va[4]
      <3>1. /\ ua[1] \in Index /\ ua[2] \in Index /\ ua[3] \in Index /\ ua[4] \in Index
            /\ ua = <<ua[1], ua[2], ua[3], ua[4]>>
            /\ va = <<va[1], va[2], va[3], va[4]>>
        BY DEF AllAddresses
      <3>2. ua[1] # va[1] \/ ua[2] # va[2] \/ ua[3] # va[3] \/ ua[4] # va[4]
        BY <1>6, <3>1
      <3> QED BY <3>1, <3>2, NodeIs DEF Leaf
    <2> DEFINE g == Reached(tbl, root, Leaf(ua))
    <2>2. g \in Frames => tbl2[g][ua[4]] = tbl[g][ua[4]]
      <3>1. CASE g = pt
        <4>1. ua[4] # va[4]
          BY <1>3, <2>1, <3>1
        <4> QED BY <1>2, <2>1, <3>1, <4>1
      <3>2. CASE g # pt
        BY <1>2, <3>2
      <3> QED BY <3>1, <3>2
    <2>3. Reached(tbl2, root, Leaf(ua)) = g
      BY <1>4, <2>1
    <2> HIDE DEF g
    <2>4. Entry(tbl2, g, ua[4]) = Entry(tbl, g, ua[4])
      BY <2>2 DEF Entry
    <2>5. Entry(tbl2, Reached(tbl2, root, Leaf(ua)), ua[4])
             = Entry(tbl, Reached(tbl, root, Leaf(ua)), ua[4])
      BY <2>3, <2>4 DEF g
    <2> QED BY <2>5 DEF Translation
  <1>7. ASSUME ~Large(va) PROVE Translation(tbl2, root, va) = v
    <2>1. Reached(tbl2, root, Leaf(va)) = pt
      BY <1>1, <1>4
    <2>2. tbl2[pt][va[4]] = v
      BY <1>1, <1>2
    <2> QED BY <1>7, <2>1, <2>2 DEF Translation, Entry
  <1>8. ASSUME ~Large(va) PROVE tbl2[Data] = tbl[Data]
    <2>1. pt # Data
      BY <1>1, <1>8, TreeFacts
    <2> QED BY <1>2, <2>1 DEF Frames
  <1> QED BY <1>5, <1>6, <1>7, <1>8 DEF SameData

-----------------------------------------------------------------------------
(* palloc's page is one that is free.                                      *)
LEMMA FirstIs ==
  ASSUME NEW taken, Free(taken) # {}
  PROVE  First(Free(taken)) \in Pool \ taken
  <1> DEFINE set == Free(taken)
  <1>1. set \subseteq Nat /\ set # {}
    BY FramesAre DEF Free
  <1> HIDE DEF set
  <1>2. \E f \in set : \A g \in set : ~(<<g, f>> \in OpToRel(<, Nat))
    BY <1>1, NatLessThanWellFounded, WFMin
  <1>3. \A f \in Nat, g \in Nat : <<g, f>> \in OpToRel(<, Nat) <=> g < f
    BY DEF OpToRel
  <1>4. \A f \in set, g \in set : ~(g < f) => f <= g
    BY <1>1
  <1>5. \E f \in set : \A g \in set : f <= g
    BY <1>1, <1>2, <1>3, <1>4
  <1>6. First(set) \in set
    BY <1>5 DEF First
  <1> QED BY <1>6 DEF set, Free

(* The tables of a walk on its way down, at node q.                        *)
WalkSound(w, q) ==
    /\ w \in [tables : Contents, out : SUBSET Pool, at : Int, ok : BOOLEAN]
    /\ Tree(w.tables, w.out, PML4)
    /\ w.ok => w.at = Reached(w.tables, PML4, q) /\ w.at # Absent
    /\ \A va \in AllAddresses :
          Translation(w.tables, PML4, va) = Translation(tables, PML4, va)
    /\ w.tables[Data] = tables[Data]

LEMMA DescendSound ==
  ASSUME NEW w, NEW q \in Node, q[1] < 3, NEW i \in Index, WalkSound(w, q)
  PROVE  WalkSound(Descend(w, i), Down(q, i))
  <1> DEFINE u == Descend(w, i)
  <1>1. CASE ~w.ok
    <2>1. u = w
      BY <1>1 DEF Descend
    <2> QED BY <1>1, <2>1 DEF WalkSound
  <1>2. CASE w.ok
    <2>1. /\ w.at \in Frames /\ w.at = Reached(w.tables, PML4, q)
          /\ w.tables \in Contents
      BY <1>2, TreeFacts DEF WalkSound
    <2>2. Reached(w.tables, PML4, Down(q, i)) = w.tables[w.at][i]
      <3>1. Down(q, i) \in Node /\ Down(q, i)[1] > 0
        BY DownUp, NodeCases
      <3>2. Reached(w.tables, PML4, Down(q, i)) = Entry(w.tables, w.at, i)
        BY <2>1, <3>1, DownUp, ReachedUp
      <3> QED BY <2>1, <3>2 DEF Entry
    <2>3. CASE w.tables[w.at][i] # Absent
      <3>1. u = [w EXCEPT !.at = w.tables[w.at][i]]
        BY <1>2, <2>3 DEF Descend
      <3>2. w.tables[w.at][i] \in Int
        BY <2>1 DEF Contents
      <3>3. /\ u.tables = w.tables /\ u.out = w.out /\ u.ok = w.ok
            /\ u.at = w.tables[w.at][i]
            /\ u \in [tables : Contents, out : SUBSET Pool, at : Int, ok : BOOLEAN]
        BY <3>1, <3>2 DEF WalkSound
      <3> HIDE DEF u
      <3>4. WalkSound(u, Down(q, i))
        BY <2>2, <2>3, <3>3 DEF WalkSound
      <3> QED BY <3>4 DEF u
    <2>4. CASE w.tables[w.at][i] = Absent /\ Free(w.out) = {}
      <3>1. u = [w EXCEPT !.ok = FALSE]
        BY <1>2, <2>4 DEF Descend
      <3>2. /\ u.tables = w.tables /\ u.out = w.out /\ u.ok = FALSE
            /\ u \in [tables : Contents, out : SUBSET Pool, at : Int, ok : BOOLEAN]
        BY <3>1 DEF WalkSound
      <3> HIDE DEF u
      <3>3. WalkSound(u, Down(q, i))
        BY <3>2 DEF WalkSound
      <3> QED BY <3>3 DEF u
    <2>5. CASE w.tables[w.at][i] = Absent /\ Free(w.out) # {}
      <3> DEFINE f == First(Free(w.out))
                 new == NewTable(w, i, f)
      <3>1. u = [tables |-> new, out |-> w.out \cup {f}, at |-> f, ok |-> TRUE]
        BY <1>2, <2>5 DEF Descend
      <3>2. f \in Pool \ w.out
        BY <2>5, FirstIs
      <3>3. Linked(w.tables, new, w.at, i, f)
        BY DEF NewTable, Linked
      <3> HIDE DEF f, new
      <3>4. Tree(w.tables, w.out, PML4)
        BY DEF WalkSound
      <3>5. /\ Reached(new, PML4, Down(q, i)) = f
            /\ Tree(new, w.out \cup {f}, PML4)
            /\ \A va \in AllAddresses :
                  Translation(new, PML4, va) = Translation(w.tables, PML4, va)
            /\ SameData(w.tables, new)
        <4> DEFINE before == w.tables
                   here == w.at
                   used == w.out
        <4>1. /\ Tree(before, used, PML4)
              /\ here \in Frames /\ here = Reached(before, PML4, q)
              /\ Entry(before, here, i) = Absent
              /\ f \in Pool \ used
              /\ Linked(before, new, here, i, f)
          BY <2>1, <2>5, <3>2, <3>3, <3>4 DEF Entry
        <4> HIDE DEF before, here, used
        <4>2. /\ Reached(new, PML4, Down(q, i)) = f
              /\ Tree(new, used \cup {f}, PML4)
              /\ \A va \in AllAddresses :
                    Translation(new, PML4, va) = Translation(before, PML4, va)
              /\ SameData(before, new)
          BY <4>1, Link
        <4> QED BY <4>2 DEF before, used
      <3>7. /\ u.tables = new /\ u.out = w.out \cup {f} /\ u.at = f /\ u.ok = TRUE
            /\ f \in Int /\ f # Absent
        <4>1. f \in Int /\ f # Absent
          BY <3>2, FramesAre DEF Absent
        <4> QED BY <3>1, <4>1
      <3>8. u \in [tables : Contents, out : SUBSET Pool, at : Int, ok : BOOLEAN]
        BY <3>1, <3>5, <3>7 DEF Tree
      <3> HIDE DEF u
      <3>9. WalkSound(u, Down(q, i))
        BY <3>5, <3>7, <3>8 DEF WalkSound, SameData
      <3> QED BY <3>9 DEF u
    <2> QED BY <2>3, <2>4, <2>5
  <1> QED BY <1>1, <1>2 DEF WalkSound

(* The three levels of mmap's walk.                                        *)
LEMMA WalkDown ==
  ASSUME Inv, PML4 # NULL, NEW va \in AllAddresses
  PROVE  WalkSound(TablesFor(va), Leaf(va))
  <1> DEFINE top == [tables |-> tables, out |-> out, at |-> PML4, ok |-> TRUE]
             a == Descend(top, va[1])
             b == Descend(a, va[2])
             c == Descend(b, va[3])
  <1>1. /\ PML4 \in Int /\ PML4 # Absent
        /\ Tree(tables, out, PML4)
    BY FramesAre DEF Inv, NULL, Absent, Tree
  <1>2. /\ Root \in Node /\ Root[1] = 0
        /\ Reached(tables, PML4, Root) = PML4
    BY NodeIs DEF Root, Reached, Index
  <1>3. WalkSound(top, Root)
    BY <1>1, <1>2 DEF WalkSound, Tree
  <1>4. va[1] \in Index /\ va[2] \in Index /\ va[3] \in Index
    BY DEF AllAddresses
  <1> HIDE DEF top
  <1>5. WalkSound(a, <<1, va[1], 0, 0>>)
    <2>1. Down(Root, va[1]) = <<1, va[1], 0, 0>>
      BY <1>2 DEF Down
    <2> QED BY <1>2, <1>3, <1>4, <2>1, DescendSound
  <1> HIDE DEF a
  <1>6. WalkSound(b, <<2, va[1], va[2], 0>>)
    <2>1. <<1, va[1], 0, 0>> \in Node
      BY <1>4, NodeIs
    <2>2. Down(<<1, va[1], 0, 0>>, va[2]) = <<2, va[1], va[2], 0>>
      BY DEF Down
    <2> QED BY <1>4, <1>5, <2>1, <2>2, DescendSound
  <1> HIDE DEF b
  <1>7. WalkSound(c, <<3, va[1], va[2], va[3]>>)
    <2>1. <<2, va[1], va[2], 0>> \in Node
      BY <1>4, NodeIs
    <2>2. Down(<<2, va[1], va[2], 0>>, va[3]) = <<3, va[1], va[2], va[3]>>
      BY DEF Down
    <2> QED BY <1>4, <1>6, <2>1, <2>2, DescendSound
  <1> QED BY <1>7 DEF Leaf, TablesFor, top, a, b, c

-----------------------------------------------------------------------------
(* The top table is copied into a page of its own.                         *)
Copied(tbl, tbl2, root, f) == tbl2 = [tbl EXCEPT ![f] = tbl[root]]

LEMMA Copy ==
  ASSUME NEW tbl, NEW taken, NEW root, Tree(tbl, taken, root),
         NEW f \in Pool \ taken, NEW tbl2, Copied(tbl, tbl2, root, f)
  PROVE  /\ Tree(tbl2, taken \cup {f}, f)
         /\ \A va \in AllAddresses : Translation(tbl2, f, va) = Translation(tbl, root, va)
         /\ SameData(tbl, tbl2)
  <1>1. /\ f \in Frames /\ f # Data /\ f # Absent /\ root \in Frames
        /\ f \notin taken \cup BootFrames /\ f # root
    BY FramesAre DEF Frames, Tree, Absent
  <1>2. /\ tbl2 \in Contents
        /\ tbl2[f] = tbl[root]
        /\ \A g \in Frames \ {f} : tbl2[g] = tbl[g]
    BY <1>1 DEF Tree, Contents, Copied
  <1>3. \A p \in Node : Reached(tbl, root, p) # f
    BY <1>1 DEF Tree
  <1> DEFINE As(p) == Reached(tbl2, f, p) = IF p = Root THEN f ELSE Reached(tbl, root, p)
             Level(n) == \A p \in Node : p[1] = n => As(p)
  <1>4. Level(0)
    BY ReachedUp, NodeCases
  <1>5. ASSUME NEW n \in 0 .. 2, Level(n) PROVE Level(n + 1)
    <2> SUFFICES ASSUME NEW p \in Node, p[1] = n + 1 PROVE As(p)
      OBVIOUS
    <2>1. /\ Up(p) \in Node /\ Up(p)[1] = n /\ p # Root
          /\ Reached(tbl2, f, p) = Entry(tbl2, Reached(tbl2, f, Up(p)), Last(p))
          /\ Reached(tbl, root, p) = Entry(tbl, Reached(tbl, root, Up(p)), Last(p))
      BY UpDown, ReachedUp DEF Root
    <2>2. As(Up(p))
      BY <1>5, <2>1
    <2>3. CASE Up(p) = Root
      <3>1. Reached(tbl, root, Up(p)) = root
        BY <2>3 DEF Reached, Root
      <3> QED BY <1>1, <1>2, <2>1, <2>2, <2>3, <3>1 DEF Entry
    <2>4. CASE Up(p) # Root
      <3> DEFINE g == Reached(tbl, root, Up(p))
      <3>1. g \in Frames => tbl2[g] = tbl[g]
        BY <1>2, <1>3, <2>1
      <3>2. Reached(tbl2, f, Up(p)) = g
        BY <2>2, <2>4
      <3> HIDE DEF g
      <3>3. Entry(tbl2, g, Last(p)) = Entry(tbl, g, Last(p))
        BY <3>1 DEF Entry
      <3> QED BY <2>1, <3>2, <3>3 DEF g
    <2> QED BY <2>3, <2>4
  <1> HIDE DEF Level, As
  <1>6. Level(1) /\ Level(2) /\ Level(3)
    BY <1>4, <1>5
  <1>7. \A p \in Node : As(p)
    <2> TAKE p \in Node
    <2>1. p[1] \in 0 .. 3
      BY NodeCases
    <2> QED BY <1>4, <1>6, <2>1 DEF Level
  <1> USE DEF As
  <1>8. Tree(tbl2, taken \cup {f}, f)
    <2>1. tbl2 \in Contents /\ taken \cup {f} \subseteq Pool
      BY <1>2 DEF Tree
    <2>2. \A p \in Node :
             \/ Reached(tbl2, f, p) \in taken \cup {f} \cup BootFrames \cup {Absent}
             \/ Reached(tbl2, f, p) = Data /\ p = DataNode
      BY <1>7 DEF Tree
    <2>3. ASSUME NEW p \in Node, NEW q \in Node, p # q, Reached(tbl2, f, p) # Absent
          PROVE  Reached(tbl2, f, p) # Reached(tbl2, f, q)
      <3>1. CASE p = Root \/ q = Root
        BY <1>3, <1>7, <2>3, <3>1
      <3>2. CASE p # Root /\ q # Root
        <4>1. /\ Reached(tbl2, f, p) = Reached(tbl, root, p)
              /\ Reached(tbl2, f, q) = Reached(tbl, root, q)
          BY <1>7, <3>2
        <4> QED BY <2>3, <4>1 DEF Tree
      <3> QED BY <3>1, <3>2
    <2> QED BY <2>1, <2>2, <2>3 DEF Tree
  <1>9. ASSUME NEW va \in AllAddresses
        PROVE  Translation(tbl2, f, va) = Translation(tbl, root, va)
    <2>1. Leaf(va) \in Node /\ Leaf(va) # Root
      <3>1. Leaf(va) \in Node
        BY NodeIs DEF AllAddresses, Leaf
      <3>2. Leaf(va)[1] = 3 /\ Root[1] = 0
        BY DEF Leaf, Root
      <3> QED BY <3>1, <3>2
    <2> DEFINE g == Reached(tbl, root, Leaf(va))
    <2>2. g \in Frames => tbl2[g] = tbl[g]
      BY <1>2, <1>3, <2>1
    <2>3. Reached(tbl2, f, Leaf(va)) = g
      BY <1>7, <2>1
    <2> HIDE DEF g
    <2>4. Entry(tbl2, g, va[4]) = Entry(tbl, g, va[4])
      BY <2>2 DEF Entry
    <2>5. Entry(tbl2, Reached(tbl2, f, Leaf(va)), va[4])
             = Entry(tbl, Reached(tbl, root, Leaf(va)), va[4])
      BY <2>3, <2>4 DEF g
    <2> QED BY <2>5 DEF Translation
  <1>10. SameData(tbl, tbl2)
    BY <1>1, <1>2 DEF SameData, Frames
  <1> QED BY <1>8, <1>9, <1>10

-----------------------------------------------------------------------------
LEMMA TableIs ==
  ASSUME NEW root, NEW i, NEW j, NEW k
  PROVE  Table(root, <<i, j, k>>) = Reached(tables, root, <<3, i, j, k>>)
  BY DEF Table, Reached, Entry

LEMMA WalkIs ==
  ASSUME NEW va
  PROVE  /\ Walk(va) = Translation(tables, cr3, va)
         /\ Walk(va)' = Translation(tables', cr3', va)
  <1>1. PageTable(cr3, va) = Reached(tables, cr3, Leaf(va))
    BY TableIs DEF PageTable, Leaf
  <1>2. PageTable(cr3, va)' = Reached(tables', cr3', Leaf(va))
    BY DEF PageTable, Leaf, Table, Reached, Entry
  <1> QED BY <1>1, <1>2 DEF Walk, Translation, Entry

LEMMA InitInv == Init => Inv
  <1> SUFFICES ASSUME Init PROVE Inv
    OBVIOUS
  <1>1. /\ cr3 = Boot[1] /\ out = {}
        /\ tables = [f \in Frames |->
                      IF f \in Pool \cup {Data} THEN [i \in Index |-> Junk]
                      ELSE BootTable(CHOOSE n \in 1 .. 5 : Boot[n] = f)]
    BY DEF Init
  <1>2. \A n \in 1 .. 5 : /\ Boot[n] \in BootFrames /\ Boot[n] \in Frames
                          /\ Boot[n] \notin Pool \cup {Data}
    BY FramesAre DEF BootFrames, Frames
  <1>3. \A n \in 1 .. 5 : tables[Boot[n]] = BootTable(n)
    <2> TAKE n \in 1 .. 5
    <2>1. (CHOOSE m \in 1 .. 5 : Boot[m] = Boot[n]) = n
      BY VmmAssumption
    <2> QED BY <1>1, <1>2, <2>1
  <1>4. Kernel[1] = 1 /\ Kernel[2] = 1 /\ Kernel[3] = 1 /\ Kernel[4] = 1
    BY DEF Kernel
  <1>5. /\ BootTable(1)[0] = Absent /\ BootTable(1)[1] = Boot[2]
        /\ BootTable(2)[0] = Boot[5] /\ BootTable(2)[1] = Boot[3]
        /\ BootTable(3)[0] = Absent /\ BootTable(3)[1] = Boot[4]
        /\ BootTable(5)[0] = Data /\ BootTable(5)[1] = Absent
    BY <1>4 DEF BootTable, Index
  <1>6. \A n \in 1 .. 5 : BootTable(n) \in [Index -> Int]
    BY <1>4, FramesAre, <1>2, VmmAssumption DEF BootTable, Index, Absent
  <1>7. tables \in Contents
    <2>1. ASSUME NEW f \in Frames PROVE tables[f] \in [Index -> Int]
      <3>1. CASE f \in Pool \cup {Data}
        BY <1>1, <3>1, VmmAssumption
      <3>2. CASE f \in BootFrames
        BY <1>3, <1>6, <3>2 DEF BootFrames
      <3> QED BY <3>1, <3>2 DEF Frames
    <2> QED BY <1>1, <2>1 DEF Contents
  <1>7a. /\ Entry(tables, Boot[1], 0) = Absent /\ Entry(tables, Boot[1], 1) = Boot[2]
         /\ Entry(tables, Boot[2], 0) = Boot[5] /\ Entry(tables, Boot[2], 1) = Boot[3]
         /\ Entry(tables, Boot[3], 0) = Absent /\ Entry(tables, Boot[3], 1) = Boot[4]
         /\ Entry(tables, Boot[5], 0) = Data /\ Entry(tables, Boot[5], 1) = Absent
         /\ \A i \in Index : Entry(tables, Absent, i) = Absent
    BY <1>2, <1>3, <1>5, FramesAre DEF Entry
  <1> DEFINE R(p) == Reached(tables, cr3, p)
             Known == {Root, <<1, 1, 0, 0>>, <<2, 1, 0, 0>>, <<2, 1, 1, 0>>, <<3, 1, 1, 1>>}
  <1>8. /\ R(Root) = Boot[1]
        /\ R(<<1, 1, 0, 0>>) = Boot[2] /\ R(<<1, 0, 0, 0>>) = Absent
        /\ R(<<2, 1, 0, 0>>) = Boot[5] /\ R(<<2, 1, 1, 0>>) = Boot[3]
        /\ R(<<2, 0, 0, 0>>) = Absent /\ R(<<2, 0, 1, 0>>) = Absent
    <2>1. R(Root) = cr3
      BY DEF Reached, Root
    <2>2. \A i \in Index : R(<<1, i, 0, 0>>) = Entry(tables, cr3, i)
      BY DEF Reached
    <2>3. \A i, j \in Index : R(<<2, i, j, 0>>) = Entry(tables, R(<<1, i, 0, 0>>), j)
      BY DEF Reached
    <2> HIDE DEF R
    <2>4. 0 \in Index /\ 1 \in Index
      BY DEF Index
    <2>5. R(<<1, 1, 0, 0>>) = Boot[2] /\ R(<<1, 0, 0, 0>>) = Absent
      BY <1>1, <1>7a, <2>2, <2>4
    <2>6. /\ R(<<2, 1, 0, 0>>) = Boot[5] /\ R(<<2, 1, 1, 0>>) = Boot[3]
          /\ R(<<2, 0, 0, 0>>) = Absent /\ R(<<2, 0, 1, 0>>) = Absent
      BY <1>7a, <2>3, <2>4, <2>5
    <2> QED BY <1>1, <2>1, <2>5, <2>6
  <1>9. /\ R(<<3, 1, 1, 1>>) = Boot[4] /\ R(DataNode) = Data
        /\ R(<<3, 1, 0, 1>>) = Absent /\ R(<<3, 1, 1, 0>>) = Absent
        /\ \A j, k \in Index : R(<<3, 0, j, k>>) = Absent
    <2>1. \A i, j, k \in Index : R(<<3, i, j, k>>) = Entry(tables, R(<<2, i, j, 0>>), k)
      BY DEF Reached
    <2> HIDE DEF R
    <2>2. 0 \in Index /\ 1 \in Index /\ \A i \in Index : i = 0 \/ i = 1
      BY DEF Index
    <2>3. R(<<3, 1, 1, 1>>) = Boot[4] /\ R(<<3, 1, 1, 0>>) = Absent
      BY <1>8, <1>7a, <2>1, <2>2
    <2>4. R(DataNode) = Data /\ R(<<3, 1, 0, 1>>) = Absent
      BY <1>8, <1>7a, <2>1, <2>2 DEF DataNode
    <2>5. \A j, k \in Index : R(<<3, 0, j, k>>) = Absent
      BY <1>8, <1>7a, <2>1, <2>2
    <2> QED BY <2>3, <2>4, <2>5
  <1> HIDE DEF R
  <1>10. \A p \in Node : p \notin Known \cup {DataNode} => R(p) = Absent
    BY <1>8, <1>9, NodeCases DEF Index, DataNode, Root
  <1>11. \A p \in Known : R(p) \in BootFrames
    BY <1>2, <1>8, <1>9
  <1>12. \A p, q \in Known \cup {DataNode} : p # q => R(p) # R(q)
    BY <1>2, <1>8, <1>9, VmmAssumption
  <1>13. Tree(tables, out, cr3)
    <2>1. \A p \in Node : \/ R(p) \in out \cup BootFrames \cup {Absent}
                          \/ R(p) = Data /\ p = DataNode
      BY <1>9, <1>10, <1>11
    <2>2. \A p, q \in Node : p # q /\ R(p) # Absent => R(p) # R(q)
      BY <1>10, <1>12
    <2>3. cr3 \in out \cup BootFrames /\ out \subseteq Pool
      BY <1>1, <1>2
    <2> QED BY <1>7, <2>1, <2>2, <2>3 DEF Tree, R
  <1>14. tlb \in [Addresses -> Int] /\ \A va \in Addresses : tlb[va] = Absent
    BY DEF Init, Absent
  <1> QED BY <1>13, <1>14 DEF Init, Inv

-----------------------------------------------------------------------------
(* What a step that changes the tables for va does, and what it leaves.    *)
ChangesOnly(va) ==
    /\ Tree(tables', out', cr3')
    /\ UNCHANGED <<PML4, cr3>>
    /\ \A ua \in AllAddresses \ {va} : Walk(ua)' = Walk(ua)
    /\ Large(va) => Walk(va)' = Walk(va)
    /\ ~Large(va) => SameData(tables, tables')

LEMMA LargeIsFixed ==
  ASSUME NEW tbl, NEW root, NEW va, Large(va)
  PROVE  Translation(tbl, root, va) = Data + va[4]
  BY DEF Translation

LEMMA MappedStep ==
  ASSUME Inv, PML4 # NULL, NEW va \in AllAddresses, NEW frame \in Int, Mapped(va, frame)
  PROVE  /\ ChangesOnly(va)
         /\ ~halted' /\ ~Large(va) => Walk(va)' = frame
  <1> DEFINE w == TablesFor(va)
             written == [w.tables EXCEPT ![w.at][va[4]] = frame]
  <1>1. WalkSound(w, Leaf(va))
    BY WalkDown
  <1>2. /\ out' = w.out /\ halted' = ~w.ok
        /\ tables' = IF w.ok THEN written ELSE w.tables
        /\ PML4' = PML4 /\ cr3' = cr3 /\ PML4 = cr3
    BY DEF Mapped, Inv
  <1>3. Leaf(va) \in Node
    BY NodeIs DEF AllAddresses, Leaf
  <1>4. \A ua : Walk(ua) = Translation(tables, cr3, ua)
    BY WalkIs
  <1>5. \A ua : Walk(ua)' = Translation(tables', cr3', ua)
    BY WalkIs
  <1>6. Written(w.tables, written, w.at, va[4], frame)
    BY DEF Written
  <1> HIDE DEF w, written
  <1>7. /\ Tree(w.tables, w.out, cr3)
        /\ \A ua \in AllAddresses : Translation(w.tables, cr3, ua) = Walk(ua)
        /\ SameData(tables, w.tables)
    BY <1>1, <1>2, <1>4 DEF WalkSound, SameData
  <1>8. CASE w.ok
    <2>1. w.at \in Frames /\ w.at = Reached(w.tables, cr3, Leaf(va))
      BY <1>1, <1>2, <1>3, <1>7, <1>8, TreeFacts DEF WalkSound
    <2>2. /\ Tree(written, w.out, cr3)
          /\ \A ua \in AllAddresses \ {va} :
                Translation(written, cr3, ua) = Translation(w.tables, cr3, ua)
          /\ ~Large(va) => Translation(written, cr3, va) = frame
          /\ ~Large(va) => SameData(w.tables, written)
      BY <1>6, <1>7, <2>1, Write
    <2>3. tables' = written
      BY <1>2, <1>8
    <2>4. \A ua \in AllAddresses \ {va} : Walk(ua)' = Walk(ua)
      BY <1>2, <1>5, <1>7, <2>2, <2>3
    <2>5. Large(va) => Walk(va)' = Walk(va)
      BY <1>2, <1>4, <1>5, LargeIsFixed
    <2>6. ~Large(va) => Walk(va)' = frame /\ SameData(tables, tables')
      BY <1>2, <1>5, <1>7, <2>2, <2>3 DEF SameData
    <2> QED BY <1>2, <2>2, <2>3, <2>4, <2>5, <2>6 DEF ChangesOnly
  <1>9. CASE ~w.ok
    <2>1. tables' = w.tables
      BY <1>2, <1>9
    <2>2. \A ua \in AllAddresses : Walk(ua)' = Walk(ua)
      BY <1>2, <1>5, <1>7, <2>1
    <2> QED BY <1>2, <1>7, <1>9, <2>1, <2>2 DEF ChangesOnly
  <1> QED BY <1>8, <1>9

LEMMA UnmapStep ==
  ASSUME Inv, NEW va \in AllAddresses, unmap(va)
  PROVE  ChangesOnly(va) /\ out' = out
  <1> DEFINE pt == PageTable(PML4, va)
             written == [tables EXCEPT ![pt][va[4]] = Absent]
  <1>1. /\ pt # Absent /\ tables' = written
        /\ PML4' = PML4 /\ cr3' = cr3 /\ PML4 = cr3 /\ out' = out
    BY DEF unmap, Inv
  <1>2. pt = Reached(tables, cr3, Leaf(va))
    BY <1>1, TableIs DEF PageTable, Leaf
  <1>3. Leaf(va) \in Node
    BY NodeIs DEF AllAddresses, Leaf
  <1>4. Tree(tables, out, cr3)
    BY DEF Inv
  <1>5. Written(tables, written, pt, va[4], Absent) /\ Absent \in Int
    BY DEF Written, Absent
  <1> HIDE DEF pt, written
  <1>6. pt \in Frames
    BY <1>1, <1>2, <1>3, <1>4, TreeFacts
  <1>7. /\ Tree(written, out, cr3)
        /\ \A ua \in AllAddresses \ {va} :
              Translation(written, cr3, ua) = Translation(tables, cr3, ua)
        /\ ~Large(va) => SameData(tables, written)
    BY <1>2, <1>4, <1>5, <1>6, Write
  <1>8. \A ua : Walk(ua) = Translation(tables, cr3, ua)
    BY WalkIs
  <1>9. \A ua : Walk(ua)' = Translation(tables', cr3', ua)
    BY WalkIs
  <1>10. Large(va) => Walk(va)' = Walk(va)
    BY <1>8, <1>9, LargeIsFixed
  <1> QED BY <1>1, <1>7, <1>8, <1>9, <1>10 DEF ChangesOnly

LEMMA InitStep ==
  ASSUME Inv, vmm_init
  PROVE  /\ Tree(tables', out', cr3')
         /\ \A va \in AllAddresses : Walk(va)' = Walk(va)
         /\ SameData(tables, tables')
         /\ PML4' = NULL \/ PML4' = cr3'
  <1>1. \A ua : Walk(ua) = Translation(tables, cr3, ua)
    BY WalkIs
  <1>2. \A ua : Walk(ua)' = Translation(tables', cr3', ua)
    BY WalkIs
  <1>3. CASE Free(out) = {}
    <2>1. UNCHANGED <<PML4, cr3, tables, out>>
      BY <1>3 DEF vmm_init
    <2> QED BY <1>1, <1>2, <2>1 DEF Inv, SameData
  <1>4. CASE Free(out) # {}
    <2> DEFINE f == First(Free(out))
    <2>1. /\ PML4' = f /\ out' = out \cup {f} /\ cr3' = f
          /\ Copied(tables, tables', cr3, f)
      BY <1>4 DEF vmm_init, Copied
    <2>2. f \in Pool \ out
      BY <1>4, FirstIs
    <2> HIDE DEF f
    <2>3. Tree(tables, out, cr3)
      BY DEF Inv
    <2>4. /\ Tree(tables', out \cup {f}, f)
          /\ \A va \in AllAddresses :
                Translation(tables', f, va) = Translation(tables, cr3, va)
          /\ SameData(tables, tables')
      BY <2>1, <2>2, <2>3, Copy
    <2> QED BY <1>1, <1>2, <2>1, <2>4
  <1> QED BY <1>3, <1>4

LEMMA PallocStep ==
  ASSUME Inv, OtherPalloc
  PROVE  Tree(tables', out', cr3') /\ UNCHANGED <<PML4, cr3, tables, tlb>>
  <1>1. /\ UNCHANGED <<PML4, cr3, tables, tlb>>
        /\ Free(out) # {} /\ out' = out \cup {First(Free(out))}
    BY DEF OtherPalloc
  <1>2. First(Free(out)) \in Pool \ out
    BY <1>1, FirstIs
  <1> QED BY <1>1, <1>2 DEF Inv, Tree

(* The model's addresses are addresses, and every page of one a number.    *)
LEMMA AddressesAre ==
  Addresses \subseteq AllAddresses /\ \A va \in AllAddresses : PageOf(va) \in Int
  BY VmmAssumption DEF AllAddresses, PageOf, Index

(* Every step but those of the cache, by what it does to the tables.       *)
LEMMA TablesStep ==
  ASSUME Inv, Next
  PROVE  \/ /\ Tree(tables', out', cr3')
            /\ \A va \in AllAddresses : Walk(va)' = Walk(va)
            /\ SameData(tables, tables')
            /\ PML4' = NULL \/ PML4' = cr3'
         \/ \E va \in Addresses : ChangesOnly(va) /\ Changes(va)
  <1>1. CASE vmm_init
    BY <1>1, InitStep
  <1>2. CASE OtherPalloc
    <2>1. \A va : Walk(va)' = Walk(va)
      BY <1>2, PallocStep DEF Walk, PageTable, Table
    <2> QED BY <1>2, <2>1, PallocStep DEF Inv, SameData
  <1>3. ASSUME NEW va \in Addresses, NEW frame \in Targets, mmap(va, frame)
        PROVE  ChangesOnly(va) /\ Changes(va)
    <2>1. frame \in Int
      BY VmmAssumption
    <2> QED BY <1>3, <2>1, AddressesAre, MappedStep DEF mmap, Changes
  <1>4. ASSUME NEW va \in Addresses, unmap(va)
        PROVE  ChangesOnly(va) /\ Changes(va)
    BY <1>4, AddressesAre, UnmapStep DEF Changes
  <1>5. ASSUME UNCHANGED <<PML4, cr3, tables, out>>
        PROVE  /\ Tree(tables', out', cr3')
               /\ \A va \in AllAddresses : Walk(va)' = Walk(va)
               /\ SameData(tables, tables')
               /\ PML4' = NULL \/ PML4' = cr3'
    BY <1>5 DEF Inv, SameData, Walk, PageTable, Table
  <1>6. ASSUME NEW va \in Addresses, exception_handler(va), va # Zero
        PROVE  ChangesOnly(va) /\ Changes(va)
    <2>1. PML4 # NULL /\ Mapped(va, PageOf(va))
      BY <1>6 DEF exception_handler
    <2> QED BY <1>6, <2>1, AddressesAre, MappedStep DEF Changes
  <1>7. ASSUME NEW va \in Addresses, exception_handler(va), ~Mapped(va, PageOf(va))
        PROVE  UNCHANGED <<PML4, cr3, tables, out>>
    BY <1>7 DEF exception_handler
  <1>8. ASSUME NEW va \in Addresses, exception_handler(va)
        PROVE  \/ UNCHANGED <<PML4, cr3, tables, out>>
               \/ ChangesOnly(va) /\ Changes(va)
    BY <1>6, <1>7, <1>8 DEF exception_handler
  <1>9. ASSUME NEW va \in Addresses, Touch(va)
        PROVE  UNCHANGED <<PML4, cr3, tables, out>>
    BY <1>9 DEF Touch
  <1> QED BY <1>1, <1>2, <1>3, <1>4, <1>5, <1>8, <1>9 DEF Next

LEMMA WalkIsInt ==
  ASSUME Inv, NEW va \in AllAddresses
  PROVE  /\ Walk(va) \in Int
         /\ Large(va) => Walk(va) = Data + va[4]
  <1>1. Walk(va) = Translation(tables, cr3, va)
    BY WalkIs
  <1>2. va[4] \in Index /\ va[4] \in Int /\ Data \in Int
    BY FramesAre DEF AllAddresses, Index
  <1>3. \A f : Entry(tables, f, va[4]) \in Int
    BY <1>2 DEF Entry, Inv, Tree, Contents, Absent
  <1> QED BY <1>1, <1>2, <1>3 DEF Translation

(* What a step does to the cache: it drops translations, or takes one that *)
(* the tables give.                                                        *)
LEMMA CacheStep ==
  ASSUME Inv, Next, NEW va \in Addresses
  PROVE  /\ tlb' \in [Addresses -> Int]
         /\ \/ tlb'[va] \in {tlb[va], Absent}
            \/ Touch(va) /\ tlb'[va] = Walk(va)
         /\ unmap(va) \/ exception_handler(va) => tlb'[va] = Absent
  <1>1. tlb \in [Addresses -> Int] /\ Absent \in Int
    BY DEF Inv, Absent
  <1>2. CASE vmm_init \/ OtherPalloc
    <2>1. tlb' = tlb \/ tlb' = [ua \in Addresses |-> Absent]
      BY <1>2 DEF vmm_init, OtherPalloc
    <2>2. ~(unmap(va) \/ exception_handler(va)) \/ tlb'[va] = Absent
      BY <1>1 DEF unmap, exception_handler
    <2> QED BY <1>1, <2>1, <2>2
  <1>3. ASSUME NEW ua \in Addresses, NEW frame \in Targets, mmap(ua, frame)
        PROVE  tlb' = tlb
    BY <1>3 DEF mmap
  <1>4. ASSUME NEW ua \in Addresses, unmap(ua) \/ exception_handler(ua)
        PROVE  tlb' = [tlb EXCEPT ![ua] = Absent]
    BY <1>4 DEF unmap, exception_handler
  <1>5. ASSUME NEW ua \in Addresses, Touch(ua)
        PROVE  tlb' = [tlb EXCEPT ![ua] = IF tlb[ua] = Absent THEN Walk(ua) ELSE Absent]
    BY <1>1, <1>5 DEF Touch
  <1>6. unmap(va) \/ exception_handler(va) => tlb'[va] = Absent
    BY <1>1, <1>4
  <1>7. CASE \E ua \in Addresses : Touch(ua)
    <2>1. PICK ua \in Addresses : Touch(ua)
      BY <1>7
    <2>2. Walk(ua) \in Int
      BY WalkIsInt, AddressesAre
    <2>3. tlb' = [tlb EXCEPT ![ua] = IF tlb[ua] = Absent THEN Walk(ua) ELSE Absent]
      BY <1>5, <2>1
    <2>4. tlb' \in [Addresses -> Int]
      BY <1>1, <2>2, <2>3
    <2>5. CASE ua = va
      BY <1>1, <1>6, <2>1, <2>3, <2>4, <2>5
    <2>6. CASE ua # va
      BY <1>1, <1>6, <2>3, <2>4, <2>6
    <2> QED BY <2>5, <2>6
  <1>8. CASE \E ua \in Addresses : unmap(ua) \/ exception_handler(ua)
    BY <1>1, <1>4, <1>6, <1>8
  <1> QED BY <1>1, <1>2, <1>3, <1>6, <1>7, <1>8 DEF Next

LEMMA NextInv == Inv /\ [Next]_vars => Inv'
  <1> SUFFICES ASSUME Inv, [Next]_vars PROVE Inv'
    OBVIOUS
  <1>1. CASE UNCHANGED vars
    BY <1>1 DEF vars, Inv
  <1>2. CASE Next
    <2>1. Tree(tables', out', cr3') /\ (PML4' = NULL \/ PML4' = cr3')
      BY <1>2, TablesStep DEF ChangesOnly, Inv
    <2>2. tlb' \in [Addresses -> Int]
      <3>1. CASE Addresses = {}
        BY <1>2, <3>1 DEF Next, vmm_init, OtherPalloc, Inv
      <3>2. CASE Addresses # {}
        BY <1>2, <3>2, CacheStep
      <3> QED BY <3>1, <3>2
    <2>3. ASSUME NEW va \in Addresses, Large(va)
          PROVE  tlb'[va] \in {Absent, Data + va[4]}
      <3>1. Walk(va) = Data + va[4]
        BY <2>3, WalkIsInt, AddressesAre
      <3> QED BY <1>2, <2>3, <3>1, CacheStep DEF Inv
    <2> QED BY <2>1, <2>2, <2>3 DEF Inv
  <1> QED BY <1>1, <1>2

LEMMA SpecInv == Spec => []Inv
  BY InitInv, NextInv, PTL DEF Spec

-----------------------------------------------------------------------------
(* A path of the model is a node of the proofs.                            *)
NodeOf(p) == CASE Len(p) = 0 -> Root
               [] Len(p) = 1 -> <<1, p[1], 0, 0>>
               [] Len(p) = 2 -> <<2, p[1], p[2], 0>>
               [] Len(p) = 3 -> <<3, p[1], p[2], p[3]>>

LEMMA PathIs ==
  ASSUME NEW p \in Paths
  PROVE  /\ NodeOf(p) \in Node
         /\ NodeOf(p)[1] = Len(p) /\ Len(p) \in 0 .. 3
         /\ p \in [1 .. Len(p) -> Index]
         /\ \A i \in 1 .. Len(p) : p[i] = NodeOf(p)[i + 1]
         /\ Table(cr3, p) = Reached(tables, cr3, NodeOf(p))
  <1>1. PICK n \in 0 .. 3 : p \in [1 .. n -> Index]
    BY DEF Paths
  <1>2. Len(p) = n
    BY <1>1
  <1>3. CASE n = 0
    BY <1>1, <1>2, <1>3 DEF NodeOf, Table, Reached, Entry, Node, Root
  <1>4. CASE n = 1
    BY <1>1, <1>2, <1>4 DEF NodeOf, Table, Reached, Entry, Node
  <1>5. CASE n = 2
    BY <1>1, <1>2, <1>5 DEF NodeOf, Table, Reached, Entry, Node
  <1>6. CASE n = 3
    BY <1>1, <1>2, <1>6 DEF NodeOf, Table, Reached, Entry, Node
  <1> QED BY <1>3, <1>4, <1>5, <1>6

(* For any frames and addresses: no frame is the table of two sequences of *)
(* indices, and all are pages that palloc will not hand out again, or the  *)
(* bootloader's, but for the data of the large page.                       *)
THEOREM TablesStayATree == Spec => []TablesAreATree
  <1>1. Inv => TablesAreATree
    <2> SUFFICES ASSUME Inv, NEW p \in Paths
                 PROVE  /\ \/ Table(cr3, p) \in out \cup BootFrames \cup {Absent}
                           \/ Table(cr3, p) = Data /\ p = <<1, 0, 0>>
                        /\ \A q \in Paths :
                              p # q /\ Table(cr3, p) # Absent
                                 => Table(cr3, p) # Table(cr3, q)
      BY DEF TablesAreATree
    <2>1. Tree(tables, out, cr3)
      BY DEF Inv
    <2>2. NodeOf(p) = DataNode => p = <<1, 0, 0>>
      <3> SUFFICES ASSUME NodeOf(p) = DataNode PROVE p = <<1, 0, 0>>
        OBVIOUS
      <3>1. Len(p) = 3 /\ p \in [1 .. 3 -> Index]
        BY PathIs DEF DataNode
      <3>2. p[1] = 1 /\ p[2] = 0 /\ p[3] = 0
        BY <3>1, PathIs DEF DataNode
      <3> QED BY <3>1, <3>2
    <2>3. ASSUME NEW q \in Paths, NodeOf(p) = NodeOf(q) PROVE p = q
      <3>1. Len(p) = Len(q)
        BY <2>3, PathIs
      <3>2. p \in [1 .. Len(p) -> Index] /\ q \in [1 .. Len(p) -> Index]
        BY <3>1, PathIs
      <3>3. \A i \in 1 .. Len(p) : p[i] = q[i]
        BY <2>3, <3>1, PathIs
      <3> QED BY <3>2, <3>3
    <2> QED BY <2>1, <2>2, <2>3, PathIs DEF Tree
  <1> QED BY <1>1, SpecInv, PTL

(* For any frames, addresses and targets: a step changes the translation   *)
(* of the address it was called for at most, and writes into data only if  *)
(* that is an address of the large page.                                   *)
THEOREM MappingsAreLocal == Spec => OthersKeepTheirTranslation
  <1>1. ASSUME Inv, [Next]_vars
        PROVE  [/\ \A va \in AllAddresses :
                      Walk(va)' # Walk(va) => va \in Addresses /\ Changes(va)
                /\ \/ tables'[Data] = tables[Data]
                   \/ \E va \in Addresses : Large(va) /\ Changes(va)]_vars
    <2> SUFFICES ASSUME Next
                 PROVE  /\ \A va \in AllAddresses :
                              Walk(va)' # Walk(va) => va \in Addresses /\ Changes(va)
                        /\ \/ tables'[Data] = tables[Data]
                           \/ \E va \in Addresses : Large(va) /\ Changes(va)
      BY <1>1
    <2> QED BY <1>1, TablesStep DEF ChangesOnly, SameData
  <1> QED BY <1>1, SpecInv, PTL DEF Spec, OthersKeepTheirTranslation

(* For any frames, addresses and targets: a cached translation becomes     *)
(* stale by mmap over an address that is mapped, and by nothing else.      *)
THEOREM OnlyMmapMakesStale == Spec => OnlyRemapMakesStale
  <1>1. ASSUME Inv, Next, NEW va \in Addresses, Fresh(va)
        PROVE  \/ Fresh(va)'
               \/ Walk(va) # Absent /\ \E frame \in Targets : mmap(va, frame)
    <2>1. Fresh(va)' <=> tlb'[va] \in {Absent, Walk(va)'}
      BY DEF Fresh
    <2>2. CASE Touch(va) /\ tlb'[va] = Walk(va)
      <3>1. Walk(va)' = Walk(va)
        BY <2>2 DEF Touch, Walk, PageTable, Table
      <3> QED BY <2>1, <2>2, <3>1
    <2>3. CASE tlb'[va] \in {tlb[va], Absent} /\ ~Changes(va)
      <3>1. Walk(va)' = Walk(va)
        BY <1>1, <2>3, TablesStep, AddressesAre DEF ChangesOnly
      <3> QED BY <1>1, <2>1, <2>3, <3>1 DEF Fresh
    <2>4. CASE unmap(va) \/ exception_handler(va)
      BY <1>1, <2>1, <2>4, CacheStep
    <2>5. CASE /\ \E frame \in Targets : mmap(va, frame)
               /\ tlb'[va] \in {tlb[va], Absent}
      BY <1>1, <2>1, <2>5 DEF Fresh
    <2> QED BY <1>1, <2>2, <2>3, <2>4, <2>5, CacheStep DEF Changes
  <1>2. ASSUME Inv, [Next]_vars
        PROVE  [\A va \in Addresses :
                   \/ Fresh(va) => Fresh(va)'
                   \/ Walk(va) # Absent /\ \E frame \in Targets : mmap(va, frame)]_vars
    <2> SUFFICES ASSUME Next
                 PROVE  \A va \in Addresses :
                   \/ Fresh(va) => Fresh(va)'
                   \/ Walk(va) # Absent /\ \E frame \in Targets : mmap(va, frame)
      BY <1>2
    <2> QED BY <1>1, <1>2
  <1> QED BY <1>2, SpecInv, PTL DEF Spec, OnlyRemapMakesStale

(* The kernel and the data of the large page are no frames that a fault    *)
(* maps its address to: those of the model's addresses, 0 to 15.           *)
FramesApart ==
    /\ KernelFrame \notin 0 .. 15 \cup {Data, Data + 1}
    /\ Data \notin 0 .. 15 /\ Data + 1 \notin 0 .. 15

LEMMA FaultIsNotLarge ==
  ASSUME FramesApart, Inv, NEW va \in Addresses, Large(va)
  PROVE  ~Faults(va)
  <1>1. va[4] \in {0, 1} /\ Data \in Nat
    BY AddressesAre, FramesAre DEF AllAddresses, Index
  <1>2. Walk(va) = Data + va[4] /\ tlb[va] \in {Absent, Data + va[4]}
    BY AddressesAre, WalkIsInt DEF Inv
  <1>3. Data + va[4] \notin 0 .. 15 \cup {KernelFrame, Absent}
    BY <1>1 DEF FramesApart, Absent
  <1>4. Reserved \subseteq 0 .. 15
    BY DEF Reserved
  <1>5. Translates(va)
    BY <1>2, <1>3, <1>4 DEF Translates
  <1> QED BY <1>2, <1>3, <1>5 DEF Faults

(* For any frames, addresses and targets that FramesApart allows: mmap's   *)
(* address is translated to the frame it was given unless it is in the     *)
(* large page, and a fault is over when the handler returns if the address *)
(* is in the lower half, and comes again if it is in the upper one.        *)
THEOREM MmapReaches ==
  ASSUME FramesApart
  PROVE  Spec => MmapTranslates
  <1>1. ASSUME Inv, NEW va \in Addresses, NEW frame \in Targets, mmap(va, frame), ~halted'
        PROVE  Walk(va)' = IF Large(va) THEN Walk(va) ELSE frame
    <2>1. va \in AllAddresses /\ frame \in Int
      BY AddressesAre, VmmAssumption
    <2> QED BY <1>1, <2>1, MappedStep DEF mmap, ChangesOnly
  <1>2. ASSUME Inv, Next, NEW va \in Addresses, exception_handler(va), ~halted'
        PROVE  Walk(va)' = PageOf(va) /\ (Faults(va)' <=> va[1] = 1)
    <2>1. /\ PML4 # NULL /\ Faults(va) /\ Mapped(va, PageOf(va))
          /\ va \in AllAddresses /\ PageOf(va) \in Int
      BY <1>2, AddressesAre DEF exception_handler
    <2>2. ~Large(va)
      BY <1>2, <2>1, FaultIsNotLarge
    <2>3. Walk(va)' = PageOf(va)
      BY <1>2, <2>1, <2>2, MappedStep
    <2>4. tlb'[va] = Absent
      BY <1>2, CacheStep
    <2>5. /\ PageOf(va) \in 0 .. 15
          /\ PageOf(va) \in 8 .. 15 <=> va[1] = 1
      BY <2>1 DEF AllAddresses, Index, PageOf
    <2>6. Reserved = 8 .. 15
      BY DEF Reserved
    <2>7. Translates(va)' <=> va[1] # 1
      BY <2>3, <2>5, <2>6 DEF Translates, Absent
    <2>8. KernelFrame # Walk(va)'
      BY <2>3, <2>5 DEF FramesApart
    <2> QED BY <2>3, <2>4, <2>7, <2>8 DEF Faults
  <1>3. ASSUME Inv, [Next]_vars
        PROVE  [\A va \in Addresses :
                  /\ \A frame \in Targets :
                        mmap(va, frame) /\ ~halted' =>
                           Walk(va)' = IF Large(va) THEN Walk(va) ELSE frame
                  /\ exception_handler(va) /\ ~halted' =>
                        /\ Walk(va)' = PageOf(va)
                        /\ Faults(va)' <=> va[1] = 1]_vars
    BY <1>1, <1>2, <1>3
  <1> QED BY <1>3, SpecInv, PTL DEF Spec, MmapTranslates
=============================================================================
