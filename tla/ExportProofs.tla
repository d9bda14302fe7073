---------------------------- MODULE ExportProofs ----------------------------
(***************************************************************************)
(* Proofs about the exports of a package, for any finite set of them and   *)
(* any preload dependencies between them.  First ExportLoadOrder: the sort *)
(* of their commands.  Then ExportBundles, for any order the sort may      *)
(* return and any exports file with the data of each export in it: the     *)
(* bundles, and last their data.                                           *)
(***************************************************************************)
EXTENDS ExportLoadOrder, ExportBundles, FiniteSetTheorems, TLAPS

(* The sort.                                                               *)

USE GraphAssumption

\* Commands are finitely many.
LEMMA NodesFinite == IsFiniteSet(Nodes) /\ Cardinality(Nodes) \in Nat
<1>1. IsFiniteSet(Commands)
  <2>1. IsFiniteSet({}) /\ IsFiniteSet({} \cup {"Create"})
    BY FS_EmptySet, FS_AddElement
  <2>2. IsFiniteSet(({} \cup {"Create"}) \cup {"Serialize"})
    BY <2>1, FS_AddElement
  <2> QED
    BY <2>2, ({} \cup {"Create"}) \cup {"Serialize"} = Commands DEF Commands
<1>2. IsFiniteSet(Exports \X Commands)
  BY <1>1, FS_Product
<1> QED
  BY <1>2, FS_CardinalityType DEF Nodes

\* The edges into a node are finitely many and come from nodes.
LEMMA EdgesFinite ==
  ASSUME SortTypeOK, NEW n \in Nodes
  PROVE  /\ IsFiniteSet(Edges(n))
         /\ \A e \in Edges(n) : e[1] \in Nodes
         /\ Needs(n) \subseteq Nodes
<1>1. Edges(n) \subseteq Nodes \X {"preload", "own"}
  <2>1. n[1] \in Exports
    BY DEF Nodes
  <2>2. <<n[1], "Create">> \in Nodes
    BY <2>1 DEF Nodes, Commands
  <2> QED
    BY <2>2 DEF Edges
<1>2. IsFiniteSet({"preload", "own"})
  <2>1. IsFiniteSet({} \cup {"preload"})
    BY FS_EmptySet, FS_AddElement
  <2>2. IsFiniteSet(({} \cup {"preload"}) \cup {"own"})
    BY <2>1, FS_AddElement
  <2> QED
    BY <2>2, ({} \cup {"preload"}) \cup {"own"} = {"preload", "own"}
<1>3. IsFiniteSet(Nodes \X {"preload", "own"})
  BY <1>2, NodesFinite, FS_Product
<1>4. IsFiniteSet(Edges(n))
  BY <1>1, <1>3, FS_Subset
<1> QED
  BY <1>1, <1>4 DEF Needs

\* Counting edges: a set of sources with no edge into n is one n does not
\* need; moving m out of a set S takes away the edges from m.
LEMMA EdgeCounts ==
  ASSUME SortTypeOK, NEW n \in Nodes, NEW S \in SUBSET Nodes
  PROVE  /\ Cardinality(EdgesFrom(n, S)) \in Nat
         /\ Cardinality(EdgesFrom(n, S)) = 0 <=> Needs(n) \cap S = {}
         /\ \A m \in S :
              /\ Cardinality(EdgesFrom(n, {m})) \in Nat
              /\ Cardinality(EdgesFrom(n, S \ {m}))
                   = Cardinality(EdgesFrom(n, S)) - Cardinality(EdgesFrom(n, {m}))
<1>1. \A T : IsFiniteSet(EdgesFrom(n, T)) /\ Cardinality(EdgesFrom(n, T)) \in Nat
  <2>1. \A T : EdgesFrom(n, T) \subseteq Edges(n)
    BY DEF EdgesFrom
  <2> QED
    BY <2>1, EdgesFinite, FS_Subset, FS_CardinalityType
<1>2. Cardinality(EdgesFrom(n, S)) = 0 <=> EdgesFrom(n, S) = {}
  BY <1>1, FS_EmptySet
<1>3. EdgesFrom(n, S) = {} <=> Needs(n) \cap S = {}
  BY DEF EdgesFrom, Needs
<1>4. ASSUME NEW m \in S
      PROVE  Cardinality(EdgesFrom(n, S \ {m}))
               = Cardinality(EdgesFrom(n, S)) - Cardinality(EdgesFrom(n, {m}))
  <2>1. EdgesFrom(n, S \ {m}) = EdgesFrom(n, S) \ EdgesFrom(n, {m})
    BY DEF EdgesFrom
  <2>2. EdgesFrom(n, S) \cap EdgesFrom(n, {m}) = EdgesFrom(n, {m})
    BY DEF EdgesFrom
  <2> QED
    BY <1>1, <2>1, <2>2, FS_Difference, ZenonT(60)
<1> QED
  BY <1>1, <1>2, <1>3, <1>4

\* What appending a node to the order does to the set of placed nodes.
LEMMA Placing ==
  ASSUME SortTypeOK, NEW n \in Nodes, loadOrder' = Append(loadOrder, n)
  PROVE  /\ Placed' = Placed \cup {n}
         /\ Placed \subseteq Nodes
         /\ Len(loadOrder') = Len(loadOrder) + 1
         /\ DOMAIN loadOrder' = DOMAIN loadOrder \cup {Len(loadOrder) + 1}
         /\ \A i \in DOMAIN loadOrder : loadOrder'[i] = loadOrder[i]
         /\ loadOrder'[Len(loadOrder) + 1] = n
         /\ DOMAIN loadOrder = 1..Len(loadOrder)
         /\ Len(loadOrder) \in Nat
<1>1. /\ loadOrder \in Seq(Nodes) /\ Len(loadOrder) \in Nat
      /\ DOMAIN loadOrder = 1..Len(loadOrder)
      /\ \A i \in DOMAIN loadOrder : loadOrder[i] \in Nodes
  BY DEF SortTypeOK
<1>2. /\ Len(loadOrder') = Len(loadOrder) + 1
      /\ DOMAIN loadOrder' = DOMAIN loadOrder \cup {Len(loadOrder) + 1}
      /\ \A i \in DOMAIN loadOrder : loadOrder'[i] = loadOrder[i]
      /\ loadOrder'[Len(loadOrder) + 1] = n
  BY <1>1
<1>3. Placed' = Placed \cup {n}
  BY <1>1, <1>2 DEF Placed
<1> QED
  BY <1>1, <1>2, <1>3 DEF Placed

-----------------------------------------------------------------------------
\* The order's length counts the placed nodes.
LengthCounts == IsFiniteSet(Placed) /\ Cardinality(Placed) = Len(loadOrder)

SortInv == SortSafe /\ LengthCounts

\* Where the heap stands before a node n of it is placed: n has not been placed
\* and all it needs has, and no placed node needs n.
LEMMA HeadIsReady ==
  ASSUME SortSafe, phase = "sort", NEW n \in heap
  PROVE  /\ n \in Nodes \ Placed
         /\ Needs(n) \subseteq Placed
         /\ \A m \in Placed : n \notin Needs(m)
<1>1. SortTypeOK /\ CountsUnplaced /\ RespectsDependencies
  BY DEF SortSafe
<1>2. n \in Nodes \ Placed /\ incoming[n] = 0
  BY <1>1 DEF CountsUnplaced
<1>3. Cardinality(EdgesFrom(n, Nodes \ Placed)) = 0
  BY <1>1, <1>2 DEF CountsUnplaced
<1>4. Needs(n) \cap (Nodes \ Placed) = {}
  BY <1>1, <1>2, <1>3, EdgeCounts
<1>5. Needs(n) \subseteq Placed
  BY <1>1, <1>2, <1>4, EdgesFinite
<1>6. ASSUME NEW m \in Placed PROVE Needs(m) \subseteq Placed
  <2>1. PICK i \in DOMAIN loadOrder : m = loadOrder[i]
    BY DEF Placed
  <2>2. DOMAIN loadOrder = 1..Len(loadOrder) /\ Len(loadOrder) \in Nat
    BY <1>1 DEF SortTypeOK
  <2>3. \A x \in Needs(m) : \E j \in 1..(i - 1) : loadOrder[j] = x
    BY <1>1, <2>1 DEF RespectsDependencies
  <2>4. 1..(i - 1) \subseteq DOMAIN loadOrder
    BY <2>2
  <2> QED
    BY <2>3, <2>4 DEF Placed
<1> QED
  BY <1>2, <1>5, <1>6

\* Placing a node keeps the counts and the heap right.
LEMMA PlaceKeepsCounts ==
  ASSUME SortSafe, NEW n \in Nodes, Place(n)
  PROVE  CountsUnplaced' /\ incoming' \in [Nodes -> Nat]
<1>0. /\ SortTypeOK /\ CountsUnplaced /\ phase = "sort" /\ n \in heap
      /\ loadOrder' = Append(loadOrder, n) /\ preload' = preload
      /\ incoming' = [m \in Nodes |-> incoming[m] - Cardinality(EdgesFrom(m, {n}))]
      /\ heap' = (heap \ {n}) \cup {m \in Nodes : n \in Needs(m) /\ incoming'[m] = 0}
  BY DEF SortSafe, Place, Satisfy
<1>1. Placed' = Placed \cup {n} /\ n \in Nodes \ Placed /\ Needs(n) \subseteq Placed
      /\ \A m \in Placed : n \notin Needs(m)
  BY <1>0, Placing, HeadIsReady
<1> DEFINE Left == Nodes \ Placed
<1>3. Left' = Left \ {n} /\ Left \in SUBSET Nodes /\ n \in Left
  BY <1>1
<1>4. \A m \in Nodes : incoming[m] = Cardinality(EdgesFrom(m, Left))
  BY <1>0 DEF CountsUnplaced
<1> HIDE DEF Left
<1>5. ASSUME NEW m \in Nodes
      PROVE  /\ incoming'[m] = Cardinality(EdgesFrom(m, Left'))
             /\ incoming'[m] \in Nat
  <2>1. incoming'[m] = Cardinality(EdgesFrom(m, Left)) - Cardinality(EdgesFrom(m, {n}))
    BY <1>0, <1>4
  <2>2. /\ Cardinality(EdgesFrom(m, Left \ {n})) \in Nat
        /\ Cardinality(EdgesFrom(m, Left \ {n}))
             = Cardinality(EdgesFrom(m, Left)) - Cardinality(EdgesFrom(m, {n}))
    <3>1. Left \ {n} \in SUBSET Nodes
      BY <1>3
    <3> QED
      BY <3>1, <1>0, <1>3, EdgeCounts
  <2> QED
    BY <2>1, <2>2, <1>3
<1>6. \A m \in Nodes : EdgesFrom(m, Left')= EdgesFrom(m, Left)'
  BY <1>0 DEF EdgesFrom, Edges
<1>7. heap = {m \in Left : incoming[m] = 0}
  BY <1>0 DEF CountsUnplaced, Left
<1>8. heap' = {m \in Left' : incoming'[m] = 0}
  <2>1. ASSUME NEW m \in heap \ {n} PROVE m \in Left' /\ incoming'[m] = 0
    <3>1. m \in Left /\ m \in Nodes /\ Cardinality(EdgesFrom(m, Left)) = 0
      BY <2>1, <1>7, <1>4, <1>3
    <3>2. Needs(m) \cap Left = {}
      BY <3>1, <1>0, <1>3, EdgeCounts
    <3>3. Needs(m) \cap Left' = {}
      BY <3>2, <1>3
    <3>4. Cardinality(EdgesFrom(m, Left')) = 0
      BY <3>1, <3>3, <1>0, <1>3, EdgeCounts
    <3> QED
      BY <2>1, <3>1, <3>4, <1>3, <1>5
  <2>2. ASSUME NEW m \in Nodes, n \in Needs(m), incoming'[m] = 0 PROVE m \in Left'
    BY <2>2, <1>1, <1>3 DEF Left
  <2>3. ASSUME NEW m \in Left', incoming'[m] = 0, n \notin Needs(m)
        PROVE  m \in heap \ {n}
    <3>1. m \in Nodes /\ m \in Left /\ m # n
      BY <1>3
    <3>2. Needs(m) \cap Left' = {}
      BY <2>3, <3>1, <1>0, <1>3, <1>5, EdgeCounts
    <3>3. Needs(m) \cap Left = {}
      BY <3>2, <2>3, <1>3
    <3>4. incoming[m] = 0
      BY <3>1, <3>3, <1>0, <1>3, <1>4, EdgeCounts
    <3> QED
      BY <3>1, <3>4, <1>7
  <2> QED
    BY <2>1, <2>2, <2>3, <1>0, <1>3
<1>9. CountsUnplaced'
  BY <1>0, <1>5, <1>6, <1>8 DEF CountsUnplaced, Left
<1> QED
  BY <1>0, <1>5, <1>9

\* Placing a node keeps the order right.
LEMMA PlaceKeepsOrder ==
  ASSUME SortSafe, LengthCounts, NEW n \in Nodes, Place(n)
  PROVE  /\ (RespectsDependencies /\ PlacedOnce /\ LengthCounts)'
         /\ SortTypeOK'
<1>0. /\ SortTypeOK /\ RespectsDependencies /\ PlacedOnce /\ phase = "sort" /\ n \in heap
      /\ loadOrder' = Append(loadOrder, n)
      /\ preload' = preload /\ public' = public /\ phase' = phase
      /\ heap' \subseteq heap \cup Nodes
  BY DEF SortSafe, Place, Satisfy
<1>1. n \in Nodes \ Placed /\ Needs(n) \subseteq Placed
  BY <1>0, HeadIsReady
<1>2. /\ Placed' = Placed \cup {n}
      /\ Len(loadOrder') = Len(loadOrder) + 1
      /\ DOMAIN loadOrder' = DOMAIN loadOrder \cup {Len(loadOrder) + 1}
      /\ \A i \in DOMAIN loadOrder : loadOrder'[i] = loadOrder[i]
      /\ loadOrder'[Len(loadOrder) + 1] = n
      /\ DOMAIN loadOrder = 1..Len(loadOrder)
      /\ Len(loadOrder) \in Nat
  BY <1>0, Placing
<1>3. \A m : Needs(m)' = Needs(m)
  BY <1>0 DEF Needs, Edges
<1>4. RespectsDependencies'
  <2>1. ASSUME NEW i \in DOMAIN loadOrder
        PROVE  \A m \in Needs(loadOrder'[i]) : \E j \in 1..(i - 1) : loadOrder'[j] = m
    <3>1. \A m \in Needs(loadOrder[i]) : \E j \in 1..(i - 1) : loadOrder[j] = m
      BY <1>0 DEF RespectsDependencies
    <3>2. 1..(i - 1) \subseteq DOMAIN loadOrder /\ loadOrder'[i] = loadOrder[i]
      BY <1>2
    <3> QED
      BY <3>1, <3>2, <1>2
  <2>2. \A m \in Needs(n) : \E j \in 1..((Len(loadOrder) + 1) - 1) : loadOrder'[j] = m
    BY <1>1, <1>2 DEF Placed
  <2>3. ASSUME NEW i \in DOMAIN loadOrder'
        PROVE  \A m \in Needs(loadOrder'[i]) : \E j \in 1..(i - 1) : loadOrder'[j] = m
    BY <2>1, <2>2, <1>2
  <2> QED
    BY <2>3, <1>3 DEF RespectsDependencies
<1>5. PlacedOnce'
  <2>1. \A i \in DOMAIN loadOrder : loadOrder[i] # n
    BY <1>1 DEF Placed
  <2>2. \A i, j \in DOMAIN loadOrder : loadOrder[i] = loadOrder[j] => i = j
    BY <1>0 DEF PlacedOnce
  <2> QED
    BY <2>1, <2>2, <1>2 DEF PlacedOnce
<1>6. LengthCounts'
  BY <1>1, <1>2, FS_AddElement, SMTT(60) DEF LengthCounts
<1>7. SortTypeOK'
  <2>1. incoming' \in [Nodes -> Nat]
    BY PlaceKeepsCounts
  <2>2. loadOrder' \in Seq(Nodes)
    BY <1>0 DEF SortTypeOK
  <2> QED
    BY <2>1, <2>2, <1>0 DEF SortTypeOK
<1> QED
  BY <1>4, <1>5, <1>6, <1>7

\* When the heap is empty every node that is left needs another one that is,
\* and the length of the order tells whether any is left.
LEMMA EmptyHeap ==
  ASSUME SortSafe, LengthCounts, phase = "sort", heap = {}
  PROVE  /\ Len(loadOrder) = Cardinality(Nodes) <=> Placed = Nodes
         /\ \A n \in Nodes \ Placed : Needs(n) \cap (Nodes \ Placed) # {}
<1>1. SortTypeOK /\ CountsUnplaced
  BY DEF SortSafe
<1>2. Placed \subseteq Nodes
  BY <1>1 DEF SortTypeOK, Placed
<1>3. Len(loadOrder) = Cardinality(Nodes) <=> Placed = Nodes
  BY <1>2, NodesFinite, FS_Subset DEF LengthCounts
<1>4. ASSUME NEW n \in Nodes \ Placed
      PROVE  Needs(n) \cap (Nodes \ Placed) # {}
  <2>1. incoming[n] # 0 /\ incoming[n] = Cardinality(EdgesFrom(n, Nodes \ Placed))
    BY <1>1 DEF CountsUnplaced
  <2>2. Nodes \ Placed \in SUBSET Nodes
    OBVIOUS
  <2> QED
    BY <2>1, <2>2, <1>1, EdgeCounts
<1> QED
  BY <1>3, <1>4

-----------------------------------------------------------------------------
LEMMA InitSorts == SortInit => SortInv
<1> SUFFICES ASSUME SortInit PROVE SortInv
  OBVIOUS
<1>1. SortTypeOK
  BY DEF SortInit, AnyPackage, SortTypeOK
<1>2. Placed = {} /\ DOMAIN loadOrder = {} /\ Len(loadOrder) = 0
  BY DEF SortInit, Placed
<1>3. LengthCounts
  BY <1>2, FS_EmptySet DEF LengthCounts
<1> QED
  BY <1>1, <1>2, <1>3
     DEF SortInit, SortInv, SortSafe, PlacedOnce, RespectsDependencies, CountsUnplaced, VerdictJust

LEMMA StepSorts == SortInv /\ [SortNext]_sortVars => SortInv'
<1> SUFFICES ASSUME SortInv, [SortNext]_sortVars PROVE SortInv'
  OBVIOUS
<1>0. /\ SortSafe /\ LengthCounts /\ SortTypeOK /\ (phase = "prime" => loadOrder = <<>>)
      /\ PlacedOnce /\ RespectsDependencies /\ CountsUnplaced /\ VerdictJust
  BY DEF SortInv, SortSafe
<1>1. CASE Prime
  <2>0. /\ phase = "prime" /\ phase' = "sort"
        /\ loadOrder = <<>> /\ UNCHANGED <<preload, public, loadOrder>>
        /\ incoming' = [n \in Nodes |-> Cardinality(Edges(n))]
        /\ heap' = {n \in Nodes : incoming'[n] = 0}
    BY <1>0, <1>1 DEF Prime
  <2>1. Placed = {} /\ Placed' = {}
    BY <2>0 DEF Placed
  <2>2. \A n \in Nodes : Cardinality(Edges(n)) \in Nat
    BY <1>0, EdgesFinite, FS_CardinalityType
  <2>3. SortTypeOK'
    BY <1>0, <2>0, <2>2 DEF SortTypeOK
  <2>4. \A n : Edges(n)' = Edges(n)
    BY <2>0 DEF Edges
  <2>5. \A n \in Nodes : EdgesFrom(n, Nodes \ Placed)' = Edges(n)
    BY <1>0, <2>1, <2>4, EdgesFinite DEF EdgesFrom
  <2>6. CountsUnplaced'
    BY <2>0, <2>1, <2>5 DEF CountsUnplaced
  <2>7. PlacedOnce' /\ RespectsDependencies' /\ LengthCounts' /\ VerdictJust'
    BY <1>0, <2>0, <2>1 DEF PlacedOnce, RespectsDependencies, LengthCounts, VerdictJust
  <2> QED
    BY <2>0, <2>3, <2>6, <2>7 DEF SortInv, SortSafe
<1>2. ASSUME NEW n \in Nodes, Place(n) PROVE SortInv'
  <2>1. phase' = "sort"
    BY <1>2 DEF Place
  <2>2. VerdictJust'
    BY <2>1 DEF VerdictJust
  <2> QED
    BY <1>0, <1>2, <2>1, <2>2, PlaceKeepsCounts, PlaceKeepsOrder DEF SortInv, SortSafe
<1>3. CASE Finish
  <2>0. /\ phase = "sort" /\ heap = {}
        /\ phase' = IF Len(loadOrder) = Cardinality(Nodes) THEN "sorted" ELSE "cyclic"
        /\ UNCHANGED <<preload, public, incoming, heap, loadOrder>>
    BY <1>3 DEF Finish
  <2>1. /\ Placed' = Placed
        /\ \A n : Edges(n)' = Edges(n) /\ Needs(n)' = Needs(n)
        /\ \A n, S : EdgesFrom(n, S)' = EdgesFrom(n, S)'
    BY <2>0 DEF Placed, Edges, Needs
  <2>2. SortTypeOK' /\ PlacedOnce' /\ RespectsDependencies' /\ LengthCounts'
    BY <1>0, <2>0, <2>1 DEF SortTypeOK, PlacedOnce, RespectsDependencies, LengthCounts
  <2>3. CountsUnplaced'
    BY <1>0, <2>0, <2>1 DEF CountsUnplaced, EdgesFrom
  <2>4. VerdictJust'
    BY <1>0, <2>0, <2>1, EmptyHeap DEF VerdictJust
  <2> QED
    BY <2>0, <2>2, <2>3, <2>4 DEF SortInv, SortSafe
<1>4. CASE SortReturned \/ UNCHANGED sortVars
  <2>1. UNCHANGED <<preload, public, incoming, heap, loadOrder, phase>>
    BY <1>4 DEF SortReturned, sortVars
  <2>2. Placed' = Placed /\ \A n : Edges(n)' = Edges(n) /\ Needs(n)' = Needs(n)
    BY <2>1 DEF Placed, Edges, Needs
  <2>3. SortTypeOK' /\ PlacedOnce' /\ RespectsDependencies' /\ LengthCounts' /\ VerdictJust'
    BY <1>0, <2>1, <2>2
       DEF SortTypeOK, PlacedOnce, RespectsDependencies, LengthCounts, VerdictJust
  <2>4. CountsUnplaced'
    BY <1>0, <2>1, <2>2 DEF CountsUnplaced, EdgesFrom
  <2> QED
    BY <1>0, <2>1, <2>3, <2>4 DEF SortInv, SortSafe
<1> QED
  BY <1>1, <1>2, <1>3, <1>4 DEF SortNext

\* The inductive invariant holds in every state of every sort.
THEOREM SortSafety == SortSpec => []SortInv
<1>1. SortInit => SortInv
  BY InitSorts
<1>2. SortInv /\ [SortNext]_sortVars => SortInv'
  BY StepSorts
<1> QED
  BY <1>1, <1>2, PTL DEF SortSpec

\* Counts stay natural numbers: incoming_edge_count never underflows.
THEOREM SortTypeCorrect == SortSpec => []SortTypeOK
<1>1. SortInv => SortTypeOK
  BY DEF SortInv, SortSafe
<1> QED
  BY <1>1, SortSafety, PTL

\* Whatever the dependencies, a command is placed after all it depends on.
THEOREM DependenciesFirst == SortSpec => []RespectsDependencies
<1>1. SortInv => RespectsDependencies
  BY DEF SortInv, SortSafe
<1> QED
  BY <1>1, SortSafety, PTL

\* A returned order is complete; only a cyclic package is refused.
THEOREM VerdictCorrect == SortSpec => []VerdictJust
<1>1. SortInv => VerdictJust
  BY DEF SortInv, SortSafe
<1> QED
  BY <1>1, SortSafety, PTL

-----------------------------------------------------------------------------
\* A node that could be placed is on the heap.
LEMMA ReadyIsOnHeap ==
  ASSUME SortSafe, phase = "sort", NEW n \in Nodes \ Placed, Needs(n) \subseteq Placed
  PROVE  n \in heap
<1>1. SortTypeOK /\ CountsUnplaced
  BY DEF SortSafe
<1>2. Nodes \ Placed \in SUBSET Nodes /\ Needs(n) \cap (Nodes \ Placed) = {}
  OBVIOUS
<1>3. Cardinality(EdgesFrom(n, Nodes \ Placed)) = 0
  BY <1>1, <1>2, EdgeCounts
<1> QED
  BY <1>1, <1>3 DEF CountsUnplaced

LEMMA StepCanonical ==
  SortInv /\ OrderCanonical /\ [SortNext]_sortVars => OrderCanonical'
<1> SUFFICES ASSUME SortInv, OrderCanonical, [SortNext]_sortVars
             PROVE  OrderCanonical'
  OBVIOUS
<1>0. SortSafe /\ SortTypeOK
  BY DEF SortInv, SortSafe
<1>1. CASE UNCHANGED <<preload, public, loadOrder>>
  BY <1>1 DEF OrderCanonical, PlacedBefore, Needs, Edges, Precedes
<1>2. ASSUME NEW n \in Nodes, Place(n) PROVE OrderCanonical'
  <2>0. /\ phase = "sort" /\ n \in heap
        /\ \A m \in heap \ {n} : Precedes(n, m)
        /\ loadOrder' = Append(loadOrder, n) /\ preload' = preload /\ public' = public
    BY <1>2 DEF Place
  <2>1. /\ DOMAIN loadOrder' = DOMAIN loadOrder \cup {Len(loadOrder) + 1}
        /\ \A i \in DOMAIN loadOrder : loadOrder'[i] = loadOrder[i]
        /\ loadOrder'[Len(loadOrder) + 1] = n
        /\ DOMAIN loadOrder = 1..Len(loadOrder)
        /\ Len(loadOrder) \in Nat
    BY <1>0, <2>0, Placing
  <2>2. \A m : Needs(m)' = Needs(m)
    BY <2>0 DEF Needs, Edges
  <2>3. \A i \in DOMAIN loadOrder' : PlacedBefore(i)' = PlacedBefore(i)
    <3> SUFFICES ASSUME NEW i \in DOMAIN loadOrder'
                 PROVE  PlacedBefore(i)' = PlacedBefore(i)
      OBVIOUS
    <3>1. 1..(i - 1) \subseteq DOMAIN loadOrder
      BY <2>1
    <3> QED
      BY <3>1, <2>1 DEF PlacedBefore
  <2>4. PlacedBefore(Len(loadOrder) + 1) = Placed
    <3>1. 1..((Len(loadOrder) + 1) - 1) = DOMAIN loadOrder
      BY <2>1
    <3> QED
      BY <3>1 DEF Placed, PlacedBefore
  <2>5. ASSUME NEW i \in DOMAIN loadOrder, NEW m \in Nodes \ (PlacedBefore(i) \cup {loadOrder[i]}),
               Needs(m) \subseteq PlacedBefore(i)
        PROVE  Precedes(loadOrder[i], m)
    BY <2>5 DEF OrderCanonical
  <2>6. ASSUME NEW m \in Nodes \ (Placed \cup {n}), Needs(m) \subseteq Placed
        PROVE  Precedes(n, m)
    <3>1. m \in heap
      BY <1>0, <2>0, <2>6, ReadyIsOnHeap
    <3> QED
      BY <2>0, <3>1
  <2>7. ASSUME NEW i \in DOMAIN loadOrder',
               NEW m \in Nodes \ (PlacedBefore(i) \cup {loadOrder'[i]}),
               Needs(m) \subseteq PlacedBefore(i)
        PROVE  Precedes(loadOrder'[i], m)
    <3>1. CASE i \in DOMAIN loadOrder
      BY <3>1, <2>1, <2>5, <2>7
    <3>2. CASE i = Len(loadOrder) + 1
      BY <3>2, <2>1, <2>4, <2>6, <2>7
    <3> QED
      BY <3>1, <3>2, <2>1
  <2>8. \A i \in DOMAIN loadOrder' :
          \A m \in Nodes \ (PlacedBefore(i)' \cup {loadOrder'[i]}) :
            Needs(m)' \subseteq PlacedBefore(i)' => Precedes(loadOrder'[i], m)
    BY <2>2, <2>3, <2>7
  <2> QED
    BY <2>0, <2>8 DEF OrderCanonical, Precedes
<1> QED
  BY <1>1, <1>2 DEF SortNext, Prime, Finish, SortReturned, sortVars

\* The order of a package's commands is determined by its dependencies: at each
\* position stands the first, by priority, of the commands that could stand there.
THEOREM OrderDetermined == SortSpec => []OrderCanonical
<1>1. SortInit => OrderCanonical
  BY DEF SortInit, OrderCanonical
<1>2. SortInv /\ OrderCanonical /\ [SortNext]_sortVars => OrderCanonical'
  BY StepCanonical
<1> QED
  BY <1>1, <1>2, SortSafety, PTL DEF SortSpec

-----------------------------------------------------------------------------
\* Each step of the sort is a step its promise allows, or none.
THEOREM SortImplementsPromise == SortSpec => SortsInLoadOrder
<1>1. SortInit => Promise!Init
  <2> SUFFICES ASSUME SortInit PROVE Promise!Init
    OBVIOUS
  <2>1. SortTypeOK
    BY DEF SortInit, AnyPackage, SortTypeOK
  <2>2. \A n \in Nodes : Needs(n) \in SUBSET Nodes
    BY <2>1, EdgesFinite
  <2>3. [n \in Nodes |-> Needs(n)] \in [Nodes -> SUBSET Nodes]
    BY <2>2, Zenon
  <2>4. phase = "prime" /\ loadOrder = <<>>
    BY DEF SortInit
  <2> QED
    BY <2>3, <2>4 DEF Promise!Init
<1>2. SortInv /\ [SortNext]_sortVars => [Promise!Next]_Promise!vars
  <2> SUFFICES ASSUME SortInv, [SortNext]_sortVars PROVE [Promise!Next]_Promise!vars
    OBVIOUS
  <2>0. SortSafe /\ SortTypeOK /\ LengthCounts /\ Promise!Listed = Placed
    BY DEF SortInv, SortSafe, Promise!Listed, Placed
  <2>1. CASE Prime
    <3>1. phase = "prime" /\ phase' = "sort" /\ UNCHANGED <<preload, public, loadOrder>>
      BY <2>1 DEF Prime
    <3> QED
      BY <3>1 DEF Promise!vars, Needs, Edges
  <2>2. ASSUME NEW n \in Nodes, Place(n) PROVE Promise!List(n)
    <3>1. /\ phase = "sort" /\ phase' = "sort" /\ n \in heap
          /\ loadOrder' = Append(loadOrder, n) /\ preload' = preload
      BY <2>2 DEF Place
    <3>2. n \in Nodes \ Placed /\ Needs(n) \subseteq Placed
      BY <2>0, <3>1, HeadIsReady
    <3>3. [m \in Nodes |-> Needs(m)]' = [m \in Nodes |-> Needs(m)]
      BY <3>1 DEF Needs, Edges
    <3> QED
      BY <2>0, <3>1, <3>2, <3>3 DEF Promise!List
  <2>3. CASE Finish
    <3>1. /\ phase = "sort" /\ heap = {}
          /\ phase' = IF Len(loadOrder) = Cardinality(Nodes) THEN "sorted" ELSE "cyclic"
          /\ preload' = preload /\ loadOrder' = loadOrder
      BY <2>3 DEF Finish
    <3>2. [m \in Nodes |-> Needs(m)]' = [m \in Nodes |-> Needs(m)]
      BY <3>1 DEF Needs, Edges
    <3>3. /\ Len(loadOrder) = Cardinality(Nodes) <=> Placed = Nodes
          /\ \A n \in Nodes \ Placed : Needs(n) \cap (Nodes \ Placed) # {}
      BY <2>0, <3>1, EmptyHeap
    <3>4. CASE Placed = Nodes
      BY <2>0, <3>1, <3>2, <3>3, <3>4 DEF Promise!Complete, Promise!Next
    <3>5. CASE Placed # Nodes
      <4>1. \A n \in Nodes \ Placed : ~(Needs(n) \subseteq Placed)
        BY <3>3
      <4>2. Promise!GiveUp
        BY <2>0, <3>1, <3>2, <3>3, <3>5, <4>1 DEF Promise!GiveUp
      <4> QED
        BY <4>2 DEF Promise!Next
    <3> QED
      BY <3>4, <3>5
  <2>4. CASE SortReturned \/ UNCHANGED sortVars
    BY <2>4 DEF SortReturned, sortVars, Promise!vars, Needs, Edges
  <2> QED
    BY <2>1, <2>2, <2>3, <2>4 DEF SortNext, Promise!Next
<1> QED
  BY <1>1, <1>2, SortSafety, PTL DEF SortSpec, SortsInLoadOrder, Promise!Spec

HIDE GraphAssumption

-----------------------------------------------------------------------------
(* The bundles.                                                            *)

\* The variables that the bundles are built from, and their types.
Header == [offset : Nat, first : Nat, count : Nat]

TypeOK ==
  /\ preload \in [Nodes -> SUBSET ((Exports \cup Imports) \X Commands)]
  /\ public \subseteq Exports
  /\ size \in [Exports -> Nat]
  /\ order \in Seq(Nodes)
  /\ pc \in {"sort", "place", "arcs", "write", "map", "rebuild", "done", "refused", "bailed"}
  /\ headers \in Seq(Header)
  /\ entries \in Seq(Nodes)
  /\ open \in Nat
  /\ pc \in {"sort", "place"} => offset \in Nat
  /\ bundleOf \in [Nodes -> Nat]

\* Every command that is listed is listed once and after those it depends on;
\* once the sort has returned an order, every command is listed.
SortedSoFar ==
  /\ \A i, j \in DOMAIN order : order[i] = order[j] => i = j
  /\ \A i \in DOMAIN order : \A m \in Needs(order[i]) :
       \E j \in DOMAIN order : j < i /\ order[j] = m
  /\ pc \notin {"sort", "refused"} => \A n \in Nodes : \E i \in DOMAIN order : order[i] = n

\* The commands placed are the first ones of the load order: none before it is
\* complete, all of it before anything is done with the bundles.
PlacedSoFar ==
  /\ Len(entries) <= Len(order)
  /\ \A i \in DOMAIN entries : entries[i] = order[i]
  /\ pc \in {"sort", "refused"} => entries = <<>>
  /\ pc \notin {"sort", "refused", "place"} => Len(entries) = Len(order)

\* The bundles cut what is placed into pieces, with the open one last, and every
\* command is in the bundle it is mapped to.
CutSoFar ==
  /\ EndOf(Len(headers)) = Len(entries)
  /\ \A b \in DOMAIN headers :
       /\ headers[b].first = EndOf(b - 1)
       /\ headers[b].count > 0
       /\ EndOf(b) <= Len(entries)
       /\ \A i \in (headers[b].first + 1)..EndOf(b) :
            /\ bundleOf[entries[i]] = b
            /\ entries[i][1] \in public => i = EndOf(b)
  /\ open \in {0, Len(headers)}
  /\ open # 0 => entries[Len(entries)][1] \notin public

\* A later command is in the same bundle or in a later one.
Ascending ==
  /\ \A i \in DOMAIN entries : bundleOf[entries[i]] \in DOMAIN headers
  /\ \A i, j \in DOMAIN entries : i < j => bundleOf[entries[i]] <= bundleOf[entries[j]]

\* The arcs are those between the bundles of commands that need each other.
ArcsSoFar ==
  internal =
    IF BundlesBuilt
    THEN {a \in {<<bundleOf[m], bundleOf[n]>> : m \in Nodes, n \in Nodes} :
            /\ a[1] # a[2]
            /\ \E n \in Nodes : \E m \in Needs(n) : a = <<bundleOf[m], bundleOf[n]>>}
    ELSE {}

\* The inductive invariant.
IInv == TypeOK /\ SortedSoFar /\ PlacedSoFar /\ CutSoFar /\ Ascending /\ ArcsSoFar

-----------------------------------------------------------------------------
\* What the provers need to know of the variables' types.
LEMMA Types ==
  ASSUME TypeOK
  PROVE  /\ Len(order) \in Nat /\ DOMAIN order = 1..Len(order)
         /\ Len(entries) \in Nat /\ DOMAIN entries = 1..Len(entries)
         /\ Len(headers) \in Nat /\ DOMAIN headers = 1..Len(headers)
         /\ \A i \in DOMAIN order : order[i] \in Nodes
         /\ \A i \in DOMAIN entries : entries[i] \in Nodes
         /\ \A b \in DOMAIN headers : headers[b].first \in Nat /\ headers[b].count \in Nat
<1>1. order \in Seq(Nodes) /\ entries \in Seq(Nodes) /\ headers \in Seq(Header)
  BY DEF TypeOK
<1>2. \A b \in DOMAIN headers : headers[b] \in Header
  BY <1>1
<1> QED
  BY <1>1, <1>2 DEF Header

\* What a command depends on are commands.
LEMMA NeedsAreNodes ==
  ASSUME TypeOK, NEW n \in Nodes
  PROVE  Needs(n) \subseteq Nodes
<1>1. n[1] \in Exports /\ <<n[1], "Create">> \in Nodes
  BY DEF Nodes, Commands
<1> QED
  BY <1>1 DEF Needs, Edges

\* The arcs depend on the package and the mapping of its commands only.
LEMMA SameArcs ==
  ASSUME ArcsSoFar, UNCHANGED <<preload, bundleOf, internal>>, BundlesBuilt' <=> BundlesBuilt
  PROVE  ArcsSoFar'
  BY DEF ArcsSoFar, Needs, Edges

\* Steps that leave the order and the bundles alone keep the parts about them.
LEMMA SameBundles ==
  ASSUME IInv, UNCHANGED <<input, order, bundles>>,
         pc \notin {"sort", "refused"}, pc' \notin {"sort", "refused"},
         pc' = "place" => pc = "place",
         pc = "place" => pc' = "place" \/ Len(entries) = Len(order)
  PROVE  SortedSoFar' /\ PlacedSoFar' /\ CutSoFar' /\ Ascending'
<1>1. /\ preload' = preload /\ public' = public /\ order' = order
      /\ headers' = headers /\ entries' = entries /\ open' = open /\ bundleOf' = bundleOf
  BY DEF input, bundles
<1>2. SortedSoFar'
  BY <1>1 DEF IInv, SortedSoFar, Needs, Edges
<1>3. PlacedSoFar'
  BY <1>1 DEF IInv, PlacedSoFar
<1>4. CutSoFar'
  BY <1>1 DEF IInv, CutSoFar, EndOf
<1>5. Ascending'
  BY <1>1 DEF IInv, Ascending
<1> QED
  BY <1>2, <1>3, <1>4, <1>5

-----------------------------------------------------------------------------
LEMMA InitBundles == Init => IInv
<1> SUFFICES ASSUME Init PROVE IInv
  OBVIOUS
<1>1. TypeOK
  <2>1. /\ preload \in [Nodes -> SUBSET ((Exports \cup Imports) \X Commands)]
        /\ size \in [Exports -> Nat]
    BY GraphAssumption, FileAssumption DEF Init, AnyPackage
  <2>2. /\ public \subseteq Exports /\ pc = "sort" /\ open = 0 /\ offset = 0
        /\ bundleOf = [n \in Nodes |-> 0] /\ order = <<>> /\ headers = <<>> /\ entries = <<>>
    BY DEF Init, AnyPackage
  <2>3. <<>> \in Seq(Nodes) /\ <<>> \in Seq(Header)
    OBVIOUS
  <2>4. bundleOf \in [Nodes -> Nat]
    BY <2>2
  <2> QED
    BY <2>1, <2>2, <2>3, <2>4 DEF TypeOK
<1>2. order = <<>> /\ headers = <<>> /\ entries = <<>> /\ open = 0 /\ pc = "sort" /\ internal = {}
  BY DEF Init
<1>3. SortedSoFar /\ PlacedSoFar /\ Ascending
  BY <1>2 DEF SortedSoFar, PlacedSoFar, Ascending
<1>4. CutSoFar
  BY <1>2 DEF CutSoFar, EndOf
<1>5. ArcsSoFar
  BY <1>2 DEF ArcsSoFar, BundlesBuilt
<1> QED
  BY <1>1, <1>3, <1>4, <1>5 DEF IInv

\* Listing a command.
LEMMA SortKeeps == IInv /\ Sort => IInv'
<1> SUFFICES ASSUME IInv, Sort PROVE IInv'
  OBVIOUS
<1>1. /\ TypeOK /\ SortedSoFar /\ PlacedSoFar /\ CutSoFar /\ Ascending /\ ArcsSoFar
      /\ pc = "sort" /\ entries = <<>>
  BY DEF IInv, PlacedSoFar, Sort
<1>2. /\ preload' = preload /\ public' = public /\ size' = size
      /\ headers' = headers /\ entries' = entries /\ open' = open /\ bundleOf' = bundleOf
      /\ offset' = offset /\ internal' = internal
  BY DEF Sort, input, bundles
<1>3. CutSoFar' /\ Ascending'
  BY <1>1, <1>2 DEF CutSoFar, EndOf, Ascending
<1>4. \A n : Needs(n)' = Needs(n)
  BY <1>2 DEF Needs, Edges
<1>5. ASSUME pc' = "sort", NEW n \in Nodes, Sorting!List(n)
      PROVE  TypeOK' /\ SortedSoFar' /\ PlacedSoFar' /\ ArcsSoFar'
  <2>1. /\ \A i \in DOMAIN order : order[i] # n
        /\ \A m \in Needs(n) : \E i \in DOMAIN order : order[i] = m
        /\ order' = Append(order, n)
    BY <1>5 DEF Sorting!List, Sorting!Listed
  <2>2. /\ order' \in Seq(Nodes) /\ Len(order') = Len(order) + 1
        /\ DOMAIN order' = DOMAIN order \cup {Len(order) + 1}
        /\ \A i \in DOMAIN order : order'[i] = order[i] /\ i < Len(order) + 1
        /\ order'[Len(order) + 1] = n
        /\ DOMAIN order = 1..Len(order) /\ Len(order) \in Nat
    BY <1>1, <2>1 DEF TypeOK
  <2>3. TypeOK'
    BY <1>1, <1>2, <1>5, <2>2 DEF TypeOK
  <2>4. \A i, j \in DOMAIN order' : order'[i] = order'[j] => i = j
    BY <1>1, <2>1, <2>2 DEF SortedSoFar
  <2>5. \A i \in DOMAIN order' : \A m \in Needs(order'[i]) :
          \E j \in DOMAIN order' : j < i /\ order'[j] = m
    <3> SUFFICES ASSUME NEW i \in DOMAIN order', NEW m \in Needs(order'[i])
                 PROVE  \E j \in DOMAIN order' : j < i /\ order'[j] = m
      OBVIOUS
    <3>1. CASE i \in DOMAIN order
      <4>1. PICK j \in DOMAIN order : j < i /\ order[j] = m
        BY <1>1, <2>2, <3>1 DEF SortedSoFar
      <4> QED
        BY <2>2, <4>1
    <3>2. CASE i = Len(order) + 1
      <4>1. PICK j \in DOMAIN order : order[j] = m
        BY <2>1, <2>2, <3>2
      <4> QED
        BY <2>2, <3>2, <4>1
    <3> QED
      BY <2>2, <3>1, <3>2
  <2>6. SortedSoFar'
    BY <1>4, <1>5, <2>4, <2>5 DEF SortedSoFar
  <2>7. PlacedSoFar'
    BY <1>1, <1>2, <1>5, <2>2 DEF PlacedSoFar
  <2>8. ArcsSoFar'
    BY <1>1, <1>2, <1>5 DEF ArcsSoFar, BundlesBuilt
  <2> QED
    BY <2>3, <2>6, <2>7, <2>8
<1>6. ASSUME order' = order, pc' \in {"place", "refused"}, pc' = "place" => Sorting!Complete
      PROVE  TypeOK' /\ SortedSoFar' /\ PlacedSoFar' /\ ArcsSoFar'
  <2>1. TypeOK'
    BY <1>1, <1>2, <1>6 DEF TypeOK
  <2>2. pc' = "place" => \A n \in Nodes : \E i \in DOMAIN order : order[i] = n
    BY <1>6 DEF Sorting!Complete, Sorting!Listed
  <2>3. SortedSoFar'
    BY <1>1, <1>4, <1>6, <2>2 DEF SortedSoFar
  <2>4. PlacedSoFar'
    BY <1>1, <1>2, <1>6 DEF PlacedSoFar
  <2>5. ArcsSoFar'
    BY <1>1, <1>2, <1>6 DEF ArcsSoFar, BundlesBuilt
  <2> QED
    BY <2>1, <2>3, <2>4, <2>5
<1> QED
  BY <1>3, <1>5, <1>6 DEF Sort, IInv

\* What appending an element to a sequence gives, and replacing the last one.
LEMMA Appended ==
  ASSUME NEW S, NEW s \in Seq(S), NEW x \in S
  PROVE  /\ Append(s, x) \in Seq(S)
         /\ Len(Append(s, x)) = Len(s) + 1
         /\ \A i \in 1..Len(s) : Append(s, x)[i] = s[i]
         /\ Append(s, x)[Len(s) + 1] = x
  OBVIOUS

LEMMA LastReplaced ==
  ASSUME NEW S, NEW s \in Seq(S), Len(s) # 0, NEW x \in S
  PROVE  /\ [s EXCEPT ![Len(s)] = x] \in Seq(S)
         /\ Len([s EXCEPT ![Len(s)] = x]) = Len(s)
         /\ \A i \in 1..(Len(s) - 1) : [s EXCEPT ![Len(s)] = x][i] = s[i]
         /\ [s EXCEPT ![Len(s)] = x][Len(s)] = x
  OBVIOUS

\* Placing a command: it becomes the last of the open bundle, or the first of
\* a new one.  N commands are placed, n is the next and b its bundle.
LEMMA PlaceKeeps == IInv /\ PlaceCommand => IInv'
<1> SUFFICES ASSUME IInv, PlaceCommand,
                    NEW N, N = Len(entries), NEW n, n = order[N + 1],
                    NEW H, H = Len(headers),
                    NEW b, b = IF open = 0 THEN H + 1 ELSE open
             PROVE  IInv'
  OBVIOUS
<1>1. /\ TypeOK /\ SortedSoFar /\ PlacedSoFar /\ CutSoFar /\ Ascending /\ ArcsSoFar
      /\ pc = "place" /\ pc' = "place" /\ N < Len(order)
  BY DEF IInv, PlaceCommand
<1>2. /\ preload' = preload /\ public' = public /\ size' = size /\ order' = order
      /\ internal' = internal /\ offset' = offset + DataSize(n)
  BY DEF PlaceCommand, input
<1>3. AddTo(b, n) /\ open' = IF n[1] \in public THEN 0 ELSE b
  BY DEF PlaceCommand, Closes
<1>4. N \in Nat /\ H \in Nat
  BY <1>1, Types
<1>5. DOMAIN entries = 1..N
  BY <1>1, Types
<1>6. DOMAIN headers = 1..H
  BY <1>1, Types
<1>7. N + 1 \in DOMAIN order /\ n \in Nodes
  BY <1>1, <1>4, Types
<1>8. open \in {0, H}
  BY <1>1 DEF CutSoFar
<1>9. b \in Nat /\ b # 0 /\ b >= H /\ H \in {b, b - 1}
  BY <1>4, <1>8
<1>10. open # 0 => b = H
  BY <1>8
<1>11. open = 0 => b = H + 1
  OBVIOUS
<1>12. /\ entries' \in Seq(Nodes) /\ Len(entries') = N + 1
       /\ \A i \in 1..N : entries'[i] = entries[i]
       /\ entries'[N + 1] = n
  <2>1. entries \in Seq(Nodes) /\ entries' = Append(entries, n)
    BY <1>1, <1>3 DEF TypeOK, AddTo
  <2> QED
    BY <1>7, <2>1, Appended
<1>13. DOMAIN entries' = 1..(N + 1)
  BY <1>12
<1>14. \A i \in 1..N : entries[i] # n
  <2> SUFFICES ASSUME NEW i \in 1..N, entries[i] = n PROVE FALSE
    OBVIOUS
  <2>1. i \in DOMAIN order /\ order[i] = n
    BY <1>1, <1>4, <1>5, Types DEF PlacedSoFar
  <2>2. i = N + 1
    BY <1>1, <1>7, <2>1 DEF SortedSoFar
  <2> QED
    BY <1>4, <2>2
<1>15. /\ bundleOf' \in [Nodes -> Nat] /\ bundleOf'[n] = b
       /\ \A i \in 1..N : bundleOf'[entries[i]] = bundleOf[entries[i]]
  <2>1. bundleOf \in [Nodes -> Nat] /\ bundleOf' = [bundleOf EXCEPT ![n] = b]
    BY <1>1, <1>3 DEF AddTo, TypeOK
  <2>2. \A i \in 1..N : entries[i] \in Nodes
    BY <1>1, <1>5, Types
  <2> QED
    BY <1>7, <1>9, <1>14, <2>1, <2>2
<1>16. /\ headers' \in Seq(Header) /\ Len(headers') = b
       /\ \A c \in 1..(b - 1) : headers'[c] = headers[c]
       /\ headers'[b].count \in Nat /\ headers'[b].count > 0 /\ headers'[b].first \in Nat
       /\ headers'[b].first + headers'[b].count = N + 1
       /\ headers'[b].first = IF open = 0 THEN N ELSE headers[b].first
  <2>1. headers \in Seq(Header) /\ offset \in Nat
    BY <1>1 DEF TypeOK
  <2>2. CASE open = 0
    <3>1. PICK h : h = [offset |-> offset, first |-> N, count |-> 1]
      OBVIOUS
    <3>2. headers' = Append(headers, h) /\ b = Len(headers) + 1
      BY <1>3, <1>4, <1>11, <2>2, <3>1 DEF AddTo
    <3>3. h \in Header /\ h.first = N /\ h.count = 1
      BY <1>4, <2>1, <3>1 DEF Header
    <3>4. /\ headers' \in Seq(Header) /\ Len(headers') = b /\ headers'[b] = h
          /\ \A c \in 1..Len(headers) : headers'[c] = headers[c]
      BY <2>1, <3>2, <3>3, Appended
    <3>5. b - 1 = Len(headers)
      BY <1>4, <1>11, <2>2
    <3> QED
      BY <1>4, <2>2, <3>3, <3>4, <3>5
  <2>3. CASE open # 0
    <3>1. b = Len(headers) /\ b \in DOMAIN headers
      BY <1>6, <1>9, <1>10, <2>3
    <3>2. headers[b] \in Header
      BY <2>1, <3>1
    <3>3. PICK h : h = [headers[b] EXCEPT !.count = @ + 1]
      OBVIOUS
    <3>4. headers' = [headers EXCEPT ![b] = h]
      BY <1>3, <1>9, <3>1, <3>3 DEF AddTo
    <3>5. /\ h \in Header /\ h.first = headers[b].first /\ h.count = headers[b].count + 1
          /\ headers[b].first \in Nat /\ headers[b].count \in Nat
      BY <3>2, <3>3, SMTT(60) DEF Header
    <3>6. headers[b].first + headers[b].count = N
      BY <1>1, <1>9, <3>1 DEF CutSoFar, EndOf
    <3>7. /\ headers' \in Seq(Header) /\ Len(headers') = b /\ headers'[b] = h
          /\ \A c \in 1..(b - 1) : headers'[c] = headers[c]
      BY <1>9, <2>1, <3>1, <3>4, <3>5, LastReplaced
    <3>8. h.count \in Nat /\ h.count > 0 /\ h.first + h.count = N + 1
      <4>1. \A f, c \in Nat : f + c = N => c + 1 \in Nat /\ c + 1 > 0 /\ f + (c + 1) = N + 1
        BY <1>4
      <4>2. headers[b].first \in Nat /\ headers[b].count \in Nat
        BY <3>5
      <4>3. /\ headers[b].count + 1 \in Nat /\ headers[b].count + 1 > 0
            /\ headers[b].first + (headers[b].count + 1) = N + 1
        BY <3>6, <4>1, <4>2
      <4>4. h.first = headers[b].first /\ h.count = headers[b].count + 1
        BY <3>5
      <4> QED
        BY <4>3, <4>4
    <3> QED
      BY <2>3, <3>5, <3>7, <3>8
  <2> QED
    BY <2>2, <2>3
<1>17. TypeOK'
  <2>1. DataSize(n) \in Nat
    <3>1. n[1] \in Exports /\ size \in [Exports -> Nat]
      BY <1>1, <1>7 DEF Nodes, TypeOK
    <3> QED
      BY <3>1 DEF DataSize
  <2>2. offset' \in Nat
    <3>1. offset \in Nat
      BY <1>1 DEF TypeOK
    <3> QED
      BY <1>2, <2>1, <3>1
  <2>3. open' \in Nat
    BY <1>3, <1>9
  <2> QED
    BY <1>1, <1>2, <1>12, <1>15, <1>16, <2>2, <2>3 DEF TypeOK
<1>18. SortedSoFar'
  BY <1>1, <1>2 DEF SortedSoFar, Needs, Edges
<1>19. PlacedSoFar'
  <2>1. Len(entries') <= Len(order) /\ Len(order) \in Nat
    BY <1>1, <1>4, <1>12, Types
  <2>2. \A i \in 1..(N + 1) : entries'[i] = order[i]
    <3> SUFFICES ASSUME NEW i \in 1..(N + 1) PROVE entries'[i] = order[i]
      OBVIOUS
    <3>1. CASE i = N + 1
      BY <1>12, <3>1
    <3>2. CASE i # N + 1
      <4>1. i \in 1..N
        BY <1>4, <3>2
      <4> QED
        BY <1>1, <1>5, <1>12, <4>1 DEF PlacedSoFar
    <3> QED
      BY <3>1, <3>2
  <2> QED
    BY <1>1, <1>2, <1>13, <2>1, <2>2 DEF PlacedSoFar
<1>20. ArcsSoFar'
  BY <1>1, <1>2 DEF ArcsSoFar, BundlesBuilt
<1>21. \A i \in 1..(N + 1) : i \in 1..N \/ i = N + 1
  BY <1>4
<1>22. Ascending'
  <2>1. \A i \in 1..N : bundleOf[entries[i]] \in 1..H
    BY <1>1, <1>5, <1>6 DEF Ascending
  <2>2. \A i \in 1..N : bundleOf[entries[i]] \in 1..b /\ bundleOf[entries[i]] <= b
    BY <1>4, <1>9, <2>1
  <2>3. \A i \in 1..(N + 1) : bundleOf'[entries'[i]] \in 1..b
    <3>1. b \in 1..b
      BY <1>9
    <3> QED
      BY <1>12, <1>15, <1>21, <2>2, <3>1, SMTT(60)
  <2>4. \A i, j \in 1..(N + 1) : i < j => bundleOf'[entries'[i]] <= bundleOf'[entries'[j]]
    <3> SUFFICES ASSUME NEW i \in 1..(N + 1), NEW j \in 1..(N + 1), i < j
                 PROVE  bundleOf'[entries'[i]] <= bundleOf'[entries'[j]]
      OBVIOUS
    <3>1. i \in 1..N
      BY <1>4
    <3>2. CASE j \in 1..N
      BY <1>1, <1>5, <1>12, <1>15, <3>1, <3>2, ZenonT(60) DEF Ascending
    <3>3. CASE j = N + 1
      BY <1>12, <1>15, <2>2, <3>1, <3>3, ZenonT(60)
    <3> QED
      BY <1>21, <3>2, <3>3
  <2>5. DOMAIN headers' = 1..b
    BY <1>16
  <2> QED
    BY <1>13, <2>3, <2>4, <2>5 DEF Ascending
<1>23. CutSoFar'
  <2>1. DOMAIN headers' = 1..b
    BY <1>16
  <2>2. \A c \in 1..(b - 1) : c \in 1..H
    BY <1>4, <1>9
  <2>3. \A c \in 0..(b - 1) : EndOf(c)' = EndOf(c)
    <3> SUFFICES ASSUME NEW c \in 0..(b - 1) PROVE EndOf(c)' = EndOf(c)
      OBVIOUS
    <3>1. c = 0 \/ c \in 1..(b - 1)
      BY <1>9
    <3> QED
      BY <1>16, <3>1 DEF EndOf
  <2>4. EndOf(b)' = N + 1
    BY <1>9, <1>16 DEF EndOf
  <2>5. headers'[b].first = EndOf(b - 1)'
    <3>1. b - 1 \in 0..(b - 1)
      BY <1>9
    <3>2. CASE open = 0
      <4>1. b - 1 = H /\ EndOf(H) = N
        BY <1>1, <1>4, <1>11, <3>2 DEF CutSoFar
      <4> QED
        BY <1>16, <2>3, <3>1, <3>2, <4>1
    <3>3. CASE open # 0
      <4>1. b \in DOMAIN headers
        BY <1>6, <1>9, <1>10, <3>3
      <4>2. headers[b].first = EndOf(b - 1)
        BY <1>1, <4>1 DEF CutSoFar
      <4> QED
        BY <1>16, <2>3, <3>1, <3>3, <4>2
    <3> QED
      BY <3>2, <3>3
  <2>6. ASSUME NEW i \in (headers'[b].first + 1)..(N + 1)
        PROVE  /\ bundleOf'[entries'[i]] = b
               /\ entries'[i][1] \in public => i = N + 1
    <3>1. CASE i = N + 1
      BY <1>12, <1>15, <3>1
    <3>2. CASE i # N + 1
      <4>1. headers'[b].first \in Nat /\ i \in 1..N
        BY <1>4, <1>16, <3>2
      <4>2. open # 0
        BY <1>4, <1>16, <3>2
      <4>3. b = H /\ b \in DOMAIN headers /\ headers'[b].first = headers[b].first
        BY <1>6, <1>9, <1>10, <1>16, <4>2
      <4>4. EndOf(b) = N /\ entries[N][1] \notin public
        BY <1>1, <4>2, <4>3 DEF CutSoFar
      <4>5. i \in (headers[b].first + 1)..EndOf(b)
        BY <1>4, <3>2, <4>1, <4>3, <4>4
      <4>6. bundleOf[entries[i]] = b /\ (entries[i][1] \in public => i = N)
        BY <1>1, <4>3, <4>4, <4>5 DEF CutSoFar
      <4> QED
        BY <1>12, <1>15, <4>1, <4>4, <4>6
    <3> QED
      BY <3>1, <3>2
  <2>7. ASSUME NEW c \in 1..(b - 1)
        PROVE  /\ headers'[c].first = EndOf(c - 1)'
               /\ headers'[c].count > 0
               /\ EndOf(c)' <= N + 1
               /\ \A i \in (headers'[c].first + 1)..EndOf(c)' :
                    /\ bundleOf'[entries'[i]] = c
                    /\ entries'[i][1] \in public => i = EndOf(c)'
    <3>1. c \in DOMAIN headers /\ headers'[c] = headers[c]
      BY <1>6, <1>16, <2>2
    <3>2. EndOf(c)' = EndOf(c) /\ EndOf(c - 1)' = EndOf(c - 1)
      <4>1. c \in 0..(b - 1) /\ c - 1 \in 0..(b - 1)
        BY <1>9
      <4> QED
        BY <2>3, <4>1
    <3>3. headers[c].first \in Nat /\ headers[c].count \in Nat
      BY <1>1, <3>1, Types
    <3>4. headers[c].first = EndOf(c - 1) /\ headers[c].count > 0 /\ EndOf(c) <= N
      BY <1>1, <3>1 DEF CutSoFar
    <3>5. EndOf(c) = headers[c].first + headers[c].count
      BY <1>9 DEF EndOf
    <3>6. EndOf(c) <= N + 1
      BY <1>4, <3>3, <3>4, <3>5
    <3>7. ASSUME NEW i \in (headers[c].first + 1)..EndOf(c)
          PROVE  /\ bundleOf'[entries'[i]] = c
                 /\ entries'[i][1] \in public => i = EndOf(c)
      <4>1. bundleOf[entries[i]] = c /\ (entries[i][1] \in public => i = EndOf(c))
        BY <1>1, <3>1, <3>7 DEF CutSoFar
      <4>2. i \in 1..N
        BY <1>4, <3>3, <3>4, <3>5, <3>7, SMTT(60)
      <4> QED
        BY <1>12, <1>15, <4>1, <4>2
    <3> QED
      BY <3>1, <3>2, <3>4, <3>6, <3>7
  <2>8. open' \in {0, Len(headers')}
    BY <1>3, <1>16
  <2>9. open' # 0 => entries'[Len(entries')][1] \notin public'
    BY <1>2, <1>3, <1>12
  <2>10. EndOf(Len(headers))' = Len(entries')
    BY <1>12, <1>16, <2>4 DEF EndOf
  <2>11. \A c \in DOMAIN headers' :
           /\ headers'[c].first = EndOf(c - 1)'
           /\ headers'[c].count > 0
           /\ EndOf(c)' <= Len(entries')
           /\ \A i \in (headers'[c].first + 1)..EndOf(c)' :
                /\ bundleOf'[entries'[i]] = c
                /\ entries'[i][1] \in public' => i = EndOf(c)'
    <3> SUFFICES ASSUME NEW c \in 1..b
                 PROVE  /\ headers'[c].first = EndOf(c - 1)'
                        /\ headers'[c].count > 0
                        /\ EndOf(c)' <= N + 1
                        /\ \A i \in (headers'[c].first + 1)..EndOf(c)' :
                             /\ bundleOf'[entries'[i]] = c
                             /\ entries'[i][1] \in public => i = EndOf(c)'
      BY <1>2, <1>12, <2>1
    <3>1. CASE c = b
      <4>1. N + 1 <= N + 1
        BY <1>4
      <4> QED
        BY <1>16, <2>4, <2>5, <2>6, <3>1, <4>1
    <3>2. CASE c # b
      <4>1. c \in 1..(b - 1)
        BY <1>9, <3>2
      <4> QED
        BY <2>7, <4>1
    <3> QED
      BY <3>1, <3>2
  <2> QED
    BY <2>8, <2>9, <2>10, <2>11 DEF CutSoFar
<1> QED
  BY <1>17, <1>18, <1>19, <1>20, <1>22, <1>23 DEF IInv

-----------------------------------------------------------------------------
\* Recording the arcs, and every step after it.
LEMMA StepBundles == IInv /\ [Next]_vars => IInv'
<1> SUFFICES ASSUME IInv, [Next]_vars PROVE IInv'
  OBVIOUS
<1> USE DEF IInv
<1>1. CASE Sort
  BY <1>1, SortKeeps
<1>2. CASE PlaceCommand
  BY <1>2, PlaceKeeps
<1>3. CASE EndPlacing
  <2>1. /\ UNCHANGED <<input, order, bundles, internal>> /\ pc = "place" /\ pc' = "arcs"
        /\ Len(entries) = Len(order)
    BY <1>3 DEF EndPlacing
  <2>2. TypeOK'
    BY <2>1 DEF TypeOK, input, bundles
  <2>3. ArcsSoFar'
    BY <2>1, SameArcs DEF BundlesBuilt, input, bundles
  <2> QED
    BY <2>1, <2>2, <2>3, SameBundles
<1>4. CASE BuildArcs
  <2>1. /\ UNCHANGED <<input, order, bundles>> /\ pc = "arcs" /\ pc' = "write"
    BY <1>4 DEF BuildArcs
  <2>2. TypeOK'
    BY <2>1 DEF TypeOK, input, bundles
  <2>3. ArcsSoFar'
    BY <1>4, <2>1 DEF BuildArcs, ArcsSoFar, BundlesBuilt, Needs, Edges, input, bundles
  <2> QED
    BY <2>1, <2>2, <2>3, SameBundles
<1>5. ASSUME UNCHANGED <<input, order, bundles, internal>>,
             pc \in {"write", "map", "rebuild"},
             pc' \in {"write", "map", "rebuild", "done", "bailed"}
      PROVE  IInv'
  <2>1. TypeOK'
    BY <1>5 DEF TypeOK, input, bundles
  <2>2. ArcsSoFar'
    BY <1>5, SameArcs DEF BundlesBuilt, input, bundles
  <2> QED
    BY <1>5, <2>1, <2>2, SameBundles
<1>6. CASE StartBundle \/ WriteEntry \/ EndWriting
  BY <1>5, <1>6 DEF StartBundle, WriteEntry, EndWriting
<1>8. CASE (\E e \in Exports : LayOut(e)) \/ EndLayingOut
  BY <1>5, <1>8 DEF LayOut, EndLayingOut
<1>9. CASE StartReading \/ RebuildEntry \/ EndRebuilding
  BY <1>5, <1>9 DEF StartReading, RebuildEntry, EndRebuilding
<1>7. CASE UNCHANGED vars
  <2>1. /\ UNCHANGED <<preload, public, size, order, pc, headers, entries, open, bundleOf,
                       offset, internal>>
    BY <1>7 DEF vars, input, bundles
  <2>2. TypeOK' /\ PlacedSoFar' /\ Ascending'
    BY <2>1 DEF TypeOK, PlacedSoFar, Ascending
  <2>3. SortedSoFar' /\ CutSoFar'
    BY <2>1 DEF SortedSoFar, Needs, Edges, CutSoFar, EndOf
  <2>4. ArcsSoFar'
    BY <2>1, SameArcs DEF BundlesBuilt
  <2> QED
    BY <2>2, <2>3, <2>4
<1> QED
  BY <1>1, <1>2, <1>3, <1>4, <1>6, <1>7, <1>8, <1>9 DEF Next, Returned

\* The inductive invariant holds in every state of every conversion.
THEOREM BundlesSafety == Spec => []IInv
  BY InitBundles, StepBundles, PTL DEF Spec

-----------------------------------------------------------------------------
\* The commands of a bundle, by their place in the list.
LEMMA PieceOf ==
  ASSUME NEW S, NEW s \in Seq(S), NEW f \in Nat, NEW c \in Nat, f + c <= Len(s)
  PROVE  /\ Len(SubSeq(s, f + 1, f + c)) = c
         /\ \A i \in 1..c : SubSeq(s, f + 1, f + c)[i] = s[f + i]
<1>1. Len(s) \in Nat /\ DOMAIN s = 1..Len(s)
  OBVIOUS
<1>2. Len(SubSeq(s, f + 1, f + c)) = c
  BY <1>1
<1>3. ASSUME NEW i \in 1..c PROVE SubSeq(s, f + 1, f + c)[i] = s[f + i]
  BY <1>1, <1>3
<1> QED
  BY <1>2, <1>3

LEMMA CommandsAt ==
  ASSUME TypeOK, CutSoFar, NEW b \in DOMAIN headers
  PROVE  /\ CommandsOf(headers[b]) \in Seq(Nodes)
         /\ Len(CommandsOf(headers[b])) = headers[b].count
         /\ \A i \in 1..headers[b].count :
              /\ CommandsOf(headers[b])[i] = entries[headers[b].first + i]
              /\ headers[b].first + i \in (headers[b].first + 1)..EndOf(b)
<1>1. headers[b].first \in Nat /\ headers[b].count \in Nat /\ b # 0
  BY Types
<1>2. EndOf(b) = headers[b].first + headers[b].count /\ EndOf(b) <= Len(entries)
  BY <1>1 DEF CutSoFar, EndOf
<1>3. entries \in Seq(Nodes) /\ Len(entries) \in Nat
  BY DEF TypeOK
<1>4. CommandsOf(headers[b]) \in Seq(Nodes)
  <2>1. \A i \in (headers[b].first + 1)..(headers[b].first + headers[b].count) :
          i \in 1..Len(entries) /\ entries[i] \in Nodes
    BY <1>1, <1>2, <1>3
  <2> QED
    BY <1>1, <1>3, <2>1 DEF CommandsOf
<1>5. /\ Len(CommandsOf(headers[b])) = headers[b].count
      /\ \A i \in 1..headers[b].count : CommandsOf(headers[b])[i] = entries[headers[b].first + i]
  BY <1>1, <1>2, <1>3, PieceOf, ZenonT(60) DEF CommandsOf
<1>6. \A i \in 1..headers[b].count :
        headers[b].first + i \in (headers[b].first + 1)..EndOf(b)
  BY <1>1, <1>2
<1> QED
  BY <1>4, <1>5, <1>6

\* The bundles hold every command of the load order once and in order, and a
\* command on a public export ends its bundle.
THEOREM BundlesCorrect == Spec => []BundlesCutLoadOrder
<1>1. IInv => BundlesCutLoadOrder
  <2> SUFFICES ASSUME IInv, BundlesBuilt PROVE BundlesCutLoadOrder
    BY DEF BundlesCutLoadOrder
  <2>1. TypeOK /\ PlacedSoFar /\ CutSoFar /\ Len(entries) = Len(order)
    BY DEF IInv, PlacedSoFar, BundlesBuilt
  <2>2. entries = order
    <3>1. entries \in Seq(Nodes) /\ order \in Seq(Nodes)
      BY <2>1 DEF TypeOK
    <3> QED
      BY <2>1, <3>1 DEF PlacedSoFar
  <2>3. ASSUME NEW b \in DOMAIN headers
        PROVE  /\ headers[b].first = EndOf(b - 1)
               /\ CommandsOf(headers[b]) # <<>>
               /\ \A i \in DOMAIN CommandsOf(headers[b]) :
                    /\ bundleOf[CommandsOf(headers[b])[i]] = b
                    /\ CommandsOf(headers[b])[i][1] \in public => i = Len(CommandsOf(headers[b]))
    <3>1. b # 0 /\ headers[b].first \in Nat /\ headers[b].count \in Nat
      BY <2>1, Types
    <3>2. headers[b].first = EndOf(b - 1) /\ headers[b].count > 0
      BY <2>1 DEF CutSoFar
    <3>3. \A i \in (headers[b].first + 1)..EndOf(b) :
            /\ bundleOf[entries[i]] = b
            /\ entries[i][1] \in public => i = EndOf(b)
      BY <2>1 DEF CutSoFar
    <3>4. EndOf(b) = headers[b].first + headers[b].count
      BY <3>1 DEF EndOf
    <3>5. /\ CommandsOf(headers[b]) \in Seq(Nodes)
          /\ Len(CommandsOf(headers[b])) = headers[b].count
      BY <2>1, CommandsAt
    <3>6. DOMAIN CommandsOf(headers[b]) = 1..headers[b].count
      BY <3>5
    <3>7. CommandsOf(headers[b]) # <<>>
      BY <3>1, <3>2, <3>5
    <3>8. ASSUME NEW i \in 1..headers[b].count
          PROVE  /\ bundleOf[CommandsOf(headers[b])[i]] = b
                 /\ CommandsOf(headers[b])[i][1] \in public => i = headers[b].count
      <4>1. /\ CommandsOf(headers[b])[i] = entries[headers[b].first + i]
            /\ headers[b].first + i \in (headers[b].first + 1)..EndOf(b)
        BY <2>1, CommandsAt
      <4>2. headers[b].first + i = EndOf(b) => i = headers[b].count
        BY <3>1, <3>4
      <4> QED
        BY <3>3, <4>1, <4>2
    <3> QED
      BY <3>2, <3>5, <3>6, <3>7, <3>8
  <2> QED
    BY <2>1, <2>2, <2>3 DEF BundlesCutLoadOrder, CutSoFar
<1> QED
  BY <1>1, BundlesSafety, PTL

\* Of two commands that need each other, the needed one is in an earlier bundle,
\* with an arc, or earlier in the same one.
LEMMA NeededBefore ==
  ASSUME IInv, BundlesBuilt, NEW n \in Nodes, NEW m \in Needs(n)
  PROVE  /\ bundleOf[m] <= bundleOf[n] /\ bundleOf[m] \in Nat /\ bundleOf[n] \in Nat
         /\ bundleOf[m] # bundleOf[n] => <<bundleOf[m], bundleOf[n]>> \in internal
         /\ \E i, j \in DOMAIN entries : i < j /\ entries[i] = m /\ entries[j] = n
<1>1. /\ TypeOK /\ SortedSoFar /\ PlacedSoFar /\ Ascending /\ ArcsSoFar
      /\ pc \notin {"sort", "refused"} /\ Len(entries) = Len(order)
  BY DEF IInv, PlacedSoFar, BundlesBuilt
<1>2. DOMAIN entries = DOMAIN order /\ \A i \in DOMAIN order : entries[i] = order[i]
  BY <1>1, Types DEF PlacedSoFar
<1>3. m \in Nodes
  BY <1>1, NeedsAreNodes
<1>4. PICK j \in DOMAIN order : order[j] = n
  BY <1>1 DEF SortedSoFar
<1>5. PICK i \in DOMAIN order : i < j /\ order[i] = m
  BY <1>1, <1>4 DEF SortedSoFar
<1>6. bundleOf[m] <= bundleOf[n]
  BY <1>1, <1>2, <1>4, <1>5 DEF Ascending
<1>7. bundleOf[m] \in Nat /\ bundleOf[n] \in Nat
  BY <1>1, <1>3 DEF TypeOK
<1>8. bundleOf[m] # bundleOf[n] => <<bundleOf[m], bundleOf[n]>> \in internal
  <2> SUFFICES ASSUME bundleOf[m] # bundleOf[n]
               PROVE  <<bundleOf[m], bundleOf[n]>> \in internal
    OBVIOUS
  <2> QED
    BY <1>1, <1>3 DEF ArcsSoFar
<1> QED
  BY <1>2, <1>4, <1>5, <1>6, <1>7, <1>8

\* However a package is cut into bundles, its dependencies are met by running
\* them one after the other, or each after those it waits for.
THEOREM LoadsInOrder == Spec => []DependenciesMet
<1>1. IInv => DependenciesMet
  <2> SUFFICES ASSUME IInv, BundlesBuilt, NEW n \in Nodes, NEW m \in Needs(n)
               PROVE  \/ /\ bundleOf[m] < bundleOf[n]
                         /\ <<bundleOf[m], bundleOf[n]>> \in internal
                      \/ /\ bundleOf[m] = bundleOf[n]
                         /\ \E i, j \in DOMAIN entries :
                              i < j /\ entries[i] = m /\ entries[j] = n
    BY DEF DependenciesMet
  <2> QED
    BY NeededBefore
<1> QED
  BY <1>1, BundlesSafety, PTL

\* The arcs between bundles have no cycle: each goes from a bundle to a later one.
THEOREM ArcsHaveNoCycle == Spec => []ArcsPointForward
<1>1. IInv => ArcsPointForward
  <2> SUFFICES ASSUME IInv, NEW a \in internal PROVE a[1] < a[2]
    BY DEF ArcsPointForward
  <2>1. BundlesBuilt /\ TypeOK
    BY DEF IInv, ArcsSoFar
  <2>2. a[1] # a[2] /\ \E n \in Nodes : \E m \in Needs(n) : a = <<bundleOf[m], bundleOf[n]>>
    BY <2>1 DEF IInv, ArcsSoFar
  <2>3. PICK n \in Nodes : \E m \in Needs(n) : a = <<bundleOf[m], bundleOf[n]>>
    BY <2>2
  <2>4. PICK m \in Needs(n) : a = <<bundleOf[m], bundleOf[n]>>
    BY <2>3
  <2> QED
    BY <2>1, <2>2, <2>4, NeededBefore
<1> QED
  BY <1>1, BundlesSafety, PTL

-----------------------------------------------------------------------------
(* The data of the exports.  The invariant holds besides the one above.    *)

\* The types of the rest of the state.
DataTypeOK ==
  /\ serial \in [Exports -> Nat]
  /\ uexp \in Seq(Bytes)
  /\ \A e \in Exports : serial[e] + size[e] <= Len(uexp)
  /\ next \in 0..Len(headers)
  /\ at \in Nat
  /\ next > 0 => at <= headers[next].count
  /\ furthest \in Nat
  /\ written \in Seq(Bytes)
  /\ DOMAIN target \subseteq Exports
  /\ target \in [DOMAIN target -> Nat]
  /\ total \in Nat
  /\ rebuilt \in Seq(Bytes \cup {Tag, Unset})

\* The rebuilt exports lie one after the other, without gaps over the last one.
LaidOutSoFar ==
  /\ pc \in {"rebuild", "done"} => DOMAIN target = Exports
  /\ \A e \in DOMAIN target : \A x \in Exports \ DOMAIN target : e < x
  /\ \A e, x \in DOMAIN target : e < x => target[e] + size[e] <= target[x]
  /\ \A e \in DOMAIN target : target[e] + size[e] <= total
  /\ DOMAIN target = {} => total = 0

\* How many entries have been written or read.
Handled == IF next = 0 THEN 0 ELSE headers[next].first + at

\* starts tells where the data of each command starts in the zen package, and
\* the bundles start there.
StartsAt(starts) ==
  /\ starts[1] = 0
  /\ \A i \in DOMAIN entries : starts[i + 1] = starts[i] + DataSize(entries[i])
  /\ \A b \in DOMAIN headers : headers[b].offset = starts[headers[b].first + 1]
  /\ pc \in {"sort", "place"} => offset = starts[Len(entries) + 1]

\* The data of the first n commands has been written, each where it starts.
WrittenUpTo(starts, n) ==
  \A i \in DOMAIN entries :
    i <= n /\ entries[i][2] = "Serialize" =>
      \A x \in 1..size[entries[i][1]] :
        /\ starts[i] + x \in DOMAIN written
        /\ written[starts[i] + x] = uexp[serial[entries[i][1]] + x]

\* It ends in the legacy file where the furthest of them does.
EndsUpTo(n) ==
  /\ furthest \in {0} \cup {serial[e] + size[e] : e \in Exports}
  /\ \A i \in DOMAIN entries :
       i <= n /\ entries[i][2] = "Serialize" =>
         serial[entries[i][1]] + size[entries[i][1]] <= furthest

\* The data of the first n commands is where the rebuilt package has it.
RebuiltUpTo(n) ==
  \A i \in DOMAIN entries :
    i <= n /\ entries[i][2] = "Serialize" =>
      \A x \in 1..size[entries[i][1]] :
        rebuilt[target[entries[i][1]] + x] = uexp[serial[entries[i][1]] + x]

WrittenAt(starts) ==
  /\ pc \in {"sort", "place", "arcs"} => next = 0 /\ furthest = 0 /\ written = <<>>
  /\ pc = "write" =>
       Len(written) = starts[Handled + 1] /\ WrittenUpTo(starts, Handled) /\ EndsUpTo(Handled)
  /\ pc \in {"map", "rebuild"} =>
       /\ WrittenUpTo(starts, Len(entries))
       /\ starts[Len(entries) + 1] <= Len(written)
       /\ SubSeq(written, starts[Len(entries) + 1] + 1, Len(written)) = DataAfter(LargestEnd)

RebuiltAt(starts) ==
  pc = "rebuild" =>
    /\ Len(rebuilt) = total
    /\ offset = starts[Handled + 1] /\ furthest <= offset
    /\ RebuiltUpTo(Handled)

DataInv ==
  /\ DataTypeOK /\ LaidOutSoFar /\ DataSurvives
  /\ \E starts \in [1..(Len(entries) + 1) -> Nat] :
       StartsAt(starts) /\ WrittenAt(starts) /\ RebuiltAt(starts)

-----------------------------------------------------------------------------
(* Lemmas about the data.                                                  *)

\* A list is what its elements are.
LEMMA SameList ==
  ASSUME NEW D, NEW s \in Seq(D), NEW t \in Seq(D), Len(s) = Len(t),
         \A x \in 1..Len(s) : s[x] = t[x]
  PROVE  s = t
OBVIOUS

LEMMA DataTypes ==
  ASSUME TypeOK, DataTypeOK
  PROVE  /\ \A e \in Exports : size[e] \in Nat /\ serial[e] \in Nat
         /\ \A n \in Nodes : n[1] \in Exports /\ DataSize(n) \in Nat
         /\ \A i \in DOMAIN entries : entries[i] \in Nodes /\ entries[i][1] \in Exports
         /\ next \in Nat
         /\ \A e \in DOMAIN target : target[e] \in Nat
<1>1. \A e \in Exports : size[e] \in Nat /\ serial[e] \in Nat
  BY DEF TypeOK, DataTypeOK
<1>2. \A n \in Nodes : n[1] \in Exports
  BY DEF Nodes
<1>3. \A n \in Nodes : DataSize(n) \in Nat
  BY <1>1, <1>2 DEF DataSize
<1>4. \A i \in DOMAIN entries : entries[i] \in Nodes
  BY Types
<1>5. next \in Nat
  BY Types DEF DataTypeOK
<1>6. \A e \in DOMAIN target : target[e] \in Nat
  BY DEF DataTypeOK
<1> QED
  BY <1>1, <1>2, <1>3, <1>4, <1>5, <1>6

\* What is in a piece of a list, and what follows the first of two lists.
LEMMA Piece ==
  ASSUME NEW S, NEW s \in Seq(S), NEW f \in Nat, NEW l \in Nat, l <= Len(s)
  PROVE  /\ SubSeq(s, f + 1, l) \in Seq(S)
         /\ Len(SubSeq(s, f + 1, l)) = IF f < l THEN l - f ELSE 0
         /\ \A x \in 1..Len(SubSeq(s, f + 1, l)) : SubSeq(s, f + 1, l)[x] = s[f + x]
<1>1. Len(s) \in Nat /\ DOMAIN s = 1..Len(s)
  OBVIOUS
<1>2. Len(SubSeq(s, f + 1, l)) = IF f < l THEN l - f ELSE 0
  BY <1>1
<1>3. \A i \in (f + 1)..l : s[i] \in S
  BY <1>1
<1>4. SubSeq(s, f + 1, l) \in Seq(S)
  BY <1>1, <1>3
<1>5. ASSUME NEW x \in 1..Len(SubSeq(s, f + 1, l))
      PROVE  SubSeq(s, f + 1, l)[x] = s[f + x]
  BY <1>1, <1>2
<1> QED
  BY <1>2, <1>4, <1>5

LEMMA Concatenation ==
  ASSUME NEW S, NEW s \in Seq(S), NEW t \in Seq(S)
  PROVE  /\ s \o t \in Seq(S)
         /\ Len(s \o t) = Len(s) + Len(t)
         /\ \A x \in 1..Len(s) : (s \o t)[x] = s[x]
         /\ \A x \in 1..Len(t) : (s \o t)[Len(s) + x] = t[x]
  OBVIOUS

LEMMA SecondPart ==
  ASSUME NEW S, NEW s \in Seq(S), NEW t \in Seq(S)
  PROVE  SubSeq(s \o t, Len(s) + 1, Len(s \o t)) = t
<1>1. /\ s \o t \in Seq(S) /\ Len(s \o t) = Len(s) + Len(t)
      /\ \A x \in 1..Len(t) : (s \o t)[Len(s) + x] = t[x]
  BY Concatenation
<1>2. Len(s) \in Nat /\ Len(t) \in Nat
  OBVIOUS
<1>3. PICK u : u = SubSeq(s \o t, Len(s) + 1, Len(s \o t))
  OBVIOUS
<1>4. /\ u \in Seq(S)
      /\ Len(u) = IF Len(s) < Len(s \o t) THEN Len(s \o t) - Len(s) ELSE 0
      /\ \A x \in 1..Len(u) : u[x] = (s \o t)[Len(s) + x]
  <2>1. Len(s \o t) \in Nat /\ Len(s \o t) <= Len(s \o t)
    BY <1>1, <1>2
  <2> QED
    BY <1>1, <1>2, <1>3, <2>1, Piece
<1>5. Len(u) = Len(t)
  BY <1>1, <1>2, <1>4
<1>6. \A x \in 1..Len(t) : u[x] = t[x]
  BY <1>1, <1>4, <1>5
<1>7. u = t
  BY <1>4, <1>5, <1>6
<1> QED
  BY <1>3, <1>7

\* The data of an export, and what follows the exports.
LEMMA BlobType ==
  ASSUME TypeOK, DataTypeOK, NEW e \in Exports
  PROVE  /\ Blob(e) \in Seq(Bytes)
         /\ Len(Blob(e)) = size[e]
         /\ \A x \in 1..size[e] : Blob(e)[x] = uexp[serial[e] + x]
<1>1. /\ uexp \in Seq(Bytes) /\ size[e] \in Nat /\ serial[e] \in Nat
      /\ serial[e] + size[e] <= Len(uexp)
  BY DataTypes DEF DataTypeOK
<1>2. serial[e] + size[e] \in Nat
  BY <1>1
<1>3. Len(Blob(e)) = IF serial[e] < serial[e] + size[e] THEN serial[e] + size[e] - serial[e] ELSE 0
  BY <1>1, <1>2, Piece, SMTT(60) DEF Blob
<1>4. Len(Blob(e)) = size[e]
  BY <1>1, <1>3
<1>5. Blob(e) \in Seq(Bytes)
  BY <1>1, <1>2, Piece DEF Blob
<1>6. \A x \in 1..Len(Blob(e)) : Blob(e)[x] = uexp[serial[e] + x]
  BY <1>1, <1>2, Piece, ZenonT(60) DEF Blob
<1> QED
  BY <1>4, <1>5, <1>6

LEMMA DataAfterType ==
  ASSUME uexp \in Seq(Bytes), NEW n \in Nat
  PROVE  DataAfter(n) \in Seq(Bytes)
<1>1. Len(uexp) \in Nat
  OBVIOUS
<1>2. PICK l : l = IF n < Len(uexp) /\ uexp[Len(uexp)] = Tag THEN Len(uexp) - 1 ELSE Len(uexp)
  OBVIOUS
<1>3. l \in Nat /\ l <= Len(uexp)
  BY <1>1, <1>2
<1>4. DataAfter(n) = SubSeq(uexp, n + 1, l)
  BY <1>2 DEF DataAfter
<1> QED
  BY <1>3, <1>4, Piece

\* The largest end of an export is the one found by a look at all of them.
LEMMA LargestFound ==
  ASSUME TypeOK, DataTypeOK,
         furthest \in {0} \cup {serial[e] + size[e] : e \in Exports},
         \A e \in Exports : serial[e] + size[e] <= furthest
  PROVE  LargestEnd = furthest
<1>1. \A e \in Exports : serial[e] + size[e] \in Nat
  BY DataTypes
<1>2. LargestEnd \in {0} \cup {serial[e] + size[e] : e \in Exports}
      /\ \A e \in Exports : serial[e] + size[e] <= LargestEnd
  BY DEF LargestEnd
<1>3. LargestEnd \in Nat /\ furthest \in Nat
  BY <1>1, <1>2
<1>4. LargestEnd <= furthest
  BY <1>2, <1>3
<1>5. furthest <= LargestEnd
  BY <1>2, <1>3
<1> QED
  BY <1>3, <1>4, <1>5

\* The entry at hand, and how far the bundle at hand has come.
LEMMA AtHand ==
  ASSUME IInv, DataTypeOK, next > 0
  PROVE  /\ next \in DOMAIN headers
         /\ Handled = headers[next].first + at /\ Handled \in Nat
         /\ EndOf(next) = headers[next].first + headers[next].count
         /\ Handled <= EndOf(next) /\ EndOf(next) <= Len(entries)
         /\ ~BundleThrough => Handled + 1 \in DOMAIN entries /\ Entry = entries[Handled + 1]
         /\ BundleThrough => Handled = EndOf(next)
<1>1. /\ next \in Nat /\ next <= Len(headers) /\ at \in Nat /\ at <= headers[next].count
      /\ TypeOK /\ CutSoFar /\ Len(headers) \in Nat /\ Len(entries) \in Nat
  BY Types DEF IInv, DataTypeOK
<1>2. next \in DOMAIN headers /\ DOMAIN entries = 1..Len(entries)
  BY <1>1, Types
<1>3. headers[next].first \in Nat /\ headers[next].count \in Nat
  BY <1>1, <1>2, Types
<1>4. Handled = headers[next].first + at
  BY <1>1 DEF Handled
<1>5. EndOf(next) = headers[next].first + headers[next].count
  BY <1>1 DEF EndOf
<1>6. EndOf(next) <= Len(entries)
  BY <1>1, <1>2 DEF CutSoFar
<1>7. Handled \in Nat /\ Handled <= EndOf(next)
  BY <1>1, <1>3, <1>4, <1>5
<1>8. ~BundleThrough => Handled + 1 \in DOMAIN entries
  BY <1>1, <1>2, <1>3, <1>4, <1>5, <1>6, SMTT(60) DEF BundleThrough
<1>9. BundleThrough => Handled = EndOf(next)
  BY <1>1, <1>4, <1>5 DEF BundleThrough
<1> QED
  BY <1>2, <1>4, <1>5, <1>6, <1>7, <1>8, <1>9 DEF Entry

\* Before the first bundle nothing is handled, after the last one everything.
LEMMA Through ==
  ASSUME IInv, DataTypeOK, BundleThrough
  PROVE  /\ Handled = EndOf(next) /\ Handled \in Nat /\ Handled <= Len(entries)
         /\ next < Len(headers) =>
              next + 1 \in DOMAIN headers /\ headers[next + 1].first = Handled
         /\ next = Len(headers) => Handled = Len(entries)
<1>1. TypeOK /\ CutSoFar /\ next \in Nat /\ Len(headers) \in Nat /\ DOMAIN headers = 1..Len(headers)
  BY Types, DataTypes DEF IInv
<1>2. Handled = EndOf(next) /\ Handled \in Nat /\ Handled <= Len(entries)
  <2>1. CASE next = 0
    <3>1. Len(entries) \in Nat
      BY <1>1, Types
    <3> QED
      BY <2>1, <3>1 DEF EndOf, Handled
  <2>2. CASE next # 0
    <3>1. Handled = EndOf(next) /\ Handled \in Nat /\ EndOf(next) <= Len(entries)
      BY <1>1, <2>2, AtHand
    <3> QED
      BY <3>1
  <2> QED
    BY <2>1, <2>2
<1>3. ASSUME next < Len(headers)
      PROVE  next + 1 \in DOMAIN headers /\ headers[next + 1].first = Handled
  <2>1. next + 1 \in DOMAIN headers /\ (next + 1) - 1 = next
    BY <1>1, <1>3, SMTT(60)
  <2> QED
    BY <1>1, <1>2, <2>1, ZenonT(60) DEF CutSoFar
<1>4. next = Len(headers) => Handled = Len(entries)
  BY <1>1, <1>2, Zenon DEF CutSoFar
<1> QED
  BY <1>2, <1>3, <1>4

-----------------------------------------------------------------------------
LEMMA InitData == Init => DataInv
<1> SUFFICES ASSUME Init PROVE DataInv
  OBVIOUS
<1>1. /\ order = <<>> /\ headers = <<>> /\ entries = <<>> /\ pc = "sort" /\ offset = 0
      /\ next = 0 /\ at = 0 /\ furthest = 0 /\ written = <<>>
      /\ target = <<>> /\ total = 0 /\ rebuilt = <<>>
  BY DEF Init
<1>2. DataTypeOK
  <2>1. PICK f \in Files : size = f.size /\ serial = f.serial /\ uexp = f.data
    BY DEF Init
  <2>2. /\ f \in [size : [Exports -> Nat], serial : [Exports -> Nat], data : Seq(Bytes)]
        /\ \A e \in Exports : f.serial[e] + f.size[e] <= Len(f.data)
    BY FileAssumption
  <2>3. /\ serial \in [Exports -> Nat] /\ uexp \in Seq(Bytes)
        /\ \A e \in Exports : serial[e] + size[e] <= Len(uexp)
    BY <2>1, <2>2
  <2>4. /\ Len(headers) = 0 /\ 0 \in 0..0 /\ written \in Seq(Bytes)
        /\ rebuilt \in Seq(Bytes \cup {Tag, Unset})
    BY <1>1
  <2>5. DOMAIN target = {} /\ target \in [DOMAIN target -> Nat]
    BY <1>1
  <2> QED
    BY <1>1, <2>3, <2>4, <2>5 DEF DataTypeOK
<1>3. LaidOutSoFar
  BY <1>1 DEF LaidOutSoFar
<1>4. DataSurvives
  BY <1>1 DEF DataSurvives
<1>5. \E starts \in [1..(Len(entries) + 1) -> Nat] :
        StartsAt(starts) /\ WrittenAt(starts) /\ RebuiltAt(starts)
  <2>1. PICK s : s = [i \in 1..(Len(entries) + 1) |-> 0]
    OBVIOUS
  <2>2. s \in [1..(Len(entries) + 1) -> Nat] /\ s[1] = 0 /\ Len(entries) + 1 = 1
    BY <1>1, <2>1
  <2>3. StartsAt(s) /\ WrittenAt(s) /\ RebuiltAt(s)
    BY <1>1, <2>2 DEF StartsAt, WrittenAt, RebuiltAt
  <2> QED
    BY <2>2, <2>3
<1> QED
  BY <1>2, <1>3, <1>4, <1>5 DEF DataInv

\* Nothing happens.
LEMMA IdleData == DataInv /\ UNCHANGED vars => DataInv'
<1> SUFFICES ASSUME DataInv, UNCHANGED vars PROVE DataInv'
  OBVIOUS
<1>1. /\ UNCHANGED <<preload, public, size, serial, uexp, explicit, order, pc, headers, entries>>
      /\ UNCHANGED <<offset, next, at, furthest, written, target, total, rebuilt>>
  BY DEF vars, input, bundles, position, rebuilding
<1>2. DataTypeOK' /\ LaidOutSoFar'
  BY <1>1 DEF DataInv, DataTypeOK, LaidOutSoFar
<1>3. LargestEnd' = LargestEnd /\ \A n : DataAfter(n)' = DataAfter(n)
  BY <1>1 DEF LargestEnd, DataAfter
<1>4. DataSurvives'
  BY <1>1, <1>3 DEF DataInv, DataSurvives, Blob
<1>5. PICK s \in [1..(Len(entries) + 1) -> Nat] : StartsAt(s) /\ WrittenAt(s) /\ RebuiltAt(s)
  BY DEF DataInv
<1>6. StartsAt(s)'
  BY <1>1, <1>5 DEF StartsAt, DataSize
<1>7. WrittenAt(s)'
  BY <1>1, <1>3, <1>5 DEF WrittenAt, WrittenUpTo, EndsUpTo, Handled
<1>8. RebuiltAt(s)'
  BY <1>1, <1>5 DEF RebuiltAt, RebuiltUpTo, Handled
<1> QED
  BY <1>1, <1>2, <1>4, <1>5, <1>6, <1>7, <1>8 DEF DataInv

\* The order and the arcs are none of the data's business.
LEMMA SortData == DataInv /\ (Sort \/ EndPlacing) => DataInv'
<1> SUFFICES ASSUME DataInv, Sort \/ EndPlacing PROVE DataInv'
  OBVIOUS
<1>1. /\ UNCHANGED <<size, serial, uexp, headers, entries>>
      /\ UNCHANGED <<offset, next, at, furthest, written, target, total, rebuilt>>
      /\ pc \in {"sort", "place"} /\ pc' \in {"sort", "place", "arcs", "refused"}
  BY DEF Sort, EndPlacing, input, bundles, position, rebuilding
<1>2. DataTypeOK' /\ LaidOutSoFar' /\ DataSurvives'
  BY <1>1 DEF DataInv, DataTypeOK, LaidOutSoFar, DataSurvives
<1>3. PICK s \in [1..(Len(entries) + 1) -> Nat] : StartsAt(s) /\ WrittenAt(s)
  BY DEF DataInv
<1>4. StartsAt(s)'
  BY <1>1, <1>3 DEF StartsAt, DataSize
<1>5. WrittenAt(s)' /\ RebuiltAt(s)'
  BY <1>1, <1>3 DEF WrittenAt, RebuiltAt
<1> QED
  BY <1>1, <1>2, <1>3, <1>4, <1>5 DEF DataInv

LEMMA ArcsData == IInv /\ DataInv /\ BuildArcs => DataInv'
<1> SUFFICES ASSUME IInv, DataInv, BuildArcs PROVE DataInv'
  OBVIOUS
<1>1. /\ UNCHANGED <<size, serial, uexp, headers, entries>>
      /\ UNCHANGED <<offset, next, at, furthest, written, target, total, rebuilt>>
      /\ pc = "arcs" /\ pc' = "write"
  BY DEF BuildArcs, input, bundles, position, rebuilding
<1>2. DataTypeOK' /\ LaidOutSoFar' /\ DataSurvives'
  BY <1>1 DEF DataInv, DataTypeOK, LaidOutSoFar, DataSurvives
<1>3. PICK s \in [1..(Len(entries) + 1) -> Nat] : StartsAt(s) /\ WrittenAt(s)
  BY DEF DataInv
<1>4. next = 0 /\ furthest = 0 /\ written = <<>>
  BY <1>1, <1>3 DEF WrittenAt
<1>5. StartsAt(s)' /\ RebuiltAt(s)'
  BY <1>1, <1>3 DEF StartsAt, DataSize, RebuiltAt
<1>6. WrittenAt(s)'
  <2>1. Handled' = 0 /\ Len(written') = s[Handled' + 1]
    BY <1>1, <1>3, <1>4 DEF Handled, StartsAt
  <2>2. \A i \in DOMAIN entries : ~(i <= 0)
    BY Types DEF IInv
  <2>3. WrittenUpTo(s, Handled)' /\ EndsUpTo(Handled)'
    BY <1>1, <1>4, <2>1, <2>2 DEF WrittenUpTo, EndsUpTo
  <2> QED
    BY <1>1, <2>1, <2>3 DEF WrittenAt
<1> QED
  BY <1>1, <1>2, <1>3, <1>5, <1>6 DEF DataInv

\* A command that is placed starts where the data of those before it ends.
LEMMA PlaceData == IInv /\ DataInv /\ PlaceCommand => DataInv'
<1> SUFFICES ASSUME IInv, DataInv, PlaceCommand,
                    NEW N, N = Len(entries), NEW n, n = order[N + 1],
                    NEW H, H = Len(headers),
                    NEW b, b = IF open = 0 THEN H + 1 ELSE open
             PROVE  DataInv'
  OBVIOUS
<1>1. /\ TypeOK /\ CutSoFar /\ DataTypeOK /\ pc = "place" /\ pc' = "place" /\ N < Len(order)
  BY DEF IInv, DataInv, PlaceCommand
<1>2. /\ UNCHANGED <<size, serial, uexp, next, at, furthest, written, target, total, rebuilt>>
      /\ offset' = offset + DataSize(n)
  BY DEF PlaceCommand, input, position, rebuilding
<1>3. AddTo(b, n)
  BY DEF PlaceCommand
<1>4. N \in Nat /\ H \in Nat /\ DOMAIN entries = 1..N /\ DOMAIN headers = 1..H
  BY <1>1, Types
<1>5. n \in Nodes
  <2>1. N + 1 \in DOMAIN order
    BY <1>1, <1>4, Types
  <2> QED
    BY <1>1, <2>1, Types
<1>6. DataSize(n) \in Nat
  BY <1>1, <1>5, DataTypes
<1>7. PICK s \in [1..(N + 1) -> Nat] : StartsAt(s) /\ WrittenAt(s)
  BY DEF DataInv
<1>8. next = 0 /\ furthest = 0 /\ written = <<>>
  BY <1>1, <1>7 DEF WrittenAt
<1>9. entries' = Append(entries, n)
  BY <1>3 DEF AddTo
<1>10. /\ Len(entries') = N + 1 /\ DOMAIN entries' = 1..(N + 1)
       /\ \A i \in 1..N : entries'[i] = entries[i]
       /\ entries'[N + 1] = n
  <2>1. entries \in Seq(Nodes)
    BY <1>1 DEF TypeOK
  <2>2. /\ entries' \in Seq(Nodes) /\ Len(entries') = N + 1
        /\ \A i \in 1..N : entries'[i] = entries[i]
        /\ entries'[N + 1] = n
    BY <1>5, <1>9, <2>1, Appended
  <2> QED
    BY <2>2
<1>11. PICK t : t = [i \in 1..(N + 2) |-> IF i = N + 2 THEN s[N + 1] + DataSize(n) ELSE s[i]]
  OBVIOUS
<1>12. s[N + 1] \in Nat /\ s[1] = 0
  BY <1>4, <1>7 DEF StartsAt
<1>13. /\ t[N + 2] = s[N + 1] + DataSize(n)
       /\ \A i \in 1..(N + 1) : t[i] = s[i]
  BY <1>4, <1>11
<1>14. t \in [1..(N + 2) -> Nat]
  <2>1. s[N + 1] + DataSize(n) \in Nat
    BY <1>6, <1>12
  <2>2. \A i \in 1..(N + 2) : i # N + 2 => i \in 1..(N + 1)
    BY <1>4
  <2> QED
    BY <1>7, <1>11, <2>1, <2>2
<1>15. StartsAt(t)'
  <2>1. t[1] = 0
    BY <1>4, <1>12, <1>13
  <2>2. ASSUME NEW i \in 1..(N + 1)
        PROVE  t[i + 1] = t[i] + DataSize(entries'[i])
    <3>1. CASE i = N + 1
      <4>1. i + 1 = N + 2 /\ N + 1 \in 1..(N + 1)
        BY <1>4, <3>1
      <4> QED
        BY <1>10, <1>13, <3>1, <4>1
    <3>2. CASE i # N + 1
      <4>1. i \in 1..N /\ i \in 1..(N + 1) /\ i + 1 \in 1..(N + 1)
        BY <1>4, <3>2
      <4>2. s[i + 1] = s[i] + DataSize(entries[i])
        BY <1>4, <1>7, <4>1 DEF StartsAt
      <4> QED
        BY <1>10, <1>13, <4>1, <4>2
    <3> QED
      BY <3>1, <3>2
  <2>3. ASSUME NEW c \in DOMAIN headers'
        PROVE  headers'[c].offset = t[headers'[c].first + 1]
    <3>1. offset = s[N + 1]
      BY <1>1, <1>7 DEF StartsAt
    <3>2. ASSUME NEW d \in DOMAIN headers, headers'[c].offset = headers[d].offset,
                 headers'[c].first = headers[d].first
          PROVE  headers'[c].offset = t[headers'[c].first + 1]
      <4>1. headers[d].offset = s[headers[d].first + 1]
        BY <1>7 DEF StartsAt
      <4>2. headers[d].first \in Nat /\ headers[d].count \in Nat
        BY <1>1, Types
      <4>3. EndOf(d) = headers[d].first + headers[d].count /\ EndOf(d) <= N
        BY <1>1, <1>4 DEF CutSoFar, EndOf
      <4>4. headers[d].first + 1 \in 1..(N + 1)
        BY <1>4, <4>2, <4>3, SMTT(60)
      <4> QED
        BY <1>13, <3>2, <4>1, <4>4
    <3>3. open \in {0, H}
      BY <1>1 DEF CutSoFar
    <3>4. headers \in Seq(Header)
      BY <1>1 DEF TypeOK
    <3>5. CASE open = 0
      <4>1. PICK h : h = [offset |-> offset, first |-> N, count |-> 1]
        OBVIOUS
      <4>2. h.offset = offset /\ h.first = N
        BY <4>1
      <4>3. headers' = Append(headers, h)
        <5>1. b = H + 1 /\ ~(b <= H)
          BY <1>4, <3>5
        <5> QED
          BY <1>3, <4>1, <5>1 DEF AddTo
      <4>4. DOMAIN headers' = 1..(H + 1) /\ headers'[H + 1] = h
            /\ \A d \in 1..H : headers'[d] = headers[d]
        BY <3>4, <4>3
      <4>5. CASE c = H + 1
        <5>1. N + 1 \in 1..(N + 1)
          BY <1>4
        <5> QED
          BY <1>13, <3>1, <4>2, <4>4, <4>5, <5>1
      <4>6. CASE c # H + 1
        <5>1. c \in DOMAIN headers /\ headers'[c] = headers[c]
          BY <1>4, <4>4, <4>6
        <5> QED
          BY <3>2, <5>1
      <4> QED
        BY <4>5, <4>6
    <3>6. CASE open # 0
      <4>1. b = H /\ b <= H /\ b \in DOMAIN headers
        BY <1>4, <3>3, <3>6
      <4>2. PICK h : h = [headers[b] EXCEPT !.count = @ + 1]
        OBVIOUS
      <4>3. headers' = [headers EXCEPT ![b] = h]
        BY <1>3, <4>1, <4>2 DEF AddTo
      <4>4. h.offset = headers[b].offset /\ h.first = headers[b].first
        <5>1. headers[b] \in Header
          BY <3>4, <4>1
        <5> QED
          BY <4>2, <5>1 DEF Header
      <4>5. c \in DOMAIN headers /\ (c # b => headers'[c] = headers[c]) /\ (c = b => headers'[c] = h)
        BY <3>4, <4>1, <4>3
      <4> QED
        BY <3>2, <4>4, <4>5
    <3> QED
      BY <3>5, <3>6
  <2>4. offset' = t[N + 2]
    BY <1>1, <1>2, <1>7, <1>13 DEF StartsAt
  <2>5. \A m : DataSize(m)' = DataSize(m)
    BY <1>2 DEF DataSize
  <2>6. Len(entries') + 1 = N + 2
    BY <1>4, <1>10
  <2> QED
    BY <1>10, <2>1, <2>2, <2>3, <2>4, <2>5, <2>6 DEF StartsAt
<1>16. WrittenAt(t)' /\ RebuiltAt(t)'
  BY <1>1, <1>2, <1>8 DEF WrittenAt, RebuiltAt
<1>17. DataTypeOK'
  <2>1. Len(headers') \in Nat /\ next' \in 0..Len(headers') /\ ~(next' > 0)
    <3>1. TypeOK'
      BY StepBundles DEF Next, IInv
    <3>2. Len(headers') \in Nat
      BY <3>1, Types
    <3> QED
      BY <1>2, <1>8, <3>2
  <2> QED
    BY <1>1, <1>2, <2>1 DEF DataTypeOK
<1>18. LaidOutSoFar' /\ DataSurvives'
  BY <1>1, <1>2 DEF DataInv, LaidOutSoFar, DataSurvives
<1>19. Len(entries') + 1 = N + 2
  BY <1>4, <1>10
<1> QED
  BY <1>14, <1>15, <1>16, <1>17, <1>18, <1>19 DEF DataInv

-----------------------------------------------------------------------------
(* Writing.                                                                *)

\* A bundle starts where its header says.
LEMMA StartBundleData == IInv /\ DataInv /\ StartBundle => DataInv'
<1> SUFFICES ASSUME IInv, DataInv, StartBundle PROVE DataInv'
  OBVIOUS
<1>1. /\ UNCHANGED <<size, serial, uexp, headers, entries>>
      /\ UNCHANGED <<furthest, written, target, total, rebuilt>>
      /\ pc = "write" /\ BundleThrough /\ next < Len(headers)
      /\ TypeOK /\ DataTypeOK
  BY DEF StartBundle, input, bundles, rebuilding, IInv, DataInv
<1>2. /\ Handled \in Nat /\ next + 1 \in DOMAIN headers /\ headers[next + 1].first = Handled
  BY <1>1, Through
<1>3. PICK s \in [1..(Len(entries) + 1) -> Nat] : StartsAt(s) /\ WrittenAt(s)
  BY DEF DataInv
<1>4. headers[next + 1].offset = s[Handled + 1]
  BY <1>2, <1>3 DEF StartsAt
<1>5. Len(written) = s[Handled + 1] /\ WrittenUpTo(s, Handled) /\ EndsUpTo(Handled)
  BY <1>1, <1>3 DEF WrittenAt
<1>6. pc' = "write" /\ next' = next + 1 /\ at' = 0
  BY <1>1, <1>4, <1>5 DEF StartBundle
<1>7. next \in Nat /\ Len(headers) \in Nat /\ headers[next + 1].count \in Nat
  BY <1>1, <1>2, Types, DataTypes
<1>8. Handled' = Handled
  BY <1>1, <1>2, <1>6, <1>7 DEF Handled
<1>9. DataTypeOK'
  <2>1. next' \in 0..Len(headers') /\ at' \in Nat /\ at' <= headers'[next'].count
    BY <1>1, <1>6, <1>7
  <2> QED
    BY <1>1, <2>1 DEF DataTypeOK
<1>10. LaidOutSoFar' /\ DataSurvives'
  BY <1>1, <1>6 DEF DataInv, LaidOutSoFar, DataSurvives
<1>11. StartsAt(s)' /\ RebuiltAt(s)'
  BY <1>1, <1>3, <1>6 DEF StartsAt, DataSize, RebuiltAt
<1>12. WrittenAt(s)'
  <2>1. WrittenUpTo(s, Handled)' /\ EndsUpTo(Handled)'
    BY <1>1, <1>5, <1>8 DEF WrittenUpTo, EndsUpTo
  <2> QED
    BY <1>1, <1>5, <1>6, <1>8, <2>1 DEF WrittenAt
<1> QED
  BY <1>1, <1>3, <1>9, <1>10, <1>11, <1>12 DEF DataInv

\* The data of a command goes behind that of those before it.
LEMMA WriteEntryData == IInv /\ DataInv /\ WriteEntry => DataInv'
<1> SUFFICES ASSUME IInv, DataInv, WriteEntry,
                    NEW h, h = Handled, NEW n, n = entries[h + 1], NEW e, e = n[1]
             PROVE DataInv'
  OBVIOUS
<1>1. /\ UNCHANGED <<size, serial, uexp, headers, entries>>
      /\ UNCHANGED <<next, target, total, rebuilt>>
      /\ pc = "write" /\ pc' = "write" /\ ~BundleThrough /\ at' = at + 1
      /\ TypeOK /\ DataTypeOK
  BY DEF WriteEntry, input, bundles, rebuilding, IInv, DataInv
<1>2. next > 0 /\ at # headers[next].count
  BY <1>1, DataTypes DEF BundleThrough
<1>3. /\ next \in DOMAIN headers
      /\ h = headers[next].first + at /\ h \in Nat
      /\ h + 1 \in DOMAIN entries /\ Entry = n
  BY <1>1, <1>2, AtHand
<1>4. headers[next].first \in Nat /\ headers[next].count \in Nat /\ at \in Nat
      /\ at <= headers[next].count
  BY <1>1, <1>2, <1>3, Types DEF DataTypeOK
<1>5. Handled' = h + 1 /\ at' <= headers[next].count /\ at' \in Nat
  BY <1>1, <1>2, <1>3, <1>4 DEF Handled
<1>6. n \in Nodes /\ e \in Exports /\ size[e] \in Nat /\ serial[e] \in Nat
  BY <1>1, <1>3, DataTypes
<1>7. PICK s \in [1..(Len(entries) + 1) -> Nat] : StartsAt(s) /\ WrittenAt(s)
  BY DEF DataInv
<1>8. /\ Len(written) = s[h + 1] /\ WrittenUpTo(s, h) /\ EndsUpTo(h)
      /\ s[h + 2] = s[h + 1] + DataSize(n)
  <2>1. Len(written) = s[h + 1] /\ WrittenUpTo(s, h) /\ EndsUpTo(h)
    BY <1>1, <1>7 DEF WrittenAt
  <2>2. s[(h + 1) + 1] = s[h + 1] + DataSize(n)
    BY <1>3, <1>7 DEF StartsAt
  <2>3. (h + 1) + 1 = h + 2
    BY <1>3
  <2> QED
    BY <2>1, <2>2, <2>3
<1>9. IF n[2] = "Serialize"
      THEN written' = written \o Blob(e) /\ furthest' = Larger(furthest, serial[e] + size[e])
      ELSE written' = written /\ furthest' = furthest
  BY <1>3 DEF WriteEntry
<1>10. written \in Seq(Bytes) /\ furthest \in Nat /\ Len(written) \in Nat
  BY <1>1 DEF DataTypeOK
<1>11. /\ written' \in Seq(Bytes)
       /\ Len(written') = s[h + 2]
       /\ \A x \in 1..Len(written) : x \in DOMAIN written' /\ written'[x] = written[x]
       /\ n[2] = "Serialize" =>
            \A x \in 1..size[e] :
              /\ s[h + 1] + x \in DOMAIN written'
              /\ written'[s[h + 1] + x] = uexp[serial[e] + x]
  <2>1. CASE n[2] = "Serialize"
    <3>1. /\ Blob(e) \in Seq(Bytes) /\ Len(Blob(e)) = size[e]
          /\ \A x \in 1..size[e] : Blob(e)[x] = uexp[serial[e] + x]
      BY <1>1, <1>6, BlobType
    <3>2. written' = written \o Blob(e)
      BY <1>9, <2>1
    <3>3. /\ written' \in Seq(Bytes)
          /\ Len(written') = Len(written) + size[e]
          /\ \A x \in 1..Len(written) : written'[x] = written[x]
          /\ \A x \in 1..size[e] : written'[Len(written) + x] = Blob(e)[x]
      BY <1>10, <3>1, <3>2, Concatenation, SMTT(60)
    <3>4. DOMAIN written' = 1..(Len(written) + size[e])
      BY <3>3
    <3>5. Len(written') = s[h + 2]
      BY <1>8, <2>1, <3>3 DEF DataSize
    <3>6. \A x \in 1..Len(written) : x \in DOMAIN written'
      BY <1>6, <1>10, <3>4
    <3>7. \A x \in 1..size[e] : Len(written) + x \in DOMAIN written'
      BY <1>6, <1>10, <3>4
    <3> QED
      BY <1>8, <3>1, <3>3, <3>5, <3>6, <3>7
  <2>2. CASE n[2] # "Serialize"
    <3>1. written' = written /\ Len(written) = s[h + 2]
      BY <1>8, <1>9, <1>10, <2>2 DEF DataSize
    <3>2. DOMAIN written = 1..Len(written)
      BY <1>10
    <3> QED
      BY <1>10, <2>2, <3>1, <3>2
  <2> QED
    BY <2>1, <2>2
<1>12. \A i \in DOMAIN entries : i <= h + 1 => i = h + 1 \/ i <= h
  BY <1>1, <1>3, Types, SMTT(60)
<1>13. WrittenUpTo(s, Handled)'
  <2> SUFFICES ASSUME NEW i \in DOMAIN entries, i <= h + 1, entries[i][2] = "Serialize",
                      NEW x \in 1..size[entries[i][1]]
               PROVE  /\ s[i] + x \in DOMAIN written'
                      /\ written'[s[i] + x] = uexp[serial[entries[i][1]] + x]
    BY <1>1, <1>5 DEF WrittenUpTo
  <2>1. CASE i = h + 1
    BY <1>11, <2>1
  <2>2. CASE i <= h
    <3>1. /\ s[i] + x \in DOMAIN written
          /\ written[s[i] + x] = uexp[serial[entries[i][1]] + x]
      BY <1>8, <2>2 DEF WrittenUpTo
    <3>2. s[i] + x \in 1..Len(written)
      BY <1>10, <3>1
    <3> QED
      BY <1>11, <3>1, <3>2
  <2> QED
    BY <1>12, <2>1, <2>2
<1>14. EndsUpTo(Handled)' /\ furthest' \in Nat
  <2>1. serial[e] + size[e] \in Nat
    BY <1>6
  <2>2. /\ furthest' \in Nat /\ furthest <= furthest'
        /\ furthest' \in {furthest, serial[e] + size[e]}
        /\ n[2] = "Serialize" => serial[e] + size[e] <= furthest'
    BY <1>9, <1>10, <2>1 DEF Larger
  <2>3. furthest' \in {0} \cup {serial[d] + size[d] : d \in Exports}
    BY <1>6, <1>8, <2>2 DEF EndsUpTo
  <2>4. ASSUME NEW i \in DOMAIN entries, i <= h + 1, entries[i][2] = "Serialize"
        PROVE  serial[entries[i][1]] + size[entries[i][1]] <= furthest'
    <3>1. CASE i = h + 1
      BY <2>2, <2>4, <3>1
    <3>2. CASE i <= h
      <4>1. serial[entries[i][1]] + size[entries[i][1]] <= furthest
        BY <1>8, <2>4, <3>2 DEF EndsUpTo
      <4>2. serial[entries[i][1]] \in Nat /\ size[entries[i][1]] \in Nat
        BY <1>1, DataTypes
      <4> QED
        BY <1>10, <2>2, <4>1, <4>2
    <3> QED
      BY <1>12, <2>4, <3>1, <3>2
  <2> QED
    BY <1>1, <1>5, <2>2, <2>3, <2>4 DEF EndsUpTo
<1>15. DataTypeOK'
  BY <1>1, <1>5, <1>11, <1>14 DEF DataTypeOK
<1>16. LaidOutSoFar' /\ DataSurvives'
  BY <1>1 DEF DataInv, LaidOutSoFar, DataSurvives
<1>17. StartsAt(s)' /\ RebuiltAt(s)'
  BY <1>1, <1>7 DEF StartsAt, DataSize, RebuiltAt
<1>18. WrittenAt(s)'
  <2>1. Len(written') = s[Handled' + 1]
    <3>1. (h + 1) + 1 = h + 2
      BY <1>3
    <3> QED
      BY <1>5, <1>11, <3>1
  <2> QED
    BY <1>1, <1>13, <1>14, <2>1 DEF WrittenAt
<1> QED
  BY <1>1, <1>7, <1>15, <1>16, <1>17, <1>18 DEF DataInv

\* Every export is among the commands that are written.
LEMMA AllListed ==
  ASSUME IInv, BundlesBuilt, NEW e \in Exports
  PROVE  \E i \in DOMAIN entries : entries[i] = <<e, "Serialize">>
<1>1. <<e, "Serialize">> \in Nodes
  BY DEF Nodes, Commands
<1>2. PICK i \in DOMAIN order : order[i] = <<e, "Serialize">>
  BY <1>1 DEF IInv, SortedSoFar, BundlesBuilt
<1>3. i \in DOMAIN entries /\ entries[i] = order[i]
  <2>1. Len(entries) = Len(order)
    BY DEF IInv, PlacedSoFar, BundlesBuilt
  <2> QED
    BY <2>1, Types DEF IInv, PlacedSoFar
<1> QED
  BY <1>2, <1>3

\* What follows the exports goes behind the last bundle.
LEMMA EndWritingData == IInv /\ DataInv /\ EndWriting => DataInv'
<1> SUFFICES ASSUME IInv, DataInv, EndWriting, NEW N, N = Len(entries) PROVE DataInv'
  OBVIOUS
<1>1. /\ UNCHANGED <<size, serial, uexp, headers, entries>>
      /\ UNCHANGED <<next, at, furthest, target, total, rebuilt>>
      /\ pc = "write" /\ pc' = "map" /\ BundleThrough /\ next = Len(headers)
      /\ written' = written \o DataAfter(furthest)
      /\ TypeOK /\ DataTypeOK
  BY DEF EndWriting, input, bundles, position, rebuilding, IInv, DataInv
<1>2. Handled = N
  BY <1>1, Through
<1>3. PICK s \in [1..(N + 1) -> Nat] : StartsAt(s) /\ WrittenAt(s)
  BY DEF DataInv
<1>4. Len(written) = s[N + 1] /\ WrittenUpTo(s, N) /\ EndsUpTo(N)
  BY <1>1, <1>2, <1>3 DEF WrittenAt
<1>5. written \in Seq(Bytes) /\ furthest \in Nat /\ uexp \in Seq(Bytes) /\ N \in Nat
      /\ DOMAIN entries = 1..N
  BY <1>1, Types DEF DataTypeOK
<1>6. DataAfter(furthest) \in Seq(Bytes)
  BY <1>5, DataAfterType
<1>7. /\ written' \in Seq(Bytes)
      /\ Len(written') = Len(written) + Len(DataAfter(furthest))
      /\ \A x \in 1..Len(written) : written'[x] = written[x]
      /\ SubSeq(written', Len(written) + 1, Len(written')) = DataAfter(furthest)
  BY <1>1, <1>5, <1>6, Concatenation, SecondPart
<1>8. LargestEnd = furthest
  <2>1. ASSUME NEW e \in Exports PROVE serial[e] + size[e] <= furthest
    <3>1. PICK i \in DOMAIN entries : entries[i] = <<e, "Serialize">>
      BY <1>1, AllListed DEF BundlesBuilt
    <3>2. i <= N /\ entries[i][1] = e /\ entries[i][2] = "Serialize"
      BY <1>5, <3>1
    <3> QED
      BY <1>4, <3>2 DEF EndsUpTo
  <2> QED
    BY <1>1, <1>4, <2>1, LargestFound DEF EndsUpTo
<1>9. LargestEnd' = LargestEnd /\ DataAfter(LargestEnd)' = DataAfter(LargestEnd)
  BY <1>1 DEF LargestEnd, DataAfter
<1>10. Len(written) \in Nat /\ Len(written') \in Nat /\ Len(written) <= Len(written')
       /\ DOMAIN written = 1..Len(written) /\ DOMAIN written' = 1..Len(written')
  BY <1>5, <1>6, <1>7
<1>11. WrittenUpTo(s, Len(entries))'
  <2> SUFFICES ASSUME NEW i \in DOMAIN entries, i <= N, entries[i][2] = "Serialize",
                      NEW x \in 1..size[entries[i][1]]
               PROVE  /\ s[i] + x \in DOMAIN written'
                      /\ written'[s[i] + x] = uexp[serial[entries[i][1]] + x]
    BY <1>1 DEF WrittenUpTo
  <2>1. /\ s[i] + x \in DOMAIN written
        /\ written[s[i] + x] = uexp[serial[entries[i][1]] + x]
    BY <1>4 DEF WrittenUpTo
  <2>2. s[i] + x \in DOMAIN written'
    BY <1>10, <2>1
  <2> QED
    BY <1>7, <1>10, <2>1, <2>2
<1>12. WrittenAt(s)'
  BY <1>1, <1>4, <1>7, <1>8, <1>9, <1>10, <1>11 DEF WrittenAt
<1>13. DataTypeOK'
  BY <1>1, <1>7 DEF DataTypeOK
<1>14. LaidOutSoFar' /\ DataSurvives'
  BY <1>1 DEF DataInv, LaidOutSoFar, DataSurvives
<1>15. StartsAt(s)' /\ RebuiltAt(s)'
  BY <1>1, <1>3 DEF StartsAt, DataSize, RebuiltAt
<1> QED
  BY <1>1, <1>3, <1>12, <1>13, <1>14, <1>15 DEF DataInv

-----------------------------------------------------------------------------
(* Reading.                                                                *)

\* An export is laid out behind the others, all of which are before it.
LEMMA LayOutData == ASSUME NEW e \in Exports PROVE IInv /\ DataInv /\ LayOut(e) => DataInv'
<1> SUFFICES ASSUME IInv, DataInv, LayOut(e) PROVE DataInv'
  OBVIOUS
<1>1. /\ UNCHANGED <<size, serial, uexp, headers, entries>>
      /\ UNCHANGED <<next, at, furthest, written, rebuilt>>
      /\ pc = "map" /\ pc' = "map"
      /\ TypeOK /\ DataTypeOK /\ LaidOutSoFar
  BY DEF LayOut, input, bundles, position, IInv, DataInv
<1>2. /\ e \in Exports \ DOMAIN target
      /\ \A x \in Exports \ DOMAIN target : e <= x
      /\ target' = [x \in DOMAIN target \cup {e} |-> IF x = e THEN total ELSE target[x]]
      /\ total' = total + size[e]
  BY DEF LayOut
<1>3. /\ DOMAIN target \subseteq Exports /\ Exports \subseteq Nat /\ total \in Nat
      /\ \A d \in Exports : size[d] \in Nat
      /\ \A d \in DOMAIN target : target[d] \in Nat
  BY <1>1, GraphAssumption, DataTypes DEF DataTypeOK
<1>4. /\ DOMAIN target' = DOMAIN target \cup {e}
      /\ target'[e] = total
      /\ \A d \in DOMAIN target : target'[d] = target[d]
  BY <1>2
<1>5. total' \in Nat /\ total <= total'
  BY <1>2, <1>3
<1>6. DataTypeOK'
  <2>1. DOMAIN target' \subseteq Exports
    BY <1>3, <1>4
  <2>2. target' \in [DOMAIN target' -> Nat]
    BY <1>2, <1>3, <1>4
  <2> QED
    BY <1>1, <1>5, <2>1, <2>2 DEF DataTypeOK
<1>7. LaidOutSoFar'
  <2>1. ASSUME NEW d \in DOMAIN target', NEW x \in Exports \ DOMAIN target' PROVE d < x
    <3>1. x \in Exports \ DOMAIN target /\ x # e
      BY <1>4
    <3>2. CASE d = e
      BY <1>2, <1>3, <3>1, <3>2
    <3>3. CASE d # e
      BY <1>1, <1>4, <3>1, <3>3 DEF LaidOutSoFar
    <3> QED
      BY <3>2, <3>3
  <2>2. ASSUME NEW d \in DOMAIN target', NEW x \in DOMAIN target', d < x
        PROVE  target'[d] + size[d] <= target'[x]
    <3>1. CASE x = e
      <4>1. d \in DOMAIN target
        BY <1>3, <1>4, <2>2, <3>1
      <4> QED
        BY <1>1, <1>4, <3>1, <4>1 DEF LaidOutSoFar
    <3>2. CASE x # e
      <4>1. x \in DOMAIN target /\ x < e
        BY <1>1, <1>2, <1>4, <3>2 DEF LaidOutSoFar
      <4>2. d \in Nat /\ x \in Nat /\ e \in Nat
        BY <1>3, <1>4
      <4>3. d # e
        BY <2>2, <4>1, <4>2
      <4>4. d \in DOMAIN target
        BY <1>4, <4>3
      <4> QED
        BY <1>1, <1>4, <2>2, <4>1, <4>4 DEF LaidOutSoFar
    <3> QED
      BY <3>1, <3>2
  <2>3. ASSUME NEW d \in DOMAIN target' PROVE target'[d] + size[d] <= total'
    <3>1. CASE d = e
      BY <1>2, <1>3, <1>4, <3>1
    <3>2. CASE d # e
      <4>1. d \in DOMAIN target /\ target'[d] = target[d] /\ target[d] + size[d] <= total
        BY <1>1, <1>4, <3>2 DEF LaidOutSoFar
      <4>2. target[d] \in Nat /\ size[d] \in Nat
        BY <1>3, <4>1
      <4> QED
        BY <1>3, <1>5, <4>1, <4>2
    <3> QED
      BY <3>1, <3>2
  <2>4. DOMAIN target' # {}
    BY <1>4
  <2> QED
    BY <1>1, <2>1, <2>2, <2>3, <2>4 DEF LaidOutSoFar
<1>8. DataSurvives'
  BY <1>1 DEF DataSurvives
<1>9. PICK s \in [1..(Len(entries) + 1) -> Nat] : StartsAt(s) /\ WrittenAt(s)
  BY DEF DataInv
<1>10. LargestEnd' = LargestEnd /\ \A n : DataAfter(n)' = DataAfter(n)
  BY <1>1 DEF LargestEnd, DataAfter
<1>11. StartsAt(s)' /\ RebuiltAt(s)'
  BY <1>1, <1>9 DEF StartsAt, DataSize, RebuiltAt
<1>12. WrittenAt(s)'
  BY <1>1, <1>9, <1>10 DEF WrittenAt, WrittenUpTo
<1> QED
  BY <1>1, <1>6, <1>7, <1>8, <1>9, <1>11, <1>12 DEF DataInv

LEMMA EndLayingOutData == IInv /\ DataInv /\ EndLayingOut => DataInv'
<1> SUFFICES ASSUME IInv, DataInv, EndLayingOut PROVE DataInv'
  OBVIOUS
<1>1. /\ UNCHANGED <<size, serial, uexp, headers, entries>>
      /\ UNCHANGED <<written, target, total>>
      /\ pc = "map" /\ pc' = "rebuild" /\ DOMAIN target = Exports
      /\ next' = 0 /\ at' = 0 /\ furthest' = 0 /\ offset' = 0
      /\ rebuilt' = [x \in 1..total |-> Unset]
      /\ TypeOK /\ DataTypeOK
  BY DEF EndLayingOut, input, bundles, IInv, DataInv
<1>2. total \in Nat /\ Len(headers) \in Nat
  BY <1>1, Types DEF DataTypeOK
<1>3. rebuilt' \in Seq(Bytes \cup {Tag, Unset}) /\ Len(rebuilt') = total
  BY <1>1, <1>2
<1>4. DataTypeOK'
  <2>1. next' \in 0..Len(headers') /\ ~(next' > 0)
    BY <1>1, <1>2
  <2> QED
    BY <1>1, <1>3, <2>1 DEF DataTypeOK
<1>5. LaidOutSoFar' /\ DataSurvives'
  BY <1>1 DEF DataInv, LaidOutSoFar, DataSurvives
<1>6. PICK s \in [1..(Len(entries) + 1) -> Nat] : StartsAt(s) /\ WrittenAt(s)
  BY DEF DataInv
<1>7. LargestEnd' = LargestEnd /\ \A n : DataAfter(n)' = DataAfter(n)
  BY <1>1 DEF LargestEnd, DataAfter
<1>8. StartsAt(s)'
  BY <1>1, <1>6 DEF StartsAt, DataSize
<1>9. WrittenAt(s)'
  BY <1>1, <1>6, <1>7 DEF WrittenAt, WrittenUpTo
<1>10. RebuiltAt(s)'
  <2>1. Handled' = 0 /\ offset' = s[Handled' + 1] /\ furthest' <= offset'
    BY <1>1, <1>6 DEF Handled, StartsAt
  <2>2. \A i \in DOMAIN entries : ~(i <= 0)
    BY <1>1, Types
  <2>3. RebuiltUpTo(Handled)'
    BY <1>1, <2>1, <2>2 DEF RebuiltUpTo
  <2> QED
    BY <1>1, <1>3, <2>1, <2>3 DEF RebuiltAt
<1> QED
  BY <1>1, <1>4, <1>5, <1>6, <1>8, <1>9, <1>10 DEF DataInv

\* A bundle is found where it was written, by its header or behind the last one.
LEMMA StartReadingData == IInv /\ DataInv /\ StartReading => DataInv'
<1> SUFFICES ASSUME IInv, DataInv, StartReading PROVE DataInv'
  OBVIOUS
<1>1. /\ UNCHANGED <<size, serial, uexp, headers, entries>>
      /\ UNCHANGED <<written, target, total, rebuilt>>
      /\ pc = "rebuild" /\ pc' = "rebuild" /\ BundleThrough /\ next < Len(headers)
      /\ next' = next + 1 /\ at' = 0 /\ furthest' = Reached /\ offset' = BundleStart
      /\ TypeOK /\ DataTypeOK
  BY DEF StartReading, input, bundles, rebuilding, IInv, DataInv
<1>2. /\ Handled \in Nat /\ next + 1 \in DOMAIN headers /\ headers[next + 1].first = Handled
  BY <1>1, Through
<1>3. PICK s \in [1..(Len(entries) + 1) -> Nat] : StartsAt(s) /\ WrittenAt(s) /\ RebuiltAt(s)
  BY DEF DataInv
<1>4. headers[next + 1].offset = s[Handled + 1]
  BY <1>2, <1>3 DEF StartsAt
<1>5. /\ Len(rebuilt) = total /\ RebuiltUpTo(Handled)
      /\ offset = s[Handled + 1] /\ furthest <= offset
  BY <1>1, <1>3 DEF RebuiltAt
<1>6. next \in Nat /\ Len(headers) \in Nat /\ headers[next + 1].count \in Nat
  BY <1>1, <1>2, Types, DataTypes
<1>7. Handled' = Handled
  BY <1>1, <1>2, <1>6 DEF Handled
<1>8. offset' = offset
  BY <1>1, <1>4, <1>5 DEF BundleStart
<1>9. offset \in Nat
  <2>1. Handled \in Nat /\ Handled <= Len(entries) /\ Len(entries) \in Nat
    BY <1>1, Through, Types
  <2>2. Handled + 1 \in 1..(Len(entries) + 1)
    BY <2>1
  <2> QED
    BY <1>3, <1>5, <2>2
<1>10. furthest' \in Nat /\ furthest' <= offset'
  <2>1. furthest \in Nat
    BY <1>1 DEF DataTypeOK
  <2> QED
    BY <1>1, <1>5, <1>8, <1>9, <2>1 DEF Reached, Larger
<1>11. DataTypeOK'
  <2>1. next' \in 0..Len(headers') /\ at' \in Nat /\ at' <= headers'[next'].count
    BY <1>1, <1>6
  <2> QED
    BY <1>1, <1>10, <2>1 DEF DataTypeOK
<1>12. LaidOutSoFar' /\ DataSurvives'
  BY <1>1 DEF DataInv, LaidOutSoFar, DataSurvives
<1>13. LargestEnd' = LargestEnd /\ \A n : DataAfter(n)' = DataAfter(n)
  BY <1>1 DEF LargestEnd, DataAfter
<1>14. StartsAt(s)'
  BY <1>1, <1>3 DEF StartsAt, DataSize
<1>15. WrittenAt(s)'
  BY <1>1, <1>3, <1>13 DEF WrittenAt, WrittenUpTo
<1>16. RebuiltAt(s)'
  <2>1. RebuiltUpTo(Handled)'
    BY <1>1, <1>5, <1>7 DEF RebuiltUpTo
  <2> QED
    BY <1>1, <1>5, <1>7, <1>8, <1>10, <2>1 DEF RebuiltAt
<1> QED
  BY <1>1, <1>3, <1>11, <1>12, <1>14, <1>15, <1>16 DEF DataInv

\* The data of an export is copied to its place, and touches no other export's.
LEMMA RebuildEntryData == IInv /\ DataInv /\ RebuildEntry => DataInv'
<1> SUFFICES ASSUME IInv, DataInv, RebuildEntry,
                    NEW h, h = Handled, NEW n, n = entries[h + 1], NEW e, e = n[1]
             PROVE DataInv'
  OBVIOUS
<1>1. /\ UNCHANGED <<size, serial, uexp, headers, entries>>
      /\ UNCHANGED <<next, furthest, written, target, total>>
      /\ pc = "rebuild" /\ pc' = "rebuild" /\ ~BundleThrough /\ at' = at + 1
      /\ TypeOK /\ DataTypeOK /\ LaidOutSoFar
  BY DEF RebuildEntry, input, bundles, IInv, DataInv
<1>2. next > 0 /\ at # headers[next].count
  BY <1>1, DataTypes DEF BundleThrough
<1>3. /\ next \in DOMAIN headers
      /\ h = headers[next].first + at /\ h \in Nat
      /\ h + 1 \in DOMAIN entries /\ Entry = n
  BY <1>1, <1>2, AtHand
<1>4. headers[next].first \in Nat /\ headers[next].count \in Nat /\ at \in Nat
      /\ at <= headers[next].count
  BY <1>1, <1>2, <1>3, Types DEF DataTypeOK
<1>5. Handled' = h + 1 /\ at' <= headers[next].count /\ at' \in Nat
  BY <1>1, <1>2, <1>3, <1>4 DEF Handled
<1>6. n \in Nodes /\ e \in Exports /\ size[e] \in Nat /\ serial[e] \in Nat
  BY <1>1, <1>3, DataTypes
<1>7. PICK s \in [1..(Len(entries) + 1) -> Nat] : StartsAt(s) /\ WrittenAt(s) /\ RebuiltAt(s)
  BY DEF DataInv
<1>8. Len(entries) \in Nat /\ DOMAIN entries = 1..Len(entries)
  BY <1>1, Types
<1>9. /\ Len(rebuilt) = total /\ RebuiltUpTo(h)
      /\ offset = s[h + 1] /\ furthest <= offset
  BY <1>1, <1>7 DEF RebuiltAt
<1>10. WrittenUpTo(s, Len(entries))
  BY <1>1, <1>7 DEF WrittenAt
<1>11. s[h + 1] \in Nat /\ s[h + 2] = s[h + 1] + DataSize(n)
  <2>1. s[(h + 1) + 1] = s[h + 1] + DataSize(n)
    BY <1>3, <1>7 DEF StartsAt
  <2>2. (h + 1) + 1 = h + 2 /\ h + 1 \in 1..(Len(entries) + 1)
    BY <1>3, <1>8
  <2> QED
    BY <1>7, <2>1, <2>2
<1>12. /\ DOMAIN target = Exports /\ total \in Nat /\ target[e] \in Nat
       /\ target[e] + size[e] <= total
  BY <1>1, <1>6, DataTypes DEF LaidOutSoFar, DataTypeOK
<1>13. rebuilt \in Seq(Bytes \cup {Tag, Unset}) /\ DOMAIN rebuilt = 1..total
  BY <1>1, <1>9 DEF DataTypeOK
<1>14. CASE n[2] # "Serialize"
  <2>1. rebuilt' = rebuilt /\ offset' = offset
    BY <1>3, <1>14 DEF RebuildEntry
  <2>2. DataTypeOK'
    BY <1>1, <1>5, <2>1 DEF DataTypeOK
  <2>3. LaidOutSoFar' /\ DataSurvives'
    BY <1>1 DEF DataInv, LaidOutSoFar, DataSurvives
  <2>4. LargestEnd' = LargestEnd /\ \A m : DataAfter(m)' = DataAfter(m)
    BY <1>1 DEF LargestEnd, DataAfter
  <2>5. StartsAt(s)'
    BY <1>1, <1>7 DEF StartsAt, DataSize
  <2>6. WrittenAt(s)'
    BY <1>1, <1>7, <2>4 DEF WrittenAt, WrittenUpTo
  <2>7. RebuiltUpTo(h + 1)
    <3>1. \A i \in DOMAIN entries : i <= h + 1 => i = h + 1 \/ i <= h
      BY <1>3, <1>8
    <3> QED
      BY <1>9, <1>14, <3>1 DEF RebuiltUpTo
  <2>8. RebuiltAt(s)'
    <3>1. RebuiltUpTo(Handled)'
      BY <1>1, <1>5, <2>1, <2>7 DEF RebuiltUpTo
    <3>2. offset' = s[Handled' + 1]
      <4>1. s[h + 2] = s[h + 1]
        BY <1>11, <1>14 DEF DataSize
      <4>2. (h + 1) + 1 = h + 2
        BY <1>3
      <4> QED
        BY <1>5, <1>9, <2>1, <4>1, <4>2
    <3> QED
      BY <1>1, <1>9, <2>1, <3>1, <3>2 DEF RebuiltAt
  <2> QED
    BY <1>1, <1>7, <2>2, <2>3, <2>5, <2>6, <2>8 DEF DataInv
<1>15. CASE n[2] = "Serialize"
  <2>1. /\ rebuilt' = [x \in DOMAIN rebuilt |->
                        IF x \in (target[e] + 1)..(target[e] + size[e])
                        THEN written[offset + x - target[e]] ELSE rebuilt[x]]
        /\ offset' = offset + size[e]
    BY <1>3, <1>15 DEF RebuildEntry
  <2>2. ASSUME NEW x \in 1..size[e]
        PROVE  /\ s[h + 1] + x \in DOMAIN written
               /\ written[s[h + 1] + x] = uexp[serial[e] + x]
    <3>1. h + 1 <= Len(entries)
      BY <1>3, <1>8
    <3> QED
      BY <1>3, <1>10, <1>15, <2>2, <3>1 DEF WrittenUpTo
  <2>3. written \in Seq(Bytes)
    BY <1>1 DEF DataTypeOK
  <2>4. ASSUME NEW x \in (target[e] + 1)..(target[e] + size[e])
        PROVE  offset + x - target[e] \in DOMAIN written
    <3>1. x - target[e] \in 1..size[e]
      BY <1>6, <1>12, SMTT(60)
    <3>2. offset + x - target[e] = s[h + 1] + (x - target[e])
      BY <1>6, <1>9, <1>11, <1>12
    <3> QED
      BY <2>2, <3>1, <3>2
  <2>5. rebuilt' \in Seq(Bytes \cup {Tag, Unset}) /\ Len(rebuilt') = total
    <3>1. \A x \in DOMAIN written : written[x] \in Bytes
      BY <2>3
    <3>2. \A x \in 1..total : rebuilt[x] \in Bytes \cup {Tag, Unset}
      <4>1. \A x \in DOMAIN rebuilt : rebuilt[x] \in Bytes \cup {Tag, Unset}
        BY <1>1 DEF DataTypeOK
      <4> QED
        BY <1>13, <4>1
    <3>3. rebuilt' \in [1..total -> Bytes \cup {Tag, Unset}]
      BY <1>13, <2>1, <2>4, <3>1, <3>2
    <3> QED
      BY <1>12, <3>3
  <2>6. ASSUME NEW x \in 1..size[e]
        PROVE  rebuilt'[target[e] + x] = uexp[serial[e] + x]
    <3>1. target[e] + x \in (target[e] + 1)..(target[e] + size[e]) /\ target[e] + x \in 1..total
      BY <1>6, <1>12, SMTT(60)
    <3>2. offset + (target[e] + x) - target[e] = s[h + 1] + x
      BY <1>6, <1>9, <1>11, <1>12
    <3>3. rebuilt'[target[e] + x] = written[offset + (target[e] + x) - target[e]]
      BY <1>13, <2>1, <3>1
    <3> QED
      BY <2>2, <3>2, <3>3
  <2>7. ASSUME NEW d \in Exports, d # e, NEW x \in 1..size[d]
        PROVE  rebuilt'[target[d] + x] = rebuilt[target[d] + x]
    <3>1. size[d] \in Nat /\ target[d] \in Nat /\ target[d] + size[d] <= total
      BY <1>1, <1>12, DataTypes DEF LaidOutSoFar
    <3>2. target[d] + x \in 1..total
      BY <1>12, <3>1
    <3>3. target[d] + x \notin (target[e] + 1)..(target[e] + size[e])
      <4>1. d < e \/ e < d
        BY <1>6, <2>7, GraphAssumption
      <4>2. target[d] + size[d] <= target[e] \/ target[e] + size[e] <= target[d]
        BY <1>1, <1>6, <1>12, <4>1 DEF LaidOutSoFar
      <4> QED
        BY <1>6, <1>12, <3>1, <4>2, SMTT(60)
    <3> QED
      BY <1>13, <2>1, <3>2, <3>3
  <2>8. RebuiltUpTo(Handled)'
    <3> SUFFICES ASSUME NEW i \in DOMAIN entries, i <= h + 1, entries[i][2] = "Serialize",
                        NEW x \in 1..size[entries[i][1]]
                 PROVE  rebuilt'[target[entries[i][1]] + x] = uexp[serial[entries[i][1]] + x]
      BY <1>1, <1>5 DEF RebuiltUpTo
    <3>1. CASE i = h + 1
      BY <2>6, <3>1
    <3>2. CASE i # h + 1
      <4>1. i <= h
        BY <1>3, <1>8, <3>2
      <4>2. entries[i] \in Nodes /\ entries[i][1] \in Exports
        BY <1>1, DataTypes
      <4>3. entries[i][1] # e
        <5> SUFFICES ASSUME entries[i][1] = e PROVE FALSE
          OBVIOUS
        <5>1. entries[i] = n
          BY <1>6, <1>15, <4>2 DEF Nodes
        <5>2. /\ i \in DOMAIN order /\ h + 1 \in DOMAIN order
              /\ order[i] = entries[i] /\ order[h + 1] = n
          <6>1. /\ Len(entries) <= Len(order)
                /\ \A j \in DOMAIN entries : entries[j] = order[j]
            BY DEF IInv, PlacedSoFar
          <6>2. \A j \in DOMAIN entries : j \in DOMAIN order
            BY <1>1, <1>8, <6>1, Types
          <6> QED
            BY <1>3, <6>1, <6>2
        <5> QED
          BY <3>2, <5>1, <5>2 DEF IInv, SortedSoFar
      <4>4. rebuilt[target[entries[i][1]] + x] = uexp[serial[entries[i][1]] + x]
        BY <1>9, <4>1 DEF RebuiltUpTo
      <4> QED
        BY <2>7, <4>2, <4>3, <4>4
    <3> QED
      BY <3>1, <3>2
  <2>9. offset' = s[Handled' + 1] /\ furthest' <= offset'
    <3>1. offset' = s[h + 2]
      BY <1>9, <1>11, <1>15, <2>1 DEF DataSize
    <3>2. (h + 1) + 1 = h + 2
      BY <1>3
    <3>3. furthest \in Nat
      BY <1>1 DEF DataTypeOK
    <3>4. furthest <= offset'
      BY <1>6, <1>9, <1>11, <2>1, <3>3
    <3> QED
      BY <1>1, <1>5, <3>1, <3>2, <3>4
  <2>10. DataTypeOK'
    BY <1>1, <1>5, <2>5 DEF DataTypeOK
  <2>11. LaidOutSoFar' /\ DataSurvives'
    BY <1>1 DEF DataInv, LaidOutSoFar, DataSurvives
  <2>12. LargestEnd' = LargestEnd /\ \A m : DataAfter(m)' = DataAfter(m)
    BY <1>1 DEF LargestEnd, DataAfter
  <2>13. StartsAt(s)'
    BY <1>1, <1>7 DEF StartsAt, DataSize
  <2>14. WrittenAt(s)'
    BY <1>1, <1>7, <2>12 DEF WrittenAt, WrittenUpTo
  <2>15. RebuiltAt(s)'
    BY <1>1, <2>5, <2>8, <2>9 DEF RebuiltAt
  <2> QED
    BY <1>1, <1>7, <2>10, <2>11, <2>13, <2>14, <2>15 DEF DataInv
<1> QED
  BY <1>14, <1>15

\* What follows the bundles goes behind the exports.
LEMMA EndRebuildingData == IInv /\ DataInv /\ EndRebuilding => DataInv'
<1> SUFFICES ASSUME IInv, DataInv, EndRebuilding,
                    NEW N, N = Len(entries), NEW B, B = Bytes \cup {Tag, Unset}
             PROVE  DataInv'
  OBVIOUS
<1>1. /\ UNCHANGED <<size, serial, uexp, headers, entries>>
      /\ UNCHANGED <<offset, next, at, furthest, written, target, total>>
      /\ pc = "rebuild" /\ pc' = "done" /\ BundleThrough /\ next = Len(headers)
      /\ TypeOK /\ DataTypeOK /\ LaidOutSoFar
  BY DEF EndRebuilding, input, bundles, position, IInv, DataInv
<1>2. rebuilt' = IF headers = <<>> THEN written
                 ELSE rebuilt \o SubSeq(written, Reached + 1, Len(written)) \o <<Tag>>
  BY DEF EndRebuilding
<1>3. Handled = N /\ N \in Nat /\ DOMAIN entries = 1..N /\ DOMAIN headers = 1..Len(headers)
      /\ Len(headers) \in Nat
  BY <1>1, Through, Types
<1>4. PICK s \in [1..(N + 1) -> Nat] : StartsAt(s) /\ WrittenAt(s) /\ RebuiltAt(s)
  BY DEF DataInv
<1>5. /\ Len(rebuilt) = total /\ RebuiltUpTo(N)
      /\ offset = s[N + 1] /\ furthest <= offset
  BY <1>1, <1>3, <1>4 DEF RebuiltAt
<1>6. s[N + 1] <= Len(written) /\ SubSeq(written, s[N + 1] + 1, Len(written)) = DataAfter(LargestEnd)
  BY <1>1, <1>4 DEF WrittenAt
<1>7. /\ s[N + 1] \in Nat /\ furthest \in Nat /\ total \in Nat
      /\ written \in Seq(Bytes) /\ rebuilt \in Seq(B)
  <2>1. N + 1 \in 1..(N + 1)
    BY <1>3
  <2>2. s[N + 1] \in Nat
    BY <1>4, <2>1
  <2> QED
    BY <1>1, <2>2 DEF DataTypeOK
<1>8. LargestEnd' = LargestEnd /\ \A n : DataAfter(n)' = DataAfter(n)
  BY <1>1 DEF LargestEnd, DataAfter
<1>9. \A e \in Exports : Blob(e)' = Blob(e)
  BY <1>1 DEF Blob
<1>10. DOMAIN target = Exports
       /\ \A e, x \in Exports : e < x => target[e] + size[e] <= target[x]
  BY <1>1 DEF LaidOutSoFar
<1>16. \A e \in Exports : target[e] + size[e] <= total
  BY <1>1 DEF LaidOutSoFar
<1>11. ASSUME NEW e \in Exports
       PROVE  /\ headers # <<>>
              /\ \A x \in 1..size[e] : rebuilt[target[e] + x] = uexp[serial[e] + x]
  <2>1. PICK i \in DOMAIN entries : entries[i] = <<e, "Serialize">>
    BY <1>1, AllListed DEF BundlesBuilt
  <2>2. i <= N /\ entries[i][1] = e /\ entries[i][2] = "Serialize"
    BY <1>3, <2>1
  <2>3. Len(headers) # 0
    <3>1. bundleOf[entries[i]] \in DOMAIN headers
      BY DEF IInv, Ascending
    <3> QED
      BY <1>3, <3>1
  <2> QED
    BY <1>5, <2>2, <2>3 DEF RebuiltUpTo
<1>12. DataSurvives'
  <2>1. CASE headers = <<>>
    <3>1. Exports = {} /\ total = 0 /\ N = 0
      <4>1. Exports = {}
        BY <1>11, <2>1
      <4>2. N = 0
        <5>1. next = 0
          BY <1>1, <2>1
        <5> QED
          BY <1>3, <5>1 DEF Handled
      <4> QED
        BY <1>1, <1>10, <4>1, <4>2 DEF LaidOutSoFar
    <3>2. rebuilt' = written /\ total' = 0 /\ s[N + 1] = 0
      BY <1>1, <1>2, <1>4, <2>1, <3>1 DEF StartsAt
    <3>3. SubSeq(rebuilt', total' + 1, Len(rebuilt')) = DataAfter(LargestEnd)
      BY <1>6, <3>2
    <3>4. DataAfter(LargestEnd) \in Seq(Bytes)
      <4>1. Len(written) \in Nat /\ Len(written) <= Len(written)
        BY <1>7
      <4>2. SubSeq(written, s[N + 1] + 1, Len(written)) \in Seq(Bytes)
        BY <1>7, <4>1, Piece
      <4> QED
        BY <1>6, <4>2
    <3>5. DataAfter(LargestEnd) \o <<>> = DataAfter(LargestEnd)
      BY <3>4
    <3> QED
      BY <1>1, <1>8, <3>1, <3>3, <3>5 DEF DataSurvives
  <2>2. CASE headers # <<>>
    <3>1. Exports # {}
      <4>1. 1 \in DOMAIN headers
        BY <1>1, <1>3, <2>2 DEF TypeOK
      <4>2. /\ headers[1].first \in Nat /\ headers[1].count \in Nat /\ headers[1].count > 0
            /\ EndOf(1) <= N /\ EndOf(1) = headers[1].first + headers[1].count
        BY <1>1, <4>1, Types DEF IInv, CutSoFar, EndOf
      <4>3. 1 \in DOMAIN entries
        BY <1>3, <4>2
      <4> QED
        BY <1>1, <4>3, DataTypes
    <3>2. Reached = s[N + 1]
      <4>1. next # 0
        BY <1>1, <1>3, <2>2 DEF TypeOK
      <4> QED
        BY <1>5, <1>7, <4>1 DEF Reached, Larger
    <3>3. PICK rest : rest = DataAfter(LargestEnd) \o <<Tag>>
      OBVIOUS
    <3>4. rebuilt' = rebuilt \o rest /\ rest \in Seq(B)
      <4>1. DataAfter(LargestEnd) = SubSeq(written, Reached + 1, Len(written))
        BY <1>6, <3>2
      <4>2. Len(written) \in Nat /\ Len(written) <= Len(written)
        BY <1>7
      <4>3. DataAfter(LargestEnd) \in Seq(Bytes)
        <5>1. SubSeq(written, s[N + 1] + 1, Len(written)) \in Seq(Bytes)
          BY <1>7, <4>2, Piece
        <5> QED
          BY <1>6, <5>1
      <4>4. DataAfter(LargestEnd) \in Seq(B) /\ <<Tag>> \in Seq(B)
        BY <4>3
      <4>5. rest \in Seq(B)
        BY <3>3, <4>4
      <4>6. \A t, u \in Seq(B) : (rebuilt \o t) \o u = rebuilt \o (t \o u)
        BY <1>7, SMTT(60)
      <4>7. (rebuilt \o DataAfter(LargestEnd)) \o <<Tag>> = rebuilt \o rest
        BY <3>3, <4>4, <4>6
      <4>8. rebuilt' = (rebuilt \o DataAfter(LargestEnd)) \o <<Tag>>
        BY <1>2, <2>2, <4>1
      <4> QED
        BY <4>5, <4>7, <4>8
    <3>5. /\ SubSeq(rebuilt', total + 1, Len(rebuilt')) = rest
          /\ \A x \in 1..total : rebuilt'[x] = rebuilt[x]
          /\ rebuilt' \in Seq(B) /\ Len(rebuilt') \in Nat /\ total <= Len(rebuilt')
      <4>1. /\ rebuilt' \in Seq(B) /\ Len(rebuilt') = total + Len(rest)
            /\ \A x \in 1..total : rebuilt'[x] = rebuilt[x]
        BY <1>5, <1>7, <3>4, Concatenation, ZenonT(60)
      <4>2. SubSeq(rebuilt', total + 1, Len(rebuilt')) = rest
        BY <1>5, <1>7, <3>4, SecondPart
      <4>3. Len(rest) \in Nat
        BY <3>4
      <4> QED
        BY <1>7, <4>1, <4>2, <4>3
    <3>6. ASSUME NEW e \in Exports
          PROVE  SubSeq(rebuilt', target[e] + 1, target[e] + size[e]) = Blob(e)
      <4>1. size[e] \in Nat /\ target[e] \in Nat /\ target[e] + size[e] <= total
        <5>1. size[e] \in Nat
          BY <1>1, DataTypes
        <5>2. target[e] \in Nat
          BY <1>1, <1>10, DataTypes
        <5>3. target[e] + size[e] <= total
          BY <1>16
        <5> QED
          BY <5>1, <5>2, <5>3
      <4>2. PICK u, r : r = rebuilt' /\ u = SubSeq(r, target[e] + 1, target[e] + size[e])
        OBVIOUS
      <4>3. target[e] + size[e] \in Nat /\ target[e] + size[e] <= Len(rebuilt')
        BY <1>7, <3>5, <4>1, SMTT(60)
      <4>4. /\ u \in Seq(B) /\ Len(u) = size[e]
            /\ \A x \in 1..Len(u) : u[x] = rebuilt'[target[e] + x]
        <5>1. r \in Seq(B) /\ target[e] + size[e] <= Len(r)
          BY <3>5, <4>2, <4>3
        <5>2. PICK f, l : f = target[e] /\ l = target[e] + size[e]
          OBVIOUS
        <5>3. f \in Nat /\ l \in Nat /\ l <= Len(r) /\ u = SubSeq(r, f + 1, l)
          BY <4>1, <4>2, <4>3, <5>1, <5>2
        <5>4. u \in Seq(B) /\ Len(u) = IF f < l THEN l - f ELSE 0
          BY <5>1, <5>3, Piece
        <5>5. \A x \in 1..Len(SubSeq(r, f + 1, l)) : SubSeq(r, f + 1, l)[x] = r[f + x]
          BY <5>1, <5>3, Piece
        <5>6. \A x \in 1..Len(u) : u[x] = rebuilt'[target[e] + x]
          BY <4>2, <5>2, <5>3, <5>5
        <5>7. Len(u) = size[e]
          BY <4>1, <5>2, <5>4
        <5> QED
          BY <5>4, <5>6, <5>7
      <4>6. ASSUME NEW x \in 1..size[e] PROVE u[x] = uexp[serial[e] + x]
        <5>1. target[e] + x \in 1..total
          BY <1>7, <4>1, SMTT(60)
        <5> QED
          BY <1>11, <3>5, <4>4, <5>1
      <4>7. /\ Blob(e) \in Seq(Bytes) /\ Len(Blob(e)) = size[e]
            /\ \A x \in 1..size[e] : Blob(e)[x] = uexp[serial[e] + x]
        BY <1>1, BlobType
      <4>8. u = Blob(e)
        <5>1. PICK v : v = Blob(e)
          OBVIOUS
        <5>2. v \in Seq(B) /\ Len(v) = Len(u)
          BY <4>4, <4>7, <5>1
        <5>3. \A x \in 1..Len(u) : u[x] = v[x]
          BY <4>4, <4>6, <4>7, <5>1
        <5> QED
          BY <4>4, <5>1, <5>2, <5>3, SameList
      <4> QED
        BY <4>2, <4>8
    <3> QED
      BY <1>1, <1>8, <1>9, <1>10, <3>1, <3>3, <3>5, <3>6 DEF DataSurvives
  <2> QED
    BY <2>1, <2>2
<1>13. DataTypeOK'
  <2>1. rebuilt' \in Seq(B)
    <3>1. written \in Seq(B)
      BY <1>7
    <3>2. Reached \in Nat
      BY <1>5, <1>7 DEF Reached, Larger
    <3>3. Len(written) \in Nat /\ Len(written) <= Len(written)
      BY <1>7
    <3>4. SubSeq(written, Reached + 1, Len(written)) \in Seq(B)
      BY <3>1, <3>2, <3>3, Piece
    <3>5. <<Tag>> \in Seq(B)
      OBVIOUS
    <3>6. rebuilt \o SubSeq(written, Reached + 1, Len(written)) \in Seq(B)
      BY <1>7, <3>4, Concatenation
    <3>7. rebuilt \o SubSeq(written, Reached + 1, Len(written)) \o <<Tag>> \in Seq(B)
      BY <3>5, <3>6, Concatenation
    <3> QED
      BY <1>2, <3>1, <3>7
  <2> QED
    BY <1>1, <2>1 DEF DataTypeOK
<1>14. LaidOutSoFar'
  BY <1>1 DEF LaidOutSoFar
<1>15. StartsAt(s)' /\ WrittenAt(s)' /\ RebuiltAt(s)'
  BY <1>1, <1>4 DEF StartsAt, DataSize, WrittenAt, RebuiltAt
<1> QED
  BY <1>1, <1>4, <1>12, <1>13, <1>14, <1>15 DEF DataInv

\* Out to the zen package and back, the data of every export survives and has its
\* own place, and so do the bytes that follow the exports.
THEOREM RoundTripKeepsData == Spec => []DataSurvives
<1>1. IInv /\ DataInv /\ [Next]_vars => DataInv'
  BY IdleData, SortData, PlaceData, ArcsData, StartBundleData, WriteEntryData, EndWritingData,
     LayOutData, EndLayingOutData, StartReadingData, RebuildEntryData, EndRebuildingData
     DEF Next, Returned
<1>2. DataInv => DataSurvives
  BY DEF DataInv
<1> QED
  BY <1>1, <1>2, InitData, BundlesSafety, PTL DEF Spec
=============================================================================
