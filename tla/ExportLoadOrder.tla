-------------------------- MODULE ExportLoadOrder --------------------------
(***************************************************************************)
(* How the to-zen conversion orders the export commands of a package:      *)
(* sort_dependencies_in_load_order (src/src/zen_asset_conversion.rs) takes *)
(* nodes without unsatisfied dependencies from a priority heap until none  *)
(* is left.                                                                *)
(***************************************************************************)
EXTENDS ExportGraph

VARIABLES
  incoming,   \* incoming_edge_count
  heap,       \* nodes_with_no_incoming_edges
  loadOrder,  \* load_order
  phase       \* "prime", "sort", "sorted" or "cyclic"

sortVars == <<preload, public, incoming, heap, loadOrder, phase>>

-----------------------------------------------------------------------------
\* The order of the heap: public exports first, then Create commands before
\* Serialize commands, then lower export indices.
Precedes(m, n) ==
  \/ m[1] \in public /\ n[1] \notin public
  \/ /\ m[1] \in public <=> n[1] \in public
     /\ \/ m[2] = "Create" /\ n[2] = "Serialize"
        \/ m[2] = n[2] /\ m[1] < n[1]

-----------------------------------------------------------------------------
SortInit ==
  /\ AnyPackage
  /\ incoming = [n \in Nodes |-> 0]
  /\ heap = {}
  /\ loadOrder = <<>>
  /\ phase = "prime"

\* Edges are counted, and the nodes without any go on the heap.
Prime ==
  /\ phase = "prime"
  /\ incoming' = [n \in Nodes |-> Cardinality(Edges(n))]
  /\ heap' = {n \in Nodes : incoming'[n] = 0}
  /\ phase' = "sort"
  /\ UNCHANGED <<preload, public, loadOrder>>

\* Variant of Satisfy: a node with several edges to n loses only one.
SatisfyOnce(n) ==
  incoming' = [m \in Nodes |-> incoming[m] - IF n \in Needs(m) THEN 1 ELSE 0]

\* Every edge from n is taken away.
Satisfy(n) ==
  incoming' = [m \in Nodes |-> incoming[m] - Cardinality(EdgesFrom(m, {n}))]

\* Variant of Place: a node goes on the heap with its first satisfied edge.
PlaceEager(n) ==
  /\ phase = "sort" /\ n \in heap
  /\ \A m \in heap \ {n} : Precedes(n, m)
  /\ loadOrder' = Append(loadOrder, n)
  /\ Satisfy(n)
  /\ heap' = (heap \ {n}) \cup {m \in Nodes : n \in Needs(m)}
  /\ UNCHANGED <<preload, public, phase>>

\* Variant of Place: the nodes are kept in a stack instead of a heap.
PlaceAny(n) ==
  /\ phase = "sort" /\ n \in heap
  /\ loadOrder' = Append(loadOrder, n)
  /\ Satisfy(n)
  /\ heap' = (heap \ {n}) \cup {m \in Nodes : n \in Needs(m) /\ incoming'[m] = 0}
  /\ UNCHANGED <<preload, public, phase>>

\* The first node of the heap is placed; the nodes whose last edge it takes
\* away go on the heap.
Place(n) ==
  /\ phase = "sort" /\ n \in heap
  /\ \A m \in heap \ {n} : Precedes(n, m)
  /\ loadOrder' = Append(loadOrder, n)
  /\ Satisfy(n)
  /\ heap' = (heap \ {n}) \cup {m \in Nodes : n \in Needs(m) /\ incoming'[m] = 0}
  /\ UNCHANGED <<preload, public, phase>>

\* The heap is empty: nodes that were not placed are in or behind a cycle.
Finish ==
  /\ phase = "sort" /\ heap = {}
  /\ phase' = IF Len(loadOrder) = Cardinality(Nodes) THEN "sorted" ELSE "cyclic"
  /\ UNCHANGED <<preload, public, incoming, heap, loadOrder>>

\* The sort has returned.
SortReturned == phase \in {"sorted", "cyclic"} /\ UNCHANGED sortVars

SortNext == Prime \/ (\E n \in Nodes : Place(n)) \/ Finish \/ SortReturned

SortSpec == SortInit /\ [][SortNext]_sortVars

\* The sort is a sequential function: it runs until it returns.
-----------------------------------------------------------------------------
Placed == {loadOrder[i] : i \in DOMAIN loadOrder}

\* The types of the variables; counts never fall below zero.
SortTypeOK ==
  /\ preload \in [Nodes -> SUBSET ((Exports \cup Imports) \X Commands)]
  /\ public \subseteq Exports
  /\ incoming \in [Nodes -> Nat]
  /\ heap \subseteq Nodes
  /\ loadOrder \in Seq(Nodes)
  /\ phase \in {"prime", "sort", "sorted", "cyclic"}

\* A node is placed at most once, and after all it depends on.
RespectsDependencies ==
  \A i \in DOMAIN loadOrder :
    \A m \in Needs(loadOrder[i]) : \E j \in 1..(i - 1) : loadOrder[j] = m

PlacedOnce == \A i, j \in DOMAIN loadOrder : loadOrder[i] = loadOrder[j] => i = j

\* The counts are those of the edges from nodes that are not placed, and the
\* heap holds the nodes that could be placed next.
CountsUnplaced ==
  phase # "prime" =>
    /\ \A n \in Nodes : incoming[n] = Cardinality(EdgesFrom(n, Nodes \ Placed))
    /\ heap = {n \in Nodes \ Placed : incoming[n] = 0}

\* An order is complete when it is returned; it is refused only when every
\* node that is left depends on another one that is left.
VerdictJust ==
  /\ phase = "sorted" => Placed = Nodes
  /\ phase = "cyclic" =>
       /\ Placed # Nodes
       /\ \A n \in Nodes \ Placed : Needs(n) \cap (Nodes \ Placed) # {}

PlacedBefore(i) == {loadOrder[j] : j \in 1..(i - 1)}

\* The order does not depend on how the heap and the hash maps were filled: at
\* each position stands the first node, by priority, of those whose
\* dependencies were all placed before.
OrderCanonical ==
  \A i \in DOMAIN loadOrder :
    \A n \in Nodes \ (PlacedBefore(i) \cup {loadOrder[i]}) :
      Needs(n) \subseteq PlacedBefore(i) => Precedes(loadOrder[i], n)

\* The inductive invariant behind the safety properties.
SortSafe ==
  /\ SortTypeOK
  /\ phase = "prime" => loadOrder = <<>>
  /\ PlacedOnce
  /\ RespectsDependencies
  /\ CountsUnplaced
  /\ VerdictJust

\* The sort lists nodes as its promise allows.
Promise == INSTANCE LoadOrder WITH
             needs <- [n \in Nodes |-> Needs(n)],
             listed <- loadOrder,
             verdict <- IF phase \in {"prime", "sort"} THEN "sorting" ELSE phase

SortsInLoadOrder == Promise!Spec
=============================================================================
