---------------------------- MODULE ExportGraph ----------------------------
(***************************************************************************)
(* The graph that build_zen_preload_dependencies makes of the preload      *)
(* dependencies of a legacy package (src/src/zen_asset_conversion.rs): its *)
(* nodes are the Create and Serialize commands of the package's exports.   *)
(* Commands on imports occur as dependencies only: <<index, command>>.     *)
(***************************************************************************)
EXTENDS Naturals, Sequences, FiniteSets

CONSTANTS
  Exports,      \* the indices of the package's exports
  Imports,      \* its imports
  Preloads      \* the preload dependencies considered, by export node

Commands == {"Create", "Serialize"}

Nodes == Exports \X Commands

ASSUME GraphAssumption ==
  /\ IsFiniteSet(Exports) /\ Exports \subseteq Nat
  /\ Imports \cap Exports = {}
  /\ Preloads \subseteq [Nodes -> SUBSET ((Exports \cup Imports) \X Commands)]

VARIABLES
  preload,   \* the preload dependencies of each command
  public     \* the exports other packages may import

\* The dependencies of node n on other exports, each with where it comes from:
\* a Serialize command depends on the Create command of its export whatever
\* the package says, so that dependency may be counted twice.
Edges(n) ==
  {<<m, "preload">> : m \in preload[n] \cap Nodes} \cup
  {<<<<n[1], "Create">>, "own">> : c \in {n[2]} \cap {"Serialize"}}

Needs(n) == {e[1] : e \in Edges(n)}

\* The edges into n from the nodes in S.
EdgesFrom(n, S) == {e \in Edges(n) : e[1] \in S}

\* The package at hand.
AnyPackage ==
  /\ preload \in Preloads
  /\ public \in SUBSET Exports
=============================================================================
