---------------------------- MODULE ExternalArcs ----------------------------
(***************************************************************************)
(* The arcs from the export bundles of other packages to those of a        *)
(* converted package, for container headers older than NoExportInfo        *)
(* (src/src/zen_asset_conversion.rs, create_dependency_arc_from_node and   *)
(* fixup_legacy_external_arcs; src/src/zen.rs serialises them).            *)
(*                                                                         *)
(* From UE5 on an arc names an import and a command on it.  A UE4 arc      *)
(* names a bundle of the imported package, unknown while packages are      *)
(* converted one by one: a placeholder is written and replaced once every  *)
(* package of the container has been converted.                            *)
(***************************************************************************)
EXTENDS Naturals, Sequences, FiniteSets

CONSTANTS
  Nodes,      \* the commands on the exports of the package
  Objects,    \* the objects it imports
  Packages,   \* the packages it imports
  None,
  PackageOf,  \* the package of an object; None for script objects
  Bundles,    \* bound: export bundle numbers
  MaxDependencies  \* bound: how many dependencies on imports the package has

Commands == {"Create", "Serialize"}

ASSUME ArcsAssumption ==
  /\ PackageOf \in [Objects -> Packages \cup {None}]
  /\ None \notin Packages \cup Nat
  /\ Bundles \subseteq Nat \ {0}
  /\ IsFiniteSet(Nodes) /\ IsFiniteSet(Objects) /\ IsFiniteSet(Packages)
  /\ MaxDependencies \in Nat

VARIABLES
  version,   \* "UE4" (Initial, with fixup) or "UE5" (up to SoftPackageReferences)
  depends,   \* the dependencies of its commands on commands on imports
  bundleOf,  \* export_to_bundle_map
  todo,      \* the dependencies that no arc was made for yet
  seen,      \* legacy_dependency_arcs or external_dependency_arcs
  fixups,    \* legacy_external_arc_fixup_data; placeholders count from 1
  arcs,      \* external_package_dependencies
  held,      \* the imported packages that are in the container
  located,   \* the bundles their legacy_export_bundle_mapping has for imports
  graph,     \* the arcs as written in the package, by imported package
  unfixed,   \* legacy_external_arc_serialized_offsets, of the arcs still to be fixed
  pc         \* "arcs", "fix", "done" or "failed"

package == <<version, depends, bundleOf>>
others == <<held, located>>
vars == <<package, todo, seen, fixups, arcs, others, graph, unfixed, pc>>

\* The number that means "last export bundle in the package" (-1 in the code,
\* where bundles and placeholders count from 0).
LastBundle == 0

\* The commands on imported objects of other packages.
Imports == {i \in Objects \X Commands : PackageOf[i[1]] # None}

Dependencies == Nodes \X (Objects \X Commands)

-----------------------------------------------------------------------------
Init ==
  /\ version \in {"UE4", "UE5"}
  /\ bundleOf \in [Nodes -> Bundles]
  /\ depends \in SUBSET Dependencies /\ Cardinality(depends) <= MaxDependencies
  /\ todo = depends
  /\ seen = {}
  /\ fixups = <<>>
  /\ arcs = [p \in Packages |-> <<>>]
  /\ held = {}
  /\ located = [i \in Imports |-> None]
  /\ graph = [p \in Packages |-> <<>>]
  /\ unfixed = {}
  /\ pc = "arcs"

\* A dependency on a script object needs no arc.
Skip(d) ==
  /\ pc = "arcs" /\ d \in todo /\ PackageOf[d[2][1]] = None
  /\ todo' = todo \ {d}
  /\ UNCHANGED <<package, seen, fixups, arcs, others, graph, unfixed, pc>>

\* Variant of AddArc: an arc is a duplicate when it has the same source.
AddArcPerSource(p, arc) ==
  IF \E a \in seen : a[1] = p /\ a[2].from = arc.from
  THEN UNCHANGED <<seen, arcs>>
  ELSE /\ seen' = seen \cup {<<p, arc>>}
       /\ arcs' = [arcs EXCEPT ![p] = Append(@, arc)]

\* The arc is added if the same arc was not added before.
AddArc(p, arc) ==
  IF <<p, arc>> \in seen
  THEN UNCHANGED <<seen, arcs>>
  ELSE /\ seen' = seen \cup {<<p, arc>>}
       /\ arcs' = [arcs EXCEPT ![p] = Append(@, arc)]

\* UE5: the arc has the import and the command it depends on.
DependOnImport(d) ==
  /\ pc = "arcs" /\ version = "UE5"
  /\ d \in todo /\ PackageOf[d[2][1]] # None
  /\ todo' = todo \ {d}
  /\ AddArc(PackageOf[d[2][1]], [from |-> d[2], to |-> bundleOf[d[1]]])
  /\ UNCHANGED <<package, fixups, others, graph, unfixed, pc>>

\* UE4: the arc has a placeholder, with which the fixup is looked up later.
DependOnBundle(d) ==
  /\ pc = "arcs" /\ version = "UE4"
  /\ d \in todo /\ PackageOf[d[2][1]] # None
  /\ todo' = todo \ {d}
  /\ fixups' = Append(fixups, [package |-> PackageOf[d[2][1]], import |-> d[2]])
  /\ AddArc(PackageOf[d[2][1]], [from |-> Len(fixups'), to |-> bundleOf[d[1]]])
  /\ UNCHANGED <<package, others, graph, unfixed, pc>>

\* Where the arcs of the packages are.
Offsets(g) == UNION {{p} \X DOMAIN g[p] : p \in Packages}

\* The arcs are written, package by package.  UE4: then the other packages of
\* the container are waited for.
Serialize ==
  /\ pc = "arcs" /\ todo = {}
  /\ graph' = arcs
  /\ IF version = "UE4"
     THEN /\ unfixed' = Offsets(arcs)
          /\ held' \in SUBSET Packages
          /\ located' \in {f \in [Imports -> Bundles \cup {None}] :
                            \A i \in Imports : PackageOf[i[1]] \notin held' => f[i] = None}
          /\ pc' = "fix"
     ELSE UNCHANGED <<unfixed, others>> /\ pc' = "done"
  /\ UNCHANGED <<package, todo, seen, fixups, arcs>>

-----------------------------------------------------------------------------
\* Variant of Locate: the command of the dependency is not looked at.
LocateCreated(import) == located[<<import[1], "Create">>]

\* The bundle of another package that has the command on the import, if any.
Locate(import) == located[import]

\* What the fixup data with a placeholder resolves to.
Resolve(fixup) == IF fixup.package \in held THEN Locate(fixup.import) ELSE LastBundle

\* A placeholder is replaced.  Their order does not matter: each is found at its
\* own offset.
FixArc(p, i) ==
  /\ pc = "fix" /\ <<p, i>> \in unfixed
  /\ Resolve(fixups[graph[p][i].from]) # None
  /\ graph' = [graph EXCEPT ![p][i].from = Resolve(fixups[@])]
  /\ unfixed' = unfixed \ {<<p, i>>}
  /\ UNCHANGED <<package, todo, seen, fixups, arcs, others, pc>>

\* The imported package is in the container, the export is not in it.
FixFails(p, i) ==
  /\ pc = "fix" /\ <<p, i>> \in unfixed
  /\ Resolve(fixups[graph[p][i].from]) = None
  /\ pc' = "failed"
  /\ UNCHANGED <<package, todo, seen, fixups, arcs, others, graph, unfixed>>

EndFix ==
  /\ pc = "fix" /\ unfixed = {}
  /\ pc' = "done"
  /\ UNCHANGED <<package, todo, seen, fixups, arcs, others, graph, unfixed>>

\* The package is written, or the command has failed.
Returned == pc \in {"done", "failed"} /\ UNCHANGED vars

Next ==
  \/ \E d \in todo : Skip(d) \/ DependOnImport(d) \/ DependOnBundle(d)
  \/ \E o \in unfixed : FixArc(o[1], o[2]) \/ FixFails(o[1], o[2])
  \/ Serialize \/ EndFix \/ Returned

Spec == Init /\ [][Next]_vars

-----------------------------------------------------------------------------
\* What an arc is from: the import, or a placeholder and then a bundle.
From == IF version = "UE5" THEN Imports ELSE Nat
Arc == [from : From, to : Bundles]

\* The types of the variables.
TypeOK ==
  /\ version \in {"UE4", "UE5"}
  /\ bundleOf \in [Nodes -> Bundles]
  /\ depends \subseteq Dependencies /\ todo \subseteq depends
  /\ fixups \in Seq([package : Packages, import : Imports])
  /\ arcs \in [Packages -> Seq(Arc)]
  /\ graph \in [Packages -> Seq(Arc)]
  /\ unfixed \subseteq Offsets(graph)
  /\ held \subseteq Packages
  /\ located \in [Imports -> Bundles \cup {None}]
  /\ pc \in {"arcs", "fix", "done", "failed"}

\* What the arc of a dependency has to wait for.
Source(d) ==
  IF version = "UE5" THEN d[2]
  ELSE IF PackageOf[d[2][1]] \in held THEN located[d[2]] ELSE LastBundle

\* The written arcs are those of the dependencies, each naming what its own
\* dependency needs: none is lost as a duplicate of another, none resolved
\* with the data of another, and no placeholder is left.  UE5 writes each once,
\* however many commands of a bundle depend on the same command on an import.
NoDuplicates ==
  \A p \in Packages : \A i, j \in DOMAIN graph[p] : graph[p][i] = graph[p][j] => i = j
ArcsMatchDependencies ==
  pc = "done" =>
    /\ \A p \in Packages :
         {graph[p][i] : i \in DOMAIN graph[p]} =
           {[from |-> Source(d), to |-> bundleOf[d[1]]] :
              d \in {e \in depends : e[2] \in Imports /\ PackageOf[e[2][1]] = p}}
    /\ version = "UE5" => NoDuplicates

\* The fixup is given up only over an import that its package does not export.
FailsJustly ==
  pc = "failed" =>
    \E d \in depends : /\ d[2] \in Imports
                        /\ PackageOf[d[2][1]] \in held
                        /\ located[d[2]] = None

\* "Prevent adding duplicate dependencies on the packages"
\* (zen_asset_conversion.rs:470), of every package that is written.
PackagesWithoutDuplicates == pc = "done" => NoDuplicates
=============================================================================
