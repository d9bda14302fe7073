---------------------------- MODULE ToZenObjects ----------------------------
(***************************************************************************)
(* The objects of a legacy package in the zen package made of it           *)
(* (src/src/zen_asset_conversion.rs): the import and export map, the       *)
(* imported packages and hashes, and what is waited for, by the version of *)
(* the container header, 0 for UE4 (Initial) to 4.                         *)
(*                                                                         *)
(* A zen package is a record with the name, imports, exports, packages     *)
(* (imported_packages), names (imported_package_names), hashes             *)
(* (imported_public_export_hashes), bundles (of commands), internal and    *)
(* external (arcs) and depends (dependency bundles).                       *)
(***************************************************************************)
EXTENDS PackageObjects

LOCAL INSTANCE SequencesExt

LocalizedPackages == 1
OptionalSegmentPackages == 2
NoExportInfo == 3
SoftPackageReferences == 4
HeaderVersions == 0..SoftPackageReferences

\* An FPackageObjectIndex.  From UE5 on an import is a package and a hash, by
\* their numbers; in UE4 it is the path of the object.
NullObject == <<"Null">>
ExportObject(i) == <<"Export", i>>
ScriptObject(path) == <<"Script", path>>
ImportByHash(p, h) == <<"Import", p, h>>
ImportByPath(path) == <<"Import", path>>
IsPackageImport(o) == o[1] = "Import"

\* The names of the localized package and of the package it stands for are
\* equally those of its exports; UE4 hashes are made with the latter.
OwnPaths(package) == Paths(package, SourceName(package.name))

AddOnce(s, x) == IF x \in Range(s) THEN s ELSE Append(s, x)
PositionOf(s, x) == CHOOSE i \in DOMAIN s : s[i] = x

\* resolve_zen_package_import and its UE4 counterpart: the imported object
\* becomes known to the package.
Imported(zen, version, path) ==
  LET packages == AddOnce(zen.packages, path[1])
      hashes == AddOnce(zen.hashes, Tail(path))
  IN  IF version = 0
      THEN [zen EXCEPT !.packages = packages,
                       !.imports = Append(@, ImportByPath(path))]
      ELSE [zen EXCEPT !.packages = packages,
                       !.names = packages,
                       !.hashes = hashes,
                       !.imports = Append(@, ImportByHash(PositionOf(packages, path[1]),
                                                          PositionOf(hashes, Tail(path))))]

\* An import of a native object, of a package (which zen does not have) or of
\* an object of another package.
ConvertImport(zen, version, path) ==
  CASE path[1] \in ScriptPackages -> [zen EXCEPT !.imports = Append(@, ScriptObject(path))]
    [] path[1] \notin ScriptPackages /\ Len(path) = 1 ->
         [zen EXCEPT !.imports = Append(@, NullObject)]
    [] OTHER -> Imported(zen, version, path)

WithImports(zen, version, paths, n) ==
  LET converted[i \in 0..n] ==
        IF i = 0 THEN zen ELSE ConvertImport(converted[i - 1], version, paths[-i])
  IN  converted[n]

Remapped(zen, i) ==
  IF IsExport(i) THEN ExportObject(i)
  ELSE IF IsImport(i) THEN zen.imports[-i] ELSE NullObject

NoHash == <<>>

\* The hash by which other packages import an export.
ExportHash(version, path) == IF version = 0 THEN path ELSE Tail(path)

ConvertExport(zen, version, x, path) ==
  [name |-> x.name, public |-> x.public,
   outer |-> Remapped(zen, x.outer), class |-> Remapped(zen, x.class),
   super |-> Remapped(zen, x.super), template |-> Remapped(zen, x.template),
   hash |-> IF x.public THEN ExportHash(version, path) ELSE NoHash]

-----------------------------------------------------------------------------
(* What the commands of the package wait for.                              *)

\* Dependencies on the commands of other exports, and of Serialize on Create.
InnerNeeds(package) ==
  {d \in package.depends : d[1][1] > 0}
    \cup {<<<<e, "Create">>, <<e, "Serialize">>>> : e \in DOMAIN package.exports}

ExportCommands(package) == (DOMAIN package.exports) \X {"Create", "Serialize"}

\* Which of two ready commands the heap gives out first: one on a public export,
\* then a Create, then that of the smaller index.
Rank(package, n) ==
  <<IF package.exports[n[1]].public THEN 0 ELSE 1, IF n[2] = "Create" THEN 0 ELSE 1, n[1]>>
Precedes(package, m, n) ==
  \E i \in 1..3 : /\ Rank(package, m)[i] < Rank(package, n)[i]
                  /\ \A k \in 1..(i - 1) : Rank(package, m)[k] = Rank(package, n)[k]

\* Variant of LoadOrder that ignores the dependencies.
EagerLoadOrder(package) ==
  SetToSortSeq(ExportCommands(package), LAMBDA m, n : Precedes(package, m, n))

\* The load order: again and again the first of the commands that wait for no
\* other any more.  It ends early if the dependencies have a cycle.
LoadOrder(package) ==
  LET nodes == ExportCommands(package)
      needs == InnerNeeds(package)
      Ready(listed) == {n \in nodes \ listed : \A d \in needs : d[2] = n => d[1] \in listed}
      order[k \in 0..Cardinality(nodes)] ==
        IF k = 0 THEN <<>>
        ELSE LET ready == Ready(Range(order[k - 1]))
             IN  IF ready = {} THEN order[k - 1]
                 ELSE Append(order[k - 1],
                             CHOOSE n \in ready : \A m \in ready \ {n} : Precedes(package, n, m))
  IN  order[Cardinality(nodes)]

\* The sort lists every command; other packages are refused.
Sortable(package) == Len(LoadOrder(package)) = 2 * Len(package.exports)

\* Dependencies on objects of other packages.
OuterNeeds(zen, package) ==
  {d \in package.depends : d[1][1] < 0 /\ IsPackageImport(zen.imports[-d[1][1]])}

\* The export bundles end with the commands on public exports.
Headers(package, order) ==
  LET ends == SetToSortSeq({i \in DOMAIN order : \/ package.exports[order[i][1]].public
                                                 \/ i = Len(order)}, <)
      first(b) == IF b = 1 THEN 0 ELSE ends[b - 1]
  IN  [b \in DOMAIN ends |-> [first |-> first(b), count |-> ends[b] - first(b)]]

BundlesOf(zen) ==
  [b \in DOMAIN zen.headers |->
     SubSeq(zen.entries, zen.headers[b].first + 1, zen.headers[b].first + zen.headers[b].count)]

BundleOf(zen, n) == CHOOSE b \in DOMAIN zen.headers : n \in Range(BundlesOf(zen)[b])

InternalArcs(zen, package) ==
  SetToSeq({a \in {<<BundleOf(zen, d[1]), BundleOf(zen, d[2])>> : d \in InnerNeeds(package)} :
              a[1] # a[2]})

\* The order of the four kinds of dependencies of an export, in a dependency
\* bundle: the commands waited for and the waiting ones.
Kinds == << <<"Create", "Create">>, <<"Serialize", "Create">>,
            <<"Create", "Serialize">>, <<"Serialize", "Serialize">> >>

\* Variant of Bundled: dependencies on imports are left out.
BundledExport(zen, d) == IsExport(d[1][1]) /\ d[1][1] # d[2][1]

\* A dependency goes into the dependency bundles if it is on another export or
\* on an object of another package.
Bundled(zen, d) ==
  /\ d[1][1] # d[2][1]
  /\ IsImport(d[1][1]) => IsPackageImport(zen.imports[-d[1][1]])

\* The dependency bundle of every export: where its entries start and how many
\* of each kind there are.
DependencyBundles(zen, package) ==
  LET bundled == {d \in package.depends : Bundled(zen, d)}
      Group(e, k) == SetToSeq({d[1][1] : d \in {x \in bundled :
                                 x[1][2] = Kinds[k][1] /\ x[2] = <<e, Kinds[k][2]>>}})
      Bundle(e) == FlattenSeq([k \in 1..4 |-> Group(e, k)])
      Before(e) == FlattenSeq([x \in 1..(e - 1) |-> Bundle(x)])
      exports == DOMAIN package.exports
  IN  [headers |-> [e \in exports |-> [first |-> Len(Before(e)),
                                       counts |-> [k \in 1..4 |-> Len(Group(e, k))]]],
       entries |-> Before(Len(package.exports) + 1)]

-----------------------------------------------------------------------------
NoDependencyBundles == [headers |-> <<>>, entries |-> <<>>]

BlankZen(name) ==
  [name |-> name, imports |-> <<>>, exports |-> <<>>, packages |-> <<>>, names |-> <<>>,
   hashes |-> <<>>, headers |-> <<>>, entries |-> <<>>, internal |-> <<>>, external |-> <<>>,
   depends |-> NoDependencyBundles]

\* build_zen_import_map, build_zen_export_map and build_zen_dependency_bundle_new
\* or build_zen_dependency_bundles_legacy, but for the external arcs.
ConvertObjects(package, version) ==
  LET paths == OwnPaths(package)
      zen == WithImports(BlankZen(package.name), version, paths, Len(package.imports))
      exported == [zen EXCEPT
                     !.exports = [e \in DOMAIN package.exports |->
                                    ConvertExport(zen, version, package.exports[e], paths[e])],
                     !.entries = LoadOrder(package)]
      bundled == [exported EXCEPT !.headers = Headers(package, exported.entries)]
  IN  IF version >= NoExportInfo
      THEN [exported EXCEPT !.depends = DependencyBundles(exported, package)]
      ELSE [bundled EXCEPT !.internal = IF version = 0 THEN <<>>
                                        ELSE InternalArcs(bundled, package)]
=============================================================================
