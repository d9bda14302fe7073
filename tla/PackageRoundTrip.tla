-------------------------- MODULE PackageRoundTrip --------------------------
(***************************************************************************)
(* A legacy package is converted to zen, written, read and rebuilt         *)
(* (src/src/zen_asset_conversion.rs, zen.rs and asset_conversion.rs).      *)
(*                                                                         *)
(* Zen packages do not have import paths: an import is a hash, and the     *)
(* packages that only served as outers of others are gone.  The rebuilt    *)
(* import map is found by looking into the imported packages, in the order *)
(* in which objects turn up, and shuffled into its former order at the end.*)
(*                                                                         *)
(* The packages it imports are in the store, were lost, or are reached by  *)
(* a redirect.  An import under construction is known by its chain: the    *)
(* objects from the outermost to itself, each with its name and class      *)
(* (ResolvedZenImport).                                                    *)
(***************************************************************************)
EXTENDS ZenHeader, RebuiltDependencies, Maps

LOCAL INSTANCE SequencesExt
LOCAL INSTANCE FiniteSetsExt

CONSTANTS
  Cases,      \* what is converted: a legacy package, and the game it is for
  Others,     \* the legacy packages that may be in the store, by name
  Redirects   \* package redirects: localized packages by what they stand for

ASSUME RoundTripAssumption ==
  /\ \A p \in DOMAIN Redirects : Redirects[p] \in DOMAIN Others
  /\ \A o \in DOMAIN ScriptObjects :
       ScriptObjects[o] # <<>> => ScriptObjects[o] \in DOMAIN ScriptObjects
                                    /\ Len(ScriptObjects[o]) = 2
  /\ \A name \in DOMAIN Others : Others[name].name = name
  /\ \A name \in DOMAIN Others : Sortable(Others[name])
  /\ \A c \in Cases : Sortable(c[1])

VARIABLES
  legacy,      \* the package as the cooker wrote it
  game,        \* [engine, versioned, known, lost, redirected, together, keeps]
  store,       \* the other packages that were not lost, converted
  pc,
  zen,         \* the zen package
  file,        \* the zen package as it is written
  next,        \* the import of the zen package to be resolved next
  built,       \* the import map so far, and resolved_import_lookup
  byZen,       \* zen_import_lookup
  order,       \* original_import_order
  failed,      \* has_failed_import_map_entries
  rebuilt      \* the legacy package

world == <<legacy, game, store>>
builder == <<built, byZen, order, failed, rebuilt>>
vars == <<world, pc, zen, file, next, builder>>

\* The engine of the game; whether packages tell its version, and whether the
\* user does (to-legacy --version); the packages that the store lacks; whether
\* it has the redirects; whether the imported packages are converted together
\* with the package, into one container; whether the converter keeps
\* pre-stream requests, as the cooker does and to-zen does not.
engine == game.engine
Version == engine.header
Bulk == <<"bulk data">>

\* The other packages, as their conversion makes them.
Converted ==
  [v \in HeaderVersions |-> [name \in DOMAIN Others |->
     AsRead(ConvertObjects(Others[name], v), v)]]

-----------------------------------------------------------------------------
(* Finding the imported objects.                                           *)

\* Where the lookup of a package leads, and what it finds there.
Target(p) == IF game.redirected /\ p \in DOMAIN Redirects THEN Redirects[p] ELSE p
Available(p) == Target(p) \in DOMAIN store
Found(p) == store[Target(p)]

\* source_package_name: only UE4 packages have one beside their own.
ChainName(name) == IF Version = 0 THEN SourceName(name) ELSE name
PackageChain(name) == <<[name |-> ChainName(name), class |-> PackageClass]>>

\* No chain: the object was not found.
NotFound == <<>>

\* The class of a native object, as far as the script objects tell.
ScriptClass(o) ==
  CASE o \in Range(ScriptObjects) -> ClassClass
    [] /\ o \notin Range(ScriptObjects)
       /\ Len(o) = 2 /\ Last(o) \in DefaultObjects /\ ScriptObjects[o] # <<>> -> ScriptObjects[o]
    [] OTHER -> ObjectClass

\* resolve_script_import
ScriptChains ==
  LET chain[o \in DOMAIN ScriptObjects] ==
        IF Len(o) = 1 THEN <<[name |-> o[1], class |-> PackageClass]>>
        ELSE Append(chain[Front(o)], [name |-> Last(o), class |-> ScriptClass(o)])
  IN  chain
ScriptChain(o) == IF o \in DOMAIN ScriptObjects THEN ScriptChains[o] ELSE NotFound

\* The export of a package that has a hash, 0 if there is none.
ExportWith(z, hash) ==
  LET hits == {e \in DOMAIN z.exports : z.exports[e].hash = hash}
  IN  IF hash = NoHash \/ hits = {} THEN 0 ELSE Min(hits)

NoExport == <<>>

\* resolve_package_import_internal_new: the package and the hash are known.
ExportByHash(z, o) ==
  LET p == z.packages[o[2]]
      e == ExportWith(Found(p), z.hashes[o[3]])
  IN  IF /\ Available(p)
         /\ z.names # <<>> => z.names[o[2]] = Found(p).name
         /\ e # 0
      THEN <<Target(p), e>> ELSE NoExport

\* Variant of ExportByPath: only the first imported package is searched.
ExportByPathInFirst(z, o) ==
  LET p == z.packages[1]
  IN  IF Available(p) /\ ExportWith(Found(p), o[2]) # 0
      THEN <<Target(p), ExportWith(Found(p), o[2])>> ELSE NoExport

\* resolve_package_import_internal_legacy: the imported packages are searched,
\* up to the first that cannot be loaded.
ExportByPath(z, o) ==
  LET stops == {i \in DOMAIN z.packages : ~Available(z.packages[i])
                                            \/ ExportWith(Found(z.packages[i]), o[2]) # 0}
      p == z.packages[Min(stops)]
  IN  IF stops # {} /\ Available(p) THEN <<Target(p), ExportWith(Found(p), o[2])>> ELSE NoExport

ImportedExport(z, o) == IF Version = 0 THEN ExportByPath(z, o) ELSE ExportByHash(z, o)

\* resolve_package_export_internal: the chains of the exports of the packages
\* in the store.  The class of an export is one level below a package.
ExportChains ==
  LET chain[x \in UNION {{p} \X DOMAIN store[p].exports : p \in DOMAIN store}] ==
        LET z == store[x[1]]
            export == z.exports[x[2]]
            Of(o) == CASE o[1] = "Script" -> ScriptChain(o[2])
                       [] o[1] = "Export" -> chain[<<x[1], o[2]>>]
                       [] o[1] = "Import" -> IF ImportedExport(z, o) = NoExport THEN NotFound
                                             ELSE chain[ImportedExport(z, o)]
                       [] OTHER -> NotFound
            outer == IF export.outer = NullObject THEN PackageChain(z.name) ELSE Of(export.outer)
            class == Of(export.class)
        IN  IF outer = NotFound \/ Len(class) # 2 THEN NotFound
            ELSE Append(outer, [name |-> export.name, class |-> <<class[1].name, class[2].name>>])
  IN  chain

\* resolve_generic_zen_import_import, of an import of the package.
ImportChain(o) ==
  IF o[1] = "Script" THEN ScriptChain(o[2])
  ELSE IF ImportedExport(zen, o) = NoExport THEN NotFound
  ELSE ExportChains[ImportedExport(zen, o)]

-----------------------------------------------------------------------------
(* Building the import map.                                                *)

NewImport(class, outer, name) == [class |-> class, outer |-> outer, name |-> name]

\* Variant of FindOrAdd: an object of the same name is taken for it.
FindOrAddByName(b, chain) ==
  LET with[n \in 0..Len(chain)] ==
        IF n = 0 \/ chain[n].name \in {b.imports[i].name : i \in DOMAIN b.imports}
        THEN IF n = 0 THEN b
             ELSE [b EXCEPT !.index = WithKey(@, SubSeq(chain, 1, n),
                     -(CHOOSE i \in DOMAIN b.imports : b.imports[i].name = chain[n].name))]
        ELSE LET outer == with[n - 1]
             IN  [imports |-> Append(outer.imports,
                                NewImport(chain[n].class,
                                          IF n = 1 THEN Null
                                          ELSE outer.index[SubSeq(chain, 1, n - 1)],
                                          chain[n].name)),
                  index |-> WithKey(outer.index, SubSeq(chain, 1, n),
                                    -(Len(outer.imports) + 1))]
  IN  with[Len(chain)]

\* find_or_add_resolved_import: the parts of the chain that are not in the map
\* yet are added to it, the outermost first.
FindOrAdd(b, chain) ==
  LET with[n \in 0..Len(chain)] ==
        IF n = 0 \/ SubSeq(chain, 1, n) \in DOMAIN b.index
        THEN b
        ELSE LET outer == with[n - 1]
             IN  [imports |-> Append(outer.imports,
                                NewImport(chain[n].class,
                                          IF n = 1 THEN Null
                                          ELSE outer.index[SubSeq(chain, 1, n - 1)],
                                          chain[n].name)),
                  index |-> WithKey(outer.index, SubSeq(chain, 1, n),
                                    -(Len(outer.imports) + 1))]
  IN  with[Len(chain)]

\* What is put in for an object that was not found.
UnknownPackage == NewImport(PackageClass, Null, "UnknownPackage")
UnknownExport(outer) == NewImport(ObjectClass, outer, "UnknownExport")

Init ==
  /\ \E c \in Cases : legacy = c[1] /\ game = c[2]
  /\ store = [p \in DOMAIN Others \ game.lost |-> Converted[Version][p]]
  /\ pc = "convert"
  /\ zen = BlankZen(legacy.name)
  /\ file = NoMap
  /\ next = 1
  /\ built = [imports |-> <<>>, index |-> NoMap]
  /\ byZen = NoMap
  /\ order = NoMap
  /\ failed = FALSE
  /\ rebuilt = legacy

\* The packages that are imported for themselves: no import is in them.
PrestreamRequests(package) ==
  {package.imports[i].name : i \in {i \in DOMAIN package.imports :
     package.imports[i].class = PrestreamClass}}

\* Another package's bundle with the command on an imported object, if the
\* package is converted together with this one; 0, the last one, otherwise.
LastBundle == 0
FromBundle(z, n) ==
  LET path == OwnPaths(legacy)[n[1]]
      other == Converted[0][path[1]]
  IN  IF game.together THEN BundleOf(other, <<ExportWith(other, path), n[2]>>) ELSE LastBundle

\* external_package_dependencies: by imported package, what the first command
\* of a bundle waits for.
ExternalArcs(z) ==
  [i \in DOMAIN z.packages |->
     SetToSeq({[from |-> IF Version = 0 THEN FromBundle(z, d[1])
                         ELSE d[1],
                to |-> BundleOf(z, d[2])] :
                 d \in {d \in OuterNeeds(z, legacy) :
                          OwnPaths(legacy)[d[1][1]][1] = z.packages[i]}})]

\* build_zen_asset
Convert ==
  /\ pc = "convert"
  /\ LET objects == ConvertObjects(legacy, Version)
         requests == IF game.keeps THEN PrestreamRequests(legacy) ELSE {}
         z == [objects EXCEPT !.packages = @ \o SetToSeq(requests \ Range(@)),
                              !.names = IF Version = 0 THEN @
                                        ELSE @ \o SetToSeq(requests \ Range(@))]
     IN  zen' = IF Version >= NoExportInfo THEN z ELSE [z EXCEPT !.external = ExternalArcs(z)]
  /\ pc' = "write"
  /\ UNCHANGED <<world, file, next, builder>>

Write ==
  /\ pc = "write"
  /\ file' = Serialized(zen, engine, game.versioned, Bulk)
  /\ pc' = "read"
  /\ UNCHANGED <<world, zen, next, builder>>

\* The package is read: pc tells if it is what was written.
Read ==
  /\ pc = "read"
  /\ LET c == Deserialized(file, engine, IF game.known THEN engine.file ELSE 0)
     IN  pc' = IF Refused(c, engine) THEN "refused"
               ELSE IF c = Contents(zen, engine, Bulk) THEN "imports" ELSE "misread"
  /\ zen' = AsRead(zen, Version)
  /\ file' = NoMap
  /\ UNCHANGED <<world, next, builder>>

\* The next import was a package: there is a hole in the map.
SkipHole ==
  /\ pc = "imports" /\ next <= Len(zen.imports)
  /\ zen.imports[next] = NullObject
  /\ next' = next + 1
  /\ UNCHANGED <<world, pc, zen, file, builder>>

\* The next import is one that was met before, or is found in its package.
ResolveImport ==
  /\ pc = "imports" /\ next <= Len(zen.imports)
  /\ LET o == zen.imports[next]
         chain == ImportChain(o)
     IN  /\ o # NullObject
         /\ IF o \in DOMAIN byZen
            THEN order' = WithKey(order, next, -byZen[o]) /\ UNCHANGED <<built, byZen>>
            ELSE /\ chain # NotFound
                 /\ built' = FindOrAdd(built, chain)
                 /\ byZen' = WithKey(byZen, o, built'.index[chain])
                 /\ order' = WithKey(order, next, -built'.index[chain])
  /\ next' = next + 1
  /\ UNCHANGED <<world, pc, zen, file, failed, rebuilt>>

\* It is not found: an unknown object of an unknown package is imported.
ResolveFails ==
  /\ pc = "imports" /\ next <= Len(zen.imports)
  /\ LET o == zen.imports[next]
         n == Len(built.imports)
     IN  /\ o # NullObject /\ o \notin DOMAIN byZen
         /\ ImportChain(o) = NotFound
         /\ built' = [built EXCEPT !.imports = @ \o <<UnknownPackage, UnknownExport(-(n + 1))>>]
         /\ byZen' = WithKey(byZen, o, -(n + 2))
         /\ order' = WithKey(order, next, n + 2)
  /\ failed' = TRUE
  /\ next' = next + 1
  /\ UNCHANGED <<world, pc, zen, file, rebuilt>>

\* build_export_map: every object it refers to is an export, or an import that
\* has been resolved.
LocalIndex(o) ==
  CASE o[1] = "Null" -> Null
    [] o[1] = "Export" -> o[2]
    [] OTHER -> byZen[o]

BuildExports ==
  /\ pc = "imports" /\ next > Len(zen.imports)
  /\ rebuilt' = [name |-> zen.name, imports |-> <<>>, depends |-> {},
                 exports |-> [e \in DOMAIN zen.exports |->
                   LET x == zen.exports[e]
                   IN  [name |-> x.name, public |-> x.public,
                        outer |-> LocalIndex(x.outer), class |-> LocalIndex(x.class),
                        super |-> LocalIndex(x.super), template |-> LocalIndex(x.template)]]]
  /\ pc' = "prestream"
  /\ UNCHANGED <<world, zen, file, next, built, byZen, order, failed>>

\* resolve_prestream_package_imports: an imported package that no import is in
\* was to be loaded ahead.
ResolvePrestream ==
  /\ pc = "prestream"
  /\ LET roots == {built.imports[i].name : i \in {i \in DOMAIN built.imports :
                      built.imports[i].outer = Null}}
         requests == SelectSeq(zen.packages, LAMBDA p : p \notin roots /\ Available(p))
     IN  built' = IF failed THEN built
                  ELSE [built EXCEPT !.imports = @ \o
                          [i \in DOMAIN requests |->
                             NewImport(PrestreamClass, Null, ChainName(Found(requests[i]).name))]]
  /\ pc' = "dependencies"
  /\ UNCHANGED <<world, zen, file, next, byZen, order, failed, rebuilt>>

-----------------------------------------------------------------------------
(* Dependencies.                                                           *)

\* The dependency bundles, in terms of the import map under construction.
BundledWaits ==
  LET d == zen.depends
      Now(i) == IF IsImport(i) THEN -order[-i] ELSE i
      Entries(e, k) ==
        LET counts == d.headers[e].counts
            before == FoldFunctionOnSet(+, 0, counts, 1..(k - 1))
        IN  {d.entries[d.headers[e].first + before + i] : i \in 1..counts[k]}
  IN  UNION {{<<<<Now(i), Kinds[k][1]>>, <<e, Kinds[k][2]>>>> : i \in Entries(e, k)} :
               e \in DOMAIN d.headers, k \in 1..4}

\* The arcs of UE5.0 to 5.2, from imports.
ArcWaits ==
  {LinkedToImport(BundlesOf(zen), <<-order[-a.from[1]], a.from[2]>>, a.to) :
     a \in UNION {Range(zen.external[i]) : i \in DOMAIN zen.external}}

\* The arcs of UE4, from bundles: the chain of the export of the last command
\* of the bundle may bring new imports.
BundleArcs ==
  FlattenSeq([i \in DOMAIN zen.packages |->
    LET p == zen.packages[i]
        arcs == IF Available(p) THEN zen.external[i] ELSE <<>>
        bundles == BundlesOf(Found(p))
        From(a) == Last(bundles[IF a.from = LastBundle THEN Len(bundles) ELSE a.from])
    IN  SelectSeq([k \in DOMAIN arcs |-> [chain |-> ExportChains[<<Target(p), From(arcs[k])[1]>>],
                                          command |-> From(arcs[k])[2], to |-> arcs[k].to]],
                  LAMBDA a : a.chain # NotFound)])

\* The import map and the waits after those arcs.
LegacyWaits ==
  LET Resolve(before, a) ==
        LET b == FindOrAdd(before.built, a.chain)
        IN  [built |-> b,
             waits |-> before.waits \cup
               {LinkedToImport(BundlesOf(zen), <<b.index[a.chain], a.command>>, a.to)}]
  IN  FoldLeft(Resolve, [built |-> built, waits |-> {}], BundleArcs)

\* The waits that export bundles imply among themselves.
InnerWaits ==
  LET bundles == BundlesOf(zen)
      arcs == IF Version = 0 THEN Sequential(bundles) ELSE Range(zen.internal)
  IN  Chained(bundles) \cup Linked(bundles, arcs)

\* resolve_export_dependencies
ResolveDependencies ==
  /\ pc = "dependencies"
  /\ LET waits == CASE Version >= NoExportInfo -> BundledWaits
                    [] Version \in 1..2 -> InnerWaits \cup ArcWaits
                    [] OTHER -> InnerWaits \cup LegacyWaits.waits
     IN  IF Version < NoExportInfo /\ Misplaced(waits)
         THEN pc' = "failed" /\ UNCHANGED rebuilt
         ELSE /\ rebuilt' = [rebuilt EXCEPT
                   !.depends = WithRequired(IF Version < NoExportInfo THEN Stated(waits)
                                            ELSE waits, rebuilt.exports)]
              /\ pc' = "finalize"
  /\ built' = IF Version = 0 THEN LegacyWaits.built ELSE built
  /\ UNCHANGED <<world, zen, file, next, byZen, order, failed>>

-----------------------------------------------------------------------------
(* finalize_asset: every import back to its place.                         *)

MapSize == Max({Len(built.imports), Len(zen.imports)})

\* Variant of Placed: imports stay in the order in which they turned up.
PlacedAsBuilt == [p \in 1..MapSize |-> IF p <= Len(built.imports) THEN p ELSE 0]

\* The import that goes to each position: the one that had it, or the next of
\* those that had none, and 0 if there is none left.
Placed ==
  LET unplaced == SelectSeq([i \in DOMAIN built.imports |-> i], LAMBDA i : i \notin Range(order))
      holes == SelectSeq([i \in 1..MapSize |-> i], LAMBDA i : i \notin DOMAIN order)
      Filling(k) == IF k <= Len(unplaced) THEN unplaced[k] ELSE 0
  IN  [p \in 1..MapSize |-> IF p \in DOMAIN order THEN order[p] ELSE Filling(PositionOf(holes, p))]

\* Variant of Positions: an import that fills a hole is not noted.
PositionsOfPlaced(placed) ==
  [i \in DOMAIN built.imports |-> {p \in DOMAIN order : placed[p] = i}]

\* import_remap_map: where the imports went.
Positions(placed) == [i \in DOMAIN built.imports |-> {p \in DOMAIN placed : placed[p] = i}]

\* The imports that are referred to, by imports that have been placed, exports
\* and dependencies.
Referred(placed) ==
  {i \in {built.imports[placed[p]].outer : p \in {p \in DOMAIN placed : placed[p] # 0}}
     \cup UNION {{x.outer, x.class, x.super, x.template} : x \in Range(rebuilt.exports)}
     \cup {d[1][1] : d \in rebuilt.depends} : IsImport(i)}

\* References are turned into positions.  Without one, the lookup panics.
Finalize ==
  /\ pc = "finalize"
  /\ LET placed == Placed
         positions == Positions(placed)
         Final(i) == IF IsImport(i) THEN -Max(positions[-i]) ELSE i
     IN  IF \E i \in Referred(placed) : positions[-i] = {}
         THEN pc' = "panicked" /\ UNCHANGED rebuilt
         ELSE /\ pc' = "done"
              /\ rebuilt' = [rebuilt EXCEPT
                   !.imports = [p \in 1..MapSize |->
                     IF placed[p] = 0 THEN UnknownPackage
                     ELSE [built.imports[placed[p]] EXCEPT !.outer = Final(@)]],
                   !.exports = [e \in DOMAIN @ |->
                     [@[e] EXCEPT !.outer = Final(@), !.class = Final(@),
                                  !.super = Final(@), !.template = Final(@)]],
                   !.depends = {<<<<Final(d[1][1]), d[1][2]>>, d[2]>> : d \in @}]
  /\ UNCHANGED <<world, zen, file, next, built, byZen, order, failed>>

\* The package has been rebuilt, or given up.
Returned == pc \in {"misread", "refused", "failed", "panicked", "done"} /\ UNCHANGED vars

Next ==
  \/ Convert \/ Write \/ Read \/ SkipHole \/ ResolveImport \/ ResolveFails
  \/ BuildExports \/ ResolvePrestream \/ ResolveDependencies \/ Finalize \/ Returned

Spec == Init /\ [][Next]_vars

-----------------------------------------------------------------------------
(* What the round trip promises.                                           *)

Done == pc = "done"

\* The imports of native objects and of objects of other packages: those that
\* zen packages have.
Objects(package) ==
  LET paths == OwnPaths(package)
  IN  {i \in Indices(package) : IsImport(i) /\ (paths[i][1] \in ScriptPackages \/ Len(paths[i]) > 1)}

\* The object that is found for a path.
Reached(path) == <<ChainName(Target(path[1]))>> \o Tail(path)

Unknown(i) == rebuilt.imports[-i] = UnknownExport(rebuilt.imports[-i].outer)

\* Every object that was imported is imported from the same place of the map,
\* by its path and with its class, or is one of those that were not found; no
\* path is lost on the way through hashes, duplicated chains and moved imports.
\* Exports keep their places, and refer to what they referred to.
SameObjects ==
  Done =>
    LET before == Paths(legacy, legacy.name)
        after == Paths(rebuilt, rebuilt.name)
    IN  /\ \A i \in Objects(legacy) : ~Unknown(i) =>
             /\ after[i] = Reached(before[i])
             /\ \/ Entry(rebuilt, i).class = Entry(legacy, i).class
                \/ before[i][1] \in ScriptPackages /\ Entry(rebuilt, i).class = ObjectClass
        /\ rebuilt.exports = legacy.exports

\* The packages that have to be looked into for an object: its own, and those of
\* the classes along its path.
LookedInto(path) ==
  LET p == Target(path[1])
      paths == Paths(Others[p], p)
      exports == {e \in DOMAIN Others[p].exports :
                    \E n \in 2..Len(path) : paths[e] = <<p>> \o SubSeq(path, 2, n)}
  IN  {path[1]} \cup (IF p \in DOMAIN Others
                      THEN {paths[Others[p].exports[e].class][1] : e \in exports} \ ScriptPackages
                      ELSE {})

\* The packages that the UE4 search for an object of a package goes through, in
\* the imported packages of another.
SearchedFor(z, p) == {z.packages[i] : i \in 1..PositionOf(z.packages, p)}

\* An import becomes an unknown object only if a package it needs is lost, or,
\* where packages are imported by name, is not the one of that name.  In UE4, the
\* search for it or for a class along its path may also have stopped at a lost
\* package before the right one.
UnknownOnlyIfLost ==
  Done => \A i \in Objects(legacy) : Unknown(i) =>
            LET path == OwnPaths(legacy)[i]
            IN  \/ \E p \in LookedInto(path) : ~Available(p)
                \/ Version >= NoExportInfo /\ \E p \in LookedInto(path) : Target(p) # p
                \/ /\ Version = 0
                   /\ \/ \E p \in SearchedFor(zen, path[1]) : ~Available(p)
                      \/ \E p \in LookedInto(path) \ {path[1]} :
                           \E q \in SearchedFor(Found(path[1]), p) : ~Available(q)

\* The commands of the rebuilt package that wait for a command, directly or not.
Waiting(m) ==
  LET waits == rebuilt.depends
                 \cup {<<<<e, "Create">>, <<e, "Serialize">>>> : e \in DOMAIN rebuilt.exports}
      after[n \in 0..(2 * Len(rebuilt.exports))] ==
        IF n = 0 THEN {m}
        ELSE after[n - 1] \cup {w[2] : w \in {w \in waits : w[1] \in after[n - 1]}}
  IN  after[2 * Len(rebuilt.exports)]

\* The commands on imports that are not finished before a command on one of them
\* is.  In UE4, where packages wait for bundles of others, a later command of
\* the other package stands for an earlier one.
StandIns(m) ==
  LET paths == Paths(rebuilt, rebuilt.name)
      p == Target(OwnPaths(legacy)[m[1]][1])
      load == store[p].entries
      CommandsOn(k) == {<<i, load[k][2]>> : i \in {i \in Indices(rebuilt) :
                          paths[i] = <<ChainName(p)>> \o Tail(Paths(Others[p], p)[load[k][1]])}}
      imported == {k \in DOMAIN load : m \in CommandsOn(k)}
  IN  IF IsExport(m[1]) \/ Version > 0 THEN {m}
      ELSE UNION {CommandsOn(k) : k \in {k \in DOMAIN load : \E n \in imported : k >= n}}

\* Whatever the cooker let a command wait for, the rebuilt package lets it wait
\* for: through bundles, arcs or dependency bundles, and through both import
\* orders.  Native objects and objects that were not found need no waiting.
DependenciesKept ==
  Done => \A d \in legacy.depends :
            \/ IsImport(d[1][1]) /\ (d[1][1] \notin Objects(legacy) \/ Unknown(d[1][1]))
            \/ IsImport(d[1][1]) /\ OwnPaths(legacy)[d[1][1]][1] \in ScriptPackages
            \/ \E m \in StandIns(d[1]) : d[2] \in Waiting(m)

\* A rebuilt package that lacks nothing can be converted again, and becomes what
\* it was: the same exports, loaded in the same order, in the same bundles with
\* the same arcs between them or with the same dependency bundles; the same
\* imports in the same places, by the same hashes, of the same packages, and with
\* the same requests for packages that are to be loaded ahead, as far as these are
\* there.  Much of this goes through the rebuilt dependencies: chains of commands
\* in place of bundles must not let the sort take another turn.
ConvertsBack ==
  Done /\ ~failed /\ ~game.redirected =>
    LET again == ConvertObjects(rebuilt, Version)
        requests == IF game.keeps THEN PrestreamRequests(rebuilt) ELSE {}
    IN  /\ Sortable(rebuilt)
        /\ again.exports = zen.exports
        /\ again.entries = zen.entries /\ again.headers = zen.headers
        /\ Range(again.internal) = Range(zen.internal) /\ again.depends = zen.depends
        /\ \A n \in DOMAIN zen.imports : zen.imports[n] # NullObject =>
             n \in DOMAIN again.imports /\ again.imports[n] = zen.imports[n]
        /\ Range(again.packages) \cup requests = {p \in Range(zen.packages) : Available(p)}
        /\ Version > 0 => again.hashes = zen.hashes

\* finalize_asset: "we should never end up with fewer imports than we have to
\* fill the holes".
HolesFilled == Done /\ ~failed => 0 \notin Range(Placed)

\* The reader of a package, which finds sections by offsets, versions and gaps,
\* gets what the writer put there, for every engine and every mix of versioned
\* and unversioned packages and known versions.
HeaderReadsBack == pc \notin {"misread", "refused"}

\* No reference is left to an import without a place, and no export is made to
\* wait for itself the wrong way round.
NeverPanics == pc \notin {"panicked", "failed"}
=============================================================================
