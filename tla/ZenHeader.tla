----------------------------- MODULE ZenHeader -----------------------------
(***************************************************************************)
(* The layout of the header of a zen package (src/src/zen.rs,              *)
(* FZenPackageSummary and FZenPackageHeader; version_heuristics.rs).       *)
(*                                                                         *)
(* A file is a sequence of units of four bytes.  An item is a tagged cell  *)
(* that is followed by as many "rest" units as it is wide.  The summary    *)
(* has offsets only: how many items a section has follows from the offset  *)
(* of the next one, and whether there is bulk data from the package        *)
(* version, which an unversioned package does not tell.                    *)
(***************************************************************************)
EXTENDS ToZenObjects

LOCAL INSTANCE SequencesExt

\* An engine: the versions of packages, container headers and tables of contents.
Engine(file, header, toc) == [file |-> file, header |-> header, toc |-> toc]
DataResources == 1009
PropertyTagCompleteTypeName == 1012
OnDemandMetaData == 6
ReplaceIoChunkHashWithIoHash == 8
Engines ==
  {Engine(0, 0, 3), Engine(1004, LocalizedPackages, 5),
   Engine(1008, OptionalSegmentPackages, 5), Engine(DataResources, OptionalSegmentPackages, 5),
   Engine(DataResources, NoExportInfo, 5),
   Engine(PropertyTagCompleteTypeName, NoExportInfo, OnDemandMetaData),
   Engine(1013, SoftPackageReferences, ReplaceIoChunkHashWithIoHash)}

\* How wide things are.
SummaryWidth(version) == CASE version = 0 -> 16
                           [] version \in 1..2 -> 11
                           [] OTHER -> 13
VersioningWidth == 5
NamesWidth == 4
BulkWidth == 8
HashWidth == 2
ImportWidth == 2
ExportWidth == 18
EntryWidth == 2
BundleWidth(version) == IF version = 0 THEN 2 ELSE 4
ArcWidth(version) == IF version = 0 THEN 2 ELSE 3
DependencyHeaderWidth == 5
DependencyWidth == 1

Tagged(tag, items) == [i \in DOMAIN items |-> <<tag, items[i]>>]
Wide(cells, width) ==
  FlattenSeq([i \in DOMAIN cells |-> <<cells[i]>> \o [k \in 1..(width - 1) |-> <<"rest">>]])
Counted(cells, width) == <<<<"count", Len(cells)>>>> \o Wide(cells, width)

\* What the header of a package has, as lists of tagged items.  UE4 lists the
\* packages that have arcs, UE5 the arcs of every imported package.
Contents(zen, engine, bulk) ==
  LET used == SelectSeq([i \in DOMAIN zen.packages |-> i], LAMBDA i : zen.external[i] # <<>>)
      arcs(i) == Tagged("arc", zen.external[i])
  IN  [bulk |-> IF engine.file >= DataResources THEN Tagged("bulk", bulk) ELSE <<>>,
       hashes |-> Tagged("hash", zen.hashes),
       imports |-> Tagged("import", zen.imports),
       exports |-> Tagged("export", zen.exports),
       headers |-> Tagged("bundle", zen.headers),
       entries |-> Tagged("entry", zen.entries),
       internal |-> Tagged("inner", zen.internal),
       external |-> CASE engine.header = 0 ->
                           [i \in DOMAIN used |->
                              <<<<"package", zen.packages[used[i]]>>>> \o arcs(used[i])]
                      [] engine.header \in 1..2 -> [i \in DOMAIN zen.packages |-> arcs(i)]
                      [] OTHER -> <<>>,
       dependencies |-> Tagged("dependencies", zen.depends.headers),
       dependencyEntries |-> Tagged("dependency", zen.depends.entries),
       packageNames |-> IF engine.header >= NoExportInfo THEN Tagged("name", zen.names)
                        ELSE <<>>]

-----------------------------------------------------------------------------
(* serialize                                                               *)

\* The units before the bulk data: summary, versioning information and names.
StartOf(engine, versioned) ==
  Wide(<<<<"summary">>>>, SummaryWidth(engine.header))
  \o (IF versioned /\ engine.header > 0
      THEN Wide(<<<<"versioning", engine.file>>>>, VersioningWidth) ELSE <<>>)
  \o Wide(<<<<"names">>>>, NamesWidth)

\* The bulk data map, which is aligned from UE5.4 on.
BulkUnits(file, cells, start) ==
  LET padding == start % 2
  IN  IF file < DataResources THEN <<>>
      ELSE (IF file >= PropertyTagCompleteTypeName
            THEN Wide(<<<<"padding", padding>>>>, 2) \o [k \in 1..padding |-> <<"rest">>]
            ELSE <<>>)
           \o Wide(<<<<"size", BulkWidth * Len(cells)>>>>, 2) \o Wide(cells, BulkWidth)

\* The graph data: UE4 has the packages and arcs only, UE5 the bundle headers
\* and the inner arcs before the arcs.
GraphUnits(c, version) ==
  CASE version = 0 ->
         <<<<"count", Len(c.external)>>>>
         \o FlattenSeq([i \in DOMAIN c.external |->
              Wide(<<Head(c.external[i])>>, 2) \o Counted(Tail(c.external[i]), ArcWidth(0))])
    [] version \in 1..2 ->
         Wide(c.headers, BundleWidth(version)) \o Counted(c.internal, 2)
         \o FlattenSeq([i \in DOMAIN c.external |-> Counted(c.external[i], ArcWidth(version))])
    [] OTHER -> <<>>

\* The sections, in the order in which they are written.
Sections == <<"start", "bulk", "hashes", "imports", "exports", "entries", "graph",
              "dependencies", "dependencyEntries", "packageNames">>

SectionUnits(c, engine, versioned) ==
  LET version == engine.header
      start == StartOf(engine, versioned)
  IN  [start |-> start,
       bulk |-> BulkUnits(engine.file, c.bulk, Len(start)),
       hashes |-> Wide(c.hashes, HashWidth),
       imports |-> Wide(c.imports, ImportWidth),
       exports |-> Wide(c.exports, ExportWidth),
       entries |-> (IF version = 0 THEN Wide(c.headers, BundleWidth(0)) ELSE <<>>)
                   \o Wide(c.entries, EntryWidth),
       graph |-> GraphUnits(c, version),
       dependencies |-> Wide(c.dependencies, DependencyHeaderWidth),
       dependencyEntries |-> Wide(c.dependencyEntries, DependencyWidth),
       packageNames |-> IF version >= NoExportInfo THEN Counted(c.packageNames, 3) ELSE <<>>]

\* The offsets of a version's summary; the others are read as -1.
HasOffset(version, section) ==
  CASE section = "hashes" -> version > 0
    [] section = "graph" -> version < NoExportInfo
    [] section \in {"dependencies", "dependencyEntries", "packageNames"} ->
         version >= NoExportInfo
    [] OTHER -> TRUE

\* A written package: the offsets of its summary, its units and the fields of
\* its store entry that a reader needs.
Serialized(zen, engine, versioned, bulk) ==
  LET units == SectionUnits(Contents(zen, engine, bulk), engine, versioned)
      Offset(t) == Len(FlattenSeq([u \in 1..(t - 1) |-> units[Sections[u]]]))
  IN  [at |-> [s \in DOMAIN units |-> IF HasOffset(engine.header, s)
                                      THEN Offset(PositionOf(Sections, s)) ELSE -1],
       versioned |-> versioned /\ engine.header > 0,
       units |-> FlattenSeq([t \in DOMAIN Sections |-> units[Sections[t]]]),
       packages |-> zen.packages,
       bundleCount |-> Len(zen.headers)]

-----------------------------------------------------------------------------
(* deserialize                                                             *)

\* count items of some width from an offset, as far as the file goes.
ItemsAt(file, offset, count, width) ==
  [i \in 1..count |-> IF offset + (i - 1) * width + 1 \in DOMAIN file.units
                      THEN file.units[offset + (i - 1) * width + 1] ELSE <<"end">>]

\* A number that is read.  What stands where no number is could be any: let it
\* be one that is not harmless, the size of an entry.
NumberAt(file, offset, tag) ==
  LET cell == ItemsAt(file, offset, 1, 1)[1] IN IF cell[1] = tag THEN cell[2] ELSE BulkWidth

\* Variant of HasBulkData: unversioned packages have bulk data from 5.1 on.
HasBulkDataFrom51(file, engine, version, position) ==
  IF version # 0 THEN version >= DataResources ELSE engine.header >= OptionalSegmentPackages

\* Whether a package has bulk data: told by its version, if it is known, by
\* that of the header, or by a gap between the names and the hashes.
HasBulkData(file, engine, version, position) ==
  IF version # 0 THEN version >= DataResources
  ELSE CASE engine.header < OptionalSegmentPackages -> FALSE
         [] engine.header >= NoExportInfo -> TRUE
         [] OTHER -> file.at["hashes"] > position

\* The version that an unversioned package is taken to have.
PackageVersion(engine, version, hasBulk) ==
  IF version # 0 THEN version
  ELSE CASE engine.header = 0 -> 0
         [] engine.header = LocalizedPackages -> 1004
         [] engine.header = OptionalSegmentPackages -> IF hasBulk THEN DataResources ELSE 1008
         [] engine.header = NoExportInfo -> IF engine.toc < OnDemandMetaData THEN DataResources
                                            ELSE PropertyTagCompleteTypeName
         [] OTHER -> 1013

\* The bulk data map, after the names.
ReadBulk(file, engine, known) ==
  LET version == IF file.versioned
                 THEN NumberAt(file, SummaryWidth(engine.header), "versioning") ELSE known
      position == file.at["bulk"]
      hasBulk == HasBulkData(file, engine, version, position)
      aligned == PackageVersion(engine, version, hasBulk) >= PropertyTagCompleteTypeName
      size == position + IF aligned THEN 2 + NumberAt(file, position, "padding") ELSE 0
  IN  IF hasBulk
      THEN ItemsAt(file, size + 2, NumberAt(file, size, "size") \div BulkWidth, BulkWidth)
      ELSE <<>>

\* n counted lists from an offset, each after a name of the given width, and
\* where the last of them ends.
Lists(file, offset, n, name, width) ==
  LET list[i \in 0..n] ==
        IF i = 0 THEN [items |-> <<>>, end |-> offset]
        ELSE LET start == list[i - 1].end
                 count == NumberAt(file, start + name, "count")
             IN  [items |-> Append(list[i - 1].items,
                                   ItemsAt(file, start, IF name = 0 THEN 0 ELSE 1, 1)
                                   \o ItemsAt(file, start + name + 1, count, width)),
                  end |-> start + name + 1 + count * width]
  IN  list[n]

\* How many items there are between two sections.
Between(file, from, to, width) == (file.at[to] - file.at[from]) \div width

Bundles(file, engine) ==
  ItemsAt(file, IF engine.header = 0 THEN file.at["entries"] ELSE file.at["graph"],
          IF engine.header < NoExportInfo THEN file.bundleCount ELSE 0,
          BundleWidth(engine.header))

\* In UE4 the bundle headers come before the entries and tell their number.
ReadEntries(file, engine) ==
  LET headers == Bundles(file, engine)
      counts == FlattenSeq([b \in DOMAIN headers |->
                  IF headers[b][1] = "bundle" THEN [k \in 1..headers[b][2].count |-> 0] ELSE <<>>])
  IN  CASE engine.header = 0 ->
             ItemsAt(file, file.at["entries"] + Len(headers) * BundleWidth(0), Len(counts),
                     EntryWidth)
        [] engine.header \in 1..2 ->
             ItemsAt(file, file.at["entries"], Between(file, "entries", "graph", EntryWidth),
                     EntryWidth)
        [] OTHER ->
             ItemsAt(file, file.at["entries"],
                     Between(file, "entries", "dependencies", EntryWidth), EntryWidth)

\* The inner and outer arcs.
ReadArcs(file, engine) ==
  LET graph == file.at["graph"]
      inner == Lists(file, graph + file.bundleCount * BundleWidth(engine.header), 1, 0, 2)
  IN  CASE engine.header = 0 ->
             <<<<>>, Lists(file, graph + 1, NumberAt(file, graph, "count"), 2, ArcWidth(0)).items>>
        [] engine.header \in 1..2 ->
             <<inner.items[1],
               Lists(file, inner.end, Len(file.packages), 0, ArcWidth(engine.header)).items>>
        [] OTHER -> <<<<>>, <<>>>>

\* What is read of a file, known being the package version the user gives or 0.
Deserialized(file, engine, known) ==
  LET Section(s, to, width) == ItemsAt(file, file.at[s], Between(file, s, to, width), width)
      If(c, items) == IF c THEN items ELSE <<>>
      new == engine.header >= NoExportInfo
  IN  [bulk |-> ReadBulk(file, engine, known),
       hashes |-> If(engine.header > 0, Section("hashes", "imports", HashWidth)),
       imports |-> Section("imports", "exports", ImportWidth),
       exports |-> Section("exports", "entries", ExportWidth),
       headers |-> Bundles(file, engine),
       entries |-> ReadEntries(file, engine),
       internal |-> ReadArcs(file, engine)[1],
       external |-> ReadArcs(file, engine)[2],
       dependencies |-> If(new, Section("dependencies", "dependencyEntries",
                                        DependencyHeaderWidth)),
       dependencyEntries |-> If(new, Section("dependencyEntries", "packageNames",
                                             DependencyWidth)),
       packageNames |-> If(new, Lists(file, file.at["packageNames"], 1, 0, 3).items[1])]

\* The reader refuses a package that lacks a command of an export, or its
\* dependency bundle.
Refused(c, engine) ==
  \/ Len(c.entries) # 2 * Len(c.exports)
  \/ engine.header >= NoExportInfo /\ Len(c.dependencies) # Len(c.exports)

\* The package as its reader has it: older versions do not keep the names of
\* imported packages.
AsRead(zen, version) == IF version >= NoExportInfo THEN zen ELSE [zen EXCEPT !.names = <<>>]
=============================================================================
