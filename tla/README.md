# retoc in TLA+

retoc converts Unreal Engine packages between the legacy form (`.uasset`,
`.uexp`, `.ubulk`, loose or in a `.pak`) and the zen form (packages in IoStore
containers, `.utoc` and `.ucas`). This directory holds TLA+ specifications of
its core logic, the TLC configurations that model-check them, and proofs that
TLAPS checks. Paths are relative to the repository; line numbers are those of
the commit the specifications were translated from.

Run from this directory:

    tlc -config FilePool.cfg FilePool.tla
    tlc -config ExportLoadOrder.cfg MCExportLoadOrder.tla
    tlapm FilePoolProofs.tla

(the modules with theorems are those whose names end in `Proofs`; each is proved
by itself).

`PROJECT.json` lists the runs, the source lines behind every definition, the
hazards of the code with the properties that cover them, variants of single
definitions that stand for plausible bugs (each makes TLC report its property),
and the theorems.

## The system

### Parts, their state and their operations

| part | source | state | operations |
|---|---|---|---|
| file pool | `file_pool.rs` | idle handles, number of open handles, a mutex and a condition variable | `acquire`, drop of a handle |
| IoStore containers | `iostore.rs` | containers by priority, each with its table of contents, header and file pool | `read`, `chunks`, `packages`, `package_store_entry`, `lookup_package_redirect` |
| container writer | `iostore_writer.rs` | the open `.ucas`, the table of contents and header in memory | `write_chunk`, `write_package_chunk`, `add_localized_package`, `add_package_redirect`, `finalize` |
| table of contents | `main.rs` (`Toc`) | chunk ids, offsets, compression blocks, directory index | read, write, `Toc::read` of a chunk |
| container header | `container_header.rs` | store entries, localized packages, redirects | `add_package`, lookups, (de)serialisation |
| package cache | `asset_conversion.rs` (`FZenPackageContext`) | parsed headers, failed ids, a lock per package, script objects | `lookup`, `get_script_objects` |
| zen to legacy | `asset_conversion.rs` | a builder per package | import map, export map, dependencies, `finalize_asset`, export data |
| legacy to zen | `zen_asset_conversion.rs` | a builder per package; fixup data until all packages have arrived | import and export map, dependency graph, load order, bundles, external arcs, fixup |
| package formats | `zen.rs`, `legacy_asset.rs`, `name_map.rs`, `script_objects.rs`, `version*.rs` | none | (de)serialisation |
| shader libraries | `shader_library.rs` | threads and a channel while a library is laid out; the packages' shader maps during `to-zen` | rebuild from chunks, layout and grouping of shaders into chunks |
| commands | `main.rs` | threads, channels, counters of a run | `to-zen`, `to-legacy`, `list`, `verify`, `unpack`, `unpack-raw`, `pack-raw`, `manifest`, `info`, `get`, `dump-test` |
| bytes | `ser.rs`, `compact_binary.rs`, `compression.rs`, `manifest.rs`, `logging.rs` | none | byte level reading and writing, output |
| load logger | `load_logger/` | hooks in a running game | a debugging library |
| C++ readers | `cpp/` | a parsed container or `.pak` | a sequential port of the readers and of a container writer |

### How they interact

`to-zen` (`main.rs` 948-1164): rayon workers read legacy assets and run the
conversion (`zen_asset_conversion.rs`); they send each bundle over a channel
without a buffer to the thread that owns the container writer. For containers up
to UE4 that thread keeps all the packages, fixes their arcs, then writes them.
The header and the table of contents are written last.

`to-legacy` (`main.rs` 749-945): rayon workers list the packages of the IoStore
containers, look up the headers of a package and of those it imports in the
shared package cache, rebuild the legacy package and write it themselves into a
directory, or send `.pak` entries over a channel to the thread that owns the
`.pak`. Every read of a chunk takes a handle of a container's file pool. The
shader libraries follow, one by one.

### What is hard

- Threads: the pool's handles and its condition variable; two workers missing
  the cache at once; workers blocked in a channel whose receiver has failed;
  errors that must neither hang the command nor be lost.
- Order: packages arrive in any order, while arcs refer to packages that have
  not arrived; the load order of a package must not depend on the order of a
  hash map; bundles must not let an export load before what it depends on.
- Partial failure: one package or one write of many fails, at any point.
- Numbers: offsets of export data which are implicit in one format, relative to
  different starts in others; alignments of empty data.
- Priority: a patch container replaces packages of another.
- Lost information: a zen package has no paths of imports, no order of
  dependencies and often no version; the legacy package is rebuilt from other
  packages, some of which are missing.
- Pipelines: shaders are compressed in parallel between marks that only mean
  something in their order.

## Modules

| module | models | kind |
|---|---|---|
| `FilePool` | `FilePool::acquire` and drop, all of `file_pool.rs` | component |
| `PackageCache` | `FZenPackageContext::lookup` | component |
| `LookupMemo` | what the cache promises | abstract |
| `ZenConversion` | `action_to_zen`: workers, channel, writer, fixup, finalize | composition |
| `ToLegacy` | `action_to_legacy`: workers, libraries, directory or `.pak` | composition |
| `ExportGraph` | export commands and the edges of the preload dependencies | operators |
| `LoadOrder` | what the sort promises | abstract |
| `ExportLoadOrder` | `sort_dependencies_in_load_order` | component |
| `ExportBundles` | bundles, arcs inside the package, export data out and back | component |
| `ExternalArcs` | arcs to the bundles of other packages and their fixup | component |
| `DirectoryIndex` | the tree of paths of a container, as arrays | operators |
| `ContainerHeader` | store entries, localized packages, redirects, in memory and serialised | operators |
| `ContainerFile` | `write_chunk`, the stored table of contents, `Toc::read` | operators |
| `StoreInputs` | what is written, and names of containers | inputs |
| `LayeredStore` | what containers and an open store promise | abstract |
| `ContainerStore` | writer, store and pack-raw on a directory of containers | composition |
| `PackageObjects` | package indices, paths, objects of a package | operators |
| `ToZenObjects` | import and export map, bundles and dependencies of a zen package | operators |
| `ZenHeader` | the layout of its header and the reader of it | operators |
| `RebuiltDependencies` | preload dependencies from bundles and arcs | operators |
| `PackageRoundTrip` | a package made zen, written, read and rebuilt | composition |
| `ShaderGroups` | groups of the shaders of a library | operators |
| `ShaderArchive` | group chunks, archive header, their reader, the messages of a rebuild | operators |
| `ShaderLibrary` | libraries to a container and back, through the pipeline | composition |
| `Maps` | partial maps, an expression evaluated once | operators |
| `FilePoolProofs`, `PackageCacheProofs`, `ZenConversionProofs`, `ToLegacyProofs`, `ExternalArcsProofs`, `ShaderArchiveProofs`, `ShaderLibraryProofs` | inductive invariants and theorems of the module they are named after | proofs |
| `ExportProofs` | those of `ExportLoadOrder` and `ExportBundles` | proofs |
| `MC...` | the values of constants that a .cfg cannot write | instances |

### FilePool

`available`, `activeCount` are `PoolState`; a handle is the number it was opened
as. A critical section under the mutex is one action: `TakeAvailable`,
`OpenHandle`, `OpenFails` and `Sleep` are the ways an iteration of `acquire`'s
loop can end, `DropHandle` is `Drop`, with `NotifyOne` its `notify_one`.
`SpuriousWake` is what a condition variable may do. In production the limit is
`rayon::max_num_threads()`, so large that waiting is rare: precisely the branch
that tests do not reach. A thread holds one handle at a time, as all the users
do (`iostore.rs` 415, `main.rs` 726-743).

### PackageCache and LookupMemo

A worker's `pc` walks through `lookup`: probe under the read lock, take the lock
of the package, probe again, load, publish or reject under the write lock,
release. A critical section of `inner_state` is one step, since it touches
nothing else. `LookupMemo` is a table with one answer per package, and a settled
answer stays. A failed load is remembered, the store may answer differently each
time, and still all workers see one answer. Left out: a worker that panics
inside the section; the returns for a missing container version, which cannot
happen once the chunk has been found.

### ZenConversion

`todo`, `wpc`, `item`, `producerFailed` are `process_assets` on the rayon pool;
`Receive` is the rendezvous of a blocked sender with the main thread; `cpc` is
where the main thread is in its loop over `rx`. `fixup` selects the mode
(`needs_asset_import_fixup`). With it `EndBulk` keeps the package (`Keep`), and
`Disconnected`, `FixArcs`, `FlushPackage` go through all that were kept; without
it `WriteReceivedPackage` writes the package before its bulk data. Every step that can return
an error has a failing twin; `HangUp` is the receiver dropped with its loop, `Join` the
end of the scope. Two assets of the input may have one package id: `lookup`, the
header `entry` and a reader's index all keep the last, and `EntryMatchesData`,
`ArcsMatchReader` say that they mean the same one. Shader libraries, written
before the assets, are in `ShaderLibrary`. Left out: localized packages;
redirects, which this path never reaches; the empty `.pak` written afterwards. Assumed: no package imports itself
(the fixup would wait for its own lock).

### ToLegacy

A job is a container and a position in its list of packages (`Jobs`), so that a
package listed twice is two jobs; `Listed` is the package there. `status` is a history variable that says what became of each.
`sink` is where files go: a directory, in which the worker writes itself, or a
`.pak`, where it builds the entry and sends it. `asked` is the choice of assets,
shaders or both. `RefusePath` is the one error of a job that stops the
workers; every other is counted by `FailJob`. Left out: the dry run and the path
filter, which only shorten the list, and the buffer of the `.pak` (`main.rs` 754), which is
flushed when it is dropped, with errors unseen.

### ExportGraph, LoadOrder, ExportLoadOrder

A node is a command (create or serialize) on an export. `Edges` are those that
`build_zen_preload_dependencies` adds: the preload dependencies among exports
and each export's creation before its serialization. An export whose own
creation is also among its preload dependencies has two edges, counted twice and
released twice, as in the code. `Prime`, `Place` and `Finish` are Kahn's
algorithm with `heap` the ready commands and `Precedes` their `Ord`.
`LoadOrder` is the promise: a command may be listed once all it needs is listed;
the list is handed out when complete, refused when nothing more can be listed.

### ExportBundles

Starts from any legal load order of the graph (an action that picks one, not the
sort: bundles must be right for each). `PlaceCommand` is one iteration of the
placing loop, `BuildArcs` the arcs between the bundles. `StartBundle` and
`WriteEntry` copy the export data in bundle order, `EndWriting` what follows the
exports. The second half is the reader's: `LayOut` gives the exports their places
in the rebuilt package by index, `StartReading` and `RebuildEntry` put the data
of each entry there, `EndRebuilding` adds the rest and the end tag. The legacy file
is any sequence of `Bytes` with the place and size of each export (`Files`), in any
order, with gaps or overlaps; the run gives every byte its own value, so that
`DataSurvives` sees each one that is lost, duplicated or displaced.

### ExternalArcs

One package and its dependencies on commands on imported objects. From UE5 on an
arc names the import; before, a placeholder, that the fixup replaces by the
bundle of the other package (`located`, chosen freely when the package is
serialised, as other packages are independent of this one). `graph` has the
written arcs of each imported package, `unfixed` the positions that the fixup has
not come to. It takes them in any order: each is resolved by itself, and the
first that cannot be ends the fixup. Numbers start at one; `LastBundle` is the
-1 of the code.

### ContainerStore, its operators and LayeredStore

A directory with the game's global container and those that retoc writes. One
writer at a time (`NewWriter`, `WritePackageData`, `WriteBulkChunk`,
`FinalizeWriter`) fills `file`, the table of contents with the bytes of the
`.ucas`, and `header`. `WriteFails` is an error or a crash at any point: the table of
contents of the new file is empty. `FinalizeWriter` may lose a tail of the data or
all of the table of contents, because the buffers are flushed when they are
dropped (`iostore_writer.rs` 188). `OpenDirectory` and `OpenFile` put the
readable containers on `stack`; a directory with one that cannot be opened, or
with different versions, stays closed. `PackRaw` is `unpack-raw` of the open store followed
by `pack-raw`, in any order of the chunks, as a directory lists them.

`ContainerFile` computes on blocks: ranges are offsets in whole blocks, blocks
are offsets in bytes, and a read is the blocks of a range cut to its length.
`DirectoryIndex` has the three arrays with their links. `ContainerHeader` lays
out the buffer of store entries in words, with the offsets relative to members
of an entry, per version; its other fields, serialised one after the other,
stay fields of a record. Each write has a number that is part of every byte and
every field it writes, so that a byte of another write is seen.

`LayeredStore` has none of this. A container is maps from ids and paths to data,
to store entries and redirects; writing changes one key; an open store answers
with the maps of its containers, the one of the highest priority on top. What the code does
besides is stated as part of the promise: a chunk of no bytes before the first
byte of a container makes the reader panic (`main.rs` 1772), lost data are an
error and never other data, and `pack-raw` keeps the header of one of the
containers that were unpacked. `ActsAsLayers` is the refinement; its mapping
reads the files as `Toc::read` and the lookups do.

`EntryMatchesChunk` leaves out what `pack-raw` makes of several containers: all
their header chunks, of which the first is read. It also stops after a second
`pack-raw`, as it is false then: a repacked container keeps the header chunk, whose id
is the name of the container it came from; when that container is written anew and
both are unpacked and packed, the ids of the headers are one and only one header
is kept, but the packages of both are. TLC finds this in 13 steps with two uses of
`pack-raw`, so the bound of one would have hidden it.

Left out: mount points, compression and encryption (the writer does neither),
hashes of chunks, the 40 bits of offsets and lengths, headers that cannot be
parsed (`iostore.rs` 370), optional segments and soft references, which the
writer leaves empty, the name map of a header (a name is the id that is its
hash), `unpack-raw` of a single file, which lists a chunk as often as it was
written. `usage` is what a behaviour does: whether its commands have an override
of the header version, which one, and how much is written, lost and packed
again. The override does not contradict what the containers say, as
`deserialize` demands (`container_header.rs` 65).

### PackageObjects, ToZenObjects, ZenHeader, RebuiltDependencies, PackageRoundTrip

An object is the path of its names, a hash or id the name it is made from.
`Convert` makes the zen package (`ToZenObjects`: every import by what the
version of the container makes of it, bundles and arcs before `NoExportInfo`,
dependency bundles from then on), `Write` and `Read` are the two directions of
`ZenHeader`. Then one action per import of the zen package: `SkipHole`,
`ResolveImport`, `ResolveFails`; and one per stage of the rest: `BuildExports`,
`ResolvePrestream`, `ResolveDependencies`, `Finalize`. The store has the other
packages, converted by the same operators; `game` says which are lost, whether
a redirect leads to a localized package, whether packages tell their version or
the user does, whether they were converted into one container, and whether the
converter keeps pre-stream requests, as cooked containers do and `to-zen` does
not. An import under construction is a chain of names and classes, as
`ResolvedZenImport` is; `FindOrAdd` is `find_or_add_resolved_import`.

`LoadOrder` is the sort as a function: again and again the first ready command by
the order of the heap (public exports, then Create, then the index), which is what
`OrderCanonical` says of the algorithm in `ExportLoadOrder`; bundles, arcs inside the
package and the layout of other packages' bundles follow it. Packages with
cyclic dependencies, which the sort refuses, are not among the inputs; that a rebuilt
package is sortable, and is sorted and cut into bundles as it was before, is part of
`ConvertsBack`.

`UnknownOnlyIfLost` excuses an import in UE4 if a lost package stands before its own in
the list that is searched (`asset_conversion.rs` 293), or before that of a class on
its path; a lost package after it is no excuse.

`ZenHeader` works in units of four bytes. The tables are cells of their widths
and the summary has offsets only, so that a reader who takes a section for
another, by a wrong version or by the heuristic for bulk data, is seen. Left out: names
with numbers, flags, the summary's other fields, the case of names, and what
the entries of the bulk data map say.

### ShaderGroups, ShaderArchive, ShaderLibrary

`ConvertLibrary` is the loop of `action_to_zen` over the libraries: the asset
info into the map of packages, then groups, archive header and chunks. A byte of
code is a token that names its shader, or what it is the compression of, and
its position. `StartLibrary` reads an archive with its groups and starts the
pipeline: `Send` and `CloseChannel` are the producer, `Take` the iterator that
feeds the workers, `Work` a worker, `Receive` the closure on the main thread,
`EndLibrary` what follows, with the preload ranges and the asset info of the
packages. A compression may fail; then the receiver is dropped, and
the producer stops with an error on one kind of message and panics on another. The
sort by maps, the split of large groups and the sequences of indices that are
found again are those of the code, with their order of comparison.

The guards of the pipeline have names (`MaySend`, `AllSent`, `MayTake`,
`MayReceive`, `MayEnd`), so that proofs can say who may go on. `LaidOutInOrder` gives,
while a library is rebuilt, the written code as a function of how many messages have been
written (`CodeUpTo`), that the tables of the archive fit each other (`Readable`), and
that the messages name each shader of the library exactly once (`WellFormed`). The part
of `FailsJustly` about rebuilds that have started is `RebuildFailsJustly`.

The reader guesses the method of a compression once for a library and keeps it: a
library whose shaders are compressed by two methods cannot be converted, and one that
shares a group with a library of another method cannot be read back, as the chunk of the
group is that of the library converted last (`Mixed`, an exception of `FailsJustly`; the
run has games of two libraries with one method each, and fails without the exception).
A library without an asset info file has an empty one.

Left out: the bit widths of entries, the
version of the archive, names of files, the statistics that are logged, the
checks of paths in `action_to_legacy_shaders`.

## Runs

| run | specification and bounds | checks | states |
|---|---|---|---|
| `pool` | 4 threads, 2 handles, 2 reads each, fairness | `HandlesExclusive` `NoHandleLeaks` `NoLostWakeup` `EveryReadReturns` | 8.5 k |
| `cache` | 3 workers, 2 packages, 2 lookups each, fairness | `SingleLoad` `ActsAsMemo` `LookupsReturn` | 36 k |
| `to_zen` | 2 workers, 4 assets of 3 packages, one imported package outside, both modes, fairness | `AllOrNothing` `EntryMatchesData` `ArcsMatchReader` `BulkDataBounded` `CommandReturns` | 11 k |
| `load_order` | 3 exports, 1 import, every choice of at most 2 preload dependencies | `RespectsDependencies` `OrderCanonical` `SortsInLoadOrder` | 59 k |
| `bundles` | 3 exports, at most 1 preload dependency, every legal order, every set of public exports, both kinds of offset; 5 bytes of data, exports out of order, one without data, with and without end tag | `BundlesCutLoadOrder` `DependenciesMet` `DataSurvives` | 1,727 k |
| `external_arcs` | 2 commands, 3 objects of 2 packages and the script, at most 3 dependencies, 2 bundles | `ArcsMatchDependencies` `FailsJustly` | 1,467 k |
| `external_arcs_duplicates` | the same with 2 dependencies | `PackagesWithoutDuplicates`, violated | |
| `to_legacy` | 2 workers, 2 packages, one of them patched, a library of 2 files, both sinks, fairness | `CompleteWhenOk` `NoOrphanFiles` `CommandReturns` | 117 k |
| `to_legacy_twice` | the same | `FilesWrittenOnce`, violated | |
| `containers` | global, a container and its patch, blocks of 2 bytes, 2 writes among 3, 1 pack-raw, 2 versions, tails of 1 byte lost; and one container with 3 writes among 3 packages, all 6 header versions, with and without override | `PathsAgree` `ListingMatchesRead` `EntryMatchesChunk` `ActsAsLayers` | 42 k |
| `imports` | a package with 2 exports and 4 to 8 imports, 4 that may be imported, in every order and several lists, 7 engines, lost, redirected and versioned packages; exports public or not, an extra dependency either way between them or on an import | `SameObjects` `UnknownOnlyIfLost` `DependenciesKept` `ConvertsBack` `HeaderReadsBack` `NeverPanics` | 76 k |
| `shaders` | a library of up to 3 shaders with 1 or 2 maps of any of them, larger ones with groups to split, two libraries with shared maps and shaders; methods mixed; channel of 2, 3 taken ahead, fairness | `CodeSurvives` `PreloadsCover` `LaidOutInOrder` `FailsJustly` `GroupsBounded` `AssetsSurvive` `RebuildEnds` | 203 k |

Why the bounds are enough to show something: four threads and two handles give
two sleepers and a late comer that takes the handle meant for one of them; three
workers on one package give a holder of its lock, a waiter, and a probe between
the two; in `to_zen` the two assets of one package id, an import cycle and an
import from outside make every case of the fixup, and four assets exceed what
two workers and the writer may hold; two dependencies on top of the creation
edges make cycles, ties, double edges and cycles that leave a part of the graph
listed; an export without data and a file that has the exports in another order than their
indices make wrong offsets visible; two commands of one bundle depending on one
import make duplicate arcs. In `containers` two writes put a chunk into the base
and its replacement into the patch, or give a path to another chunk, or write a
package twice; a package of three bytes needs two blocks and leaves the second
one short; the bulk data without bytes comes before and after others; two
versions make stores that are refused. Three packages with
zero to two imports and one or two shader hashes, written by themselves, make every
offset of a store entry differ, in every version of the header. In `imports` the native package with its
class, and another package with an object, in every order, put holes and
outers before and after what needs them; two exports
give every kind of dependency between exports, on imports and on themselves; losing one of three
packages leaves unknown objects among known ones. In `shaders` three shaders and two maps give
shared, own and unreferenced shaders and every order of them; a group of four
shaders over the limit is split in two and three; a channel of two and three messages taken
ahead are fewer than the messages, so that each side waits for the other, and a
failure finds messages in every place.

Type invariants are proved where they are part of an inductive invariant
(all modules with proofs) and not run again; nor are `LockDiscipline`, `OneVerdict`
and `VerdictJust`, which are proved and which `SingleLoad`, `ActsAsMemo` and
`SortsInLoadOrder` rest on. In the other modules a wrong type makes TLC stop or breaks
one of the properties.

Every counter is bounded by a constant, not by a state constraint: `MaxReads` and
`MaxLookups` (calls per thread), `MaxHandles` (the pool's own limit),
`MaxDependencies` and `Bundles` (inputs of `ExternalArcs`), `Usages` (the
writes, uses of pack-raw, and bytes that a flush loses, of `ContainerStore`),
`Cases` and `Games` (what `PackageRoundTrip` and `ShaderLibrary` convert),
`MaxGroupSize`, `ChannelSize` and `Ahead` (limits of the code, made small).
`ContainerStore` has no deadlock check: a user may stop.

### Fairness

- `FilePool`: weak fairness per thread on each iteration of `acquire` and on the
  return of a handle. The scheduler runs threads, a read ends. None of
  `SpuriousWake`, of who is notified, of who wins the mutex, of a new call.
- `PackageCache`: weak fairness per worker. A worker waiting for a package's lock
  gets it because each worker makes finitely many lookups.
- `ZenConversion`, `ToLegacy`: weak fairness per worker, of the main thread and
  of the thread that runs the conversion. A sender is enabled only when the
  receiver listens, so no fairness helps a worker in `send`. Nothing is assumed about failures.
- `ShaderLibrary`: weak fairness of the rebuild as a whole: some thread that
  can take a step takes one. No step is undone, so each rebuild has finitely many, and nothing
  is assumed about which thread runs, or about failures.

## What is proved

For every value of the constants, from the assumptions named in the modules
(finite sets of threads and exports, values that stand for nothing are not
members of the sets) and nothing else.

**`FilePoolProofs`**: `TypeCorrect`, `Exclusive`, `NoLeak`, `WakeupsNotLost`.
The invariants are inductive together, with two strengthenings: a thread holds a
handle exactly while it reads (`HeldWhileReading`), and threads sleep only when
the limit has been reached (`SleepersAreOverLimit`). Without the latter,
`NoLostWakeup` fails under a step that opens a handle; with it, a drop while
somebody sleeps adds one idle handle and one awakened thread, and a thread that takes one leaves
the loop. The proof has three parts: types, where handles are, and the count of
the threads at the head of the loop against the length of the queue.

**`PackageCacheProofs`**: `TypeCorrect`, `LocksRespected`, `LoadedOnce`,
`VerdictUnique`, `CacheActsAsMemo`. The strengthening is `LoadsAccounted` (a
package has been loaded exactly if its outcome is recorded or about to be, and a
recorded package is not being loaded) and `ReturnsTheAnswer`. Both follow from
the lock discipline and the second probe under the lock. The refinement maps the
table to the recorded answers: only publish and reject settle a package, and
every other step is an asking, a reply or a stutter.

**`ZenConversionProofs`**: `TypeCorrect`, `PublishesAllOrNothing`,
`EntriesMatchData`, `ArcsMatch`, `BulkBounded`, for any number of workers, any
assets with any bulk data files, several of one package or not, in both modes. What makes
the four invariants inductive is an account of where each asset is: waiting, with
a worker, with the main thread or done, in one place only (`OnePlace`) and in
none only after an error (`NoneLost`). `WrittenSoFar` says which chunks of an
asset are in the table of contents at every point of the writer's loop, as
an equivalence, so that nothing is missing and nothing is there twice.
`LastWins` follows the store entries and the lookup of the fixup through the list of
what was written and kept: each is of the last asset with that package,
which at the end is the one a reader's index has. `FixedSoFar` says the
same of the arcs fixed so far. `Stages` has what the code's order of statements gives:
all workers are done before the fixup starts, the fixup before the flush.

**`ToLegacyProofs`**: `TypeCorrect`, `FilesInOrder`, `SuccessIsComplete`, for any
containers with any lists of packages and files, libraries, workers, and both sinks. A package is
with one worker or waiting exactly while its status is open
(`OneTaker`), so that the counter of failures counts each once (`Counted`). As
long as no error has reached the main thread, what was handed over is written or
about to be (`HandedSoFar`); after it, that fails, and only the order of what has been
written remains (`InSequence`), which is why `NoOrphanFiles` is part of
the inductive invariant and `CompleteWhenOk` follows from it. The command reports success
also when packages failed: `SuccessIsComplete` exempts exactly those, and says that there are
none, and all is written, when `failed` is 0.

**`ExternalArcsProofs`**: `TypeCorrect`, `ArcsMatch`, `FailsOnlyJustly`, for any
commands, dependencies and other packages. While arcs are added, the list of each package
and the set `seen` agree and the list is without repetition (`SeenAreListed`);
with UE5 it has the arcs of the dependencies that are through
(`ArcsOfDependencies`), with UE4 each arc stands for a dependency by its placeholder
and each dependency has one (`PlaceholdersOfDependencies`). Once written,
an arc is as listed or what its own fixup data resolves to (`Written`),
in whatever order the fixup takes them.

**`ExportProofs`**, of the sort: `SortTypeCorrect`, `DependenciesFirst`,
`VerdictCorrect`, `OrderDetermined`, `SortImplementsPromise`, for every finite
set of exports and every choice of dependencies. The strengthening ties the
counters to the graph: the counter of a command is the number of edges from
commands not yet listed, the heap holds exactly the unlisted commands whose
counter is zero, and the list has no repetition. `OrderDetermined` says that
the sort is a function of the package: every position holds the first ready
command by priority.

**`ExportProofs`**, of the bundles: `BundlesCorrect`, `LoadsInOrder`,
`ArcsHaveNoCycle`, `RoundTripKeepsData`, for every package, every exports file with the
exports in it, and every order that the promise of the sort allows. The list of placed commands is the beginning of the load order (`PlacedSoFar`), which is
complete and lists dependencies first (`SortedSoFar`). `CutSoFar` says
that the bundles lie end to end, that each command is in the bundle
it is mapped to, that one which other packages may wait for ends its bundle,
and that the bundle still open is the last. From this, bundles
ascend along the list (`Ascending`), so that an arc can only lead forward and
what a command needs is before it. The data has a second invariant, `DataInv`, on top
of the first. The offsets of the bundles, the positions of the writer and those of the reader are
sums of sizes along the list of commands. No sum is defined: `DataInv` says
that there is a list `starts` of where each command's data starts, each start one size after the
one before, which placing a command extends by one (`StartsAt`), and that
the writer (`WrittenAt`) and the reader (`RebuiltAt`) are where it says. So
the writer never bails out, and implicit offsets are the explicit ones. What the reader
writes does not touch what it wrote for other exports, since the places it
gives out are apart (`LaidOutSoFar`).

**`ShaderArchiveProofs`**: `GroupsOfLibrary`, for any library and any maximum of the size
of a group. **`ShaderLibraryProofs`**, which extends it: `GroupsAlwaysBounded`, `AlwaysReadable`,
`CodeAlwaysSurvives`, `EachSentOnce`, `OrderKept`, `NoShaderLost`,
`OnlyCompressionFails`, `NeverStuck`, `EveryStepNears`, `AssetsAlwaysSurvive`,
`FailsAlwaysJustly`, `PreloadsAlwaysCover`, for any games, any maximum
of the size of a group, any bound of the channel and any number of messages taken
ahead. A game is assumed to have libraries as their reader accepts them (`IsLibrary`:
indices and ranges in bounds, no code of size zero) in which a hash names one code that
the library has (`NamesCode`: regions in bounds, and what lies there is that code);
chunks, groups and shaders are identified by their hashes
everywhere in the code. Asset infos are lists of maps with lists of packages (`IsInfo`).

- `GroupsOfLibrary`. A list of lists that has every shader at one place (`Splits`)
  stays one through each of the steps that make the groups: the sort by maps, the
  streaks, the raytracing shaders apart, the split by size and the sort within a
  group. The greedy split keeps the total, and the smallest group it adds to is no larger than
  the average: with one group more than the total has maxima, the result exceeds the
  maximum by less than its largest shader. No group stays empty, since a group
  with code is never the smallest while another has none.
- `GroupsAlwaysBounded`. Each group is found or added among the indices without
  moving those of the groups before it (`HeaderSoFar`), so that the header of an
  archive describes the groups that were made; that and where the chunks are
  is the invariant `Container` of the way to the container.
- `AlwaysReadable`. The reader goes through the groups; after each, the shaders of the groups
  it has read have code and no others (`ReadSoFar`).
- `CodeAlwaysSurvives`. A chunk has the code of the shaders its name lists, whole or
  compressed (`KnownChunks`), whichever of the libraries that share the name wrote it
  last; this needs that the code in a library is that of its hash. The offset of a shader
  in its group is the sum of the sizes before it, and no size is zero, so that the
  reader's sort by offset leaves the shaders as they are (`AlreadySorted`) and what it
  cuts out between two offsets is the code of one of them (`CodeCut`, `ArchiveReads`). What the workers make of it
  reads back as the same code, as compressed data are taken only if they are smaller and so are never
  mistaken for plain ones (`SmallestReads`), and lies at its place by `NoShaderLost`.
- `EachSentOnce`. The messages are three sequences joined, the middle one itself
  joined from those of the maps. `FlattenSeq` chooses a function by a recursive
  equation; there is one, it is the sequence of the partial results, and each element
  of the parts has one place in the whole (`FlattenPlaces`). A shader counted
  once then has one place in one map (`CountedOnce`), so its map asks for it and no
  other does (`OwnOnce`); those counted more often or never are asked for by themselves
  (`AskedOnce`). A map that lists a shader twice counts it twice.
- `OrderKept`. The invariant counts the messages: those `Done`, taken, and in the
  channel make up those sent, in their order (`OnTheWay`), and the code of the first
  `Done` is what is written, each shader where the layout says (`WrittenSoFar`). Workers
  end in any order without moving a message; the main thread takes the first only.
- `NoShaderLost`. What a message wrote stays where it was written (`CodeStays`), and
  when the library may end every message is done; with `EachSentOnce` each shader has
  its own code, whole, at its place.
- `OnlyCompressionFails`. A message that failed, a dropped receiver and an end with an
  error or a panic are steps of one path that starts with a failed compression
  (`FailedJustly`): the receiver is never dropped for another reason, so no send fails.
- `NeverStuck` says that some thread may take a step whatever the bounds, after a failed
  compression too, and `EveryStepNears` that every step makes the natural number
  `StepsLeft` smaller. Both, stated on the guards and without fairness, are what
  `RebuildEnds` rests on: under weak fairness of the rebuild a library that starts has
  to end.
- `AssetsAlwaysSurvive`. Two folds, one in the other, push the maps of an info to the
  lists of its packages, and each push adds one reference and loses none (`Pushed`,
  `PackagesRefer`, `InfoRefers`). So the references are those of the infos of the
  libraries converted so far (`Informing`): of all of them when the first library
  is read back, since none is before the last has been converted.
- `FailsAlwaysJustly`. Each step of a conversion and of a reading is followed the other
  way round: with room among the indices a group gets its place (`EntrySucceeds`); the
  method that is known is one that some shader of the libraries uses (`MayKnow`), so
  without two methods in them every region unpacks (`BytesSucceed`); the shaders of a group lie where
  the header says (`GroupInPlaces`). Every chunk of the container is
  the chunk of one archive (`Origins`), of the size that archive says (`MadeSoFar`), so
  without a clash the size that the reader's header says is that of the chunk, and
  a size below the full one means that the chunk is compressed (`MadeReads`).
- `PreloadsAlwaysCover`. The requests for the own shaders of a map are between its two
  marks, in one place of the messages, and there are no others (`MessagesMarked`). The
  invariant `MarksSoFar` says what the marks have left in the layout: after the first, where
  the code of the map starts; after the second, its region, from the end of the code up to the one
  to that up to the other. When all is written, the region is therefore the code of the
  shaders that only this map lists, without a gap, and code of no other shader
  (`CompleteCovers`); the regions of those that are shared follow it (`PreloadsCovered`).
  The attempt to prove it for every map failed on those that list a shader twice:
  such a shader counts as shared, and the map gets its region twice
  (`shader_library.rs` 783 to 796). `PreloadsCover` now says that no byte is preloaded
  twice for maps without repetition only, and the run has a game with such a map.

The inductions over messages and joined sequences (`CodeByMessage`,
`FlattenDefined`, `PlacesStep`, `CodeStays`) are replaced by `LeastNumber`: a set
of numbers has a least one, from the well-foundedness of finite subsets. The folds of
the way to the container and of the reader use `Induction`, which is
`LeastNumber` in the form of a set of numbers that has zero and every successor: the
partial results of a fold are a function on `0..n` (`Fold` is one), and a predicate on
its n-th value (`HeaderSoFar`, `ArchiveSoFar`, `ReadSoFar`) is carried from each to the next.

Out of the prover's reach, left to TLC:

- liveness under fairness (`EveryReadReturns`, `LookupsReturn`, `CommandReturns` of
  both commands, `RebuildEnds`) and anything about `ENABLED`;
- functions defined by recursion over data, on which all of
  `PackageRoundTrip` (chains of outers and of imports) and the containers of
  `ContainerStore` (the tree of paths, the layout of store entries) with its
  refinement of `LayeredStore` rest.

No theorem module reaches a `RECURSIVE` operator.

## Findings

1. **Duplicate arcs in UE4 packages** (`external_arcs_duplicates`).
   `zen_asset_conversion.rs` 470 says "Prevent adding duplicate dependencies on
   the packages". With the fixup every dependency has a fresh placeholder, so the
   comparison never finds a duplicate; after the fixup the package has equal
   arcs, one for every command of a bundle that depends on the same bundle of
   an imported package. Without the fixup, from UE5 on, there are none
   (`ArcsMatchDependencies`).
2. **Patched packages are converted twice** (`to_legacy_twice`).
   `IoStoreBackend::packages` (`iostore.rs` 301) lists a package once per
   container and `packages_all` (304) makes the list unique, the opposite of
   `chunks` and `chunks_all`, of what `iostore.rs` 447 expects ("packages should
   already be unique in individual containers") and of the help of `list --all`
   (`main.rs` 73). `to-legacy` then writes the files of such a package twice,
   concurrently, and a `.pak` gets two entries of one path.

Other observations, which TLC made or which came up while the code was
translated; no run is kept for them:

- `finalize_asset` (1031) says "We should never end up with fewer imports than
  we have to fill the holes". TLC refutes `HolesFilled` in `PackageRoundTrip`:
  an asset that imports a package and no object of it has a null entry for the
  package in the zen import map, and nothing rebuilds an import for that entry.
  The handling that follows the comment is right (`SameObjects`, `ConvertsBack`).
- `shader_library.rs` 943 says "ensuring that no group is larger than maximum
  group size". The greedy split does not: TLC refutes `GroupsWithinMaximum`;
  what holds is `GroupsBounded`.
- Shaders of no map "should not exist, but we should still handle and preserve
  them" (543). `to-legacy` does; `to-zen` panics on an underflow (1011) when
  a group of them is longer than the list of indices.
- Two libraries with a group of the same shaders write one chunk, but each has
  the sizes of its own in its header. If one is compressed and the other is not,
  `to-legacy` fails (`Clash` in `ShaderLibrary`).
- When a compression fails, the producer of the pipeline may panic on `unwrap`
  (526, 540) instead of returning its error, and the command ends with
  the panic.
- A search for a UE4 import ends with an error at the first lost package, although a
  later one may have the object (`asset_conversion.rs` 293): objects
  become unknown because of packages that have nothing to do with them.
- A package without exports comes back without its end tag: it has no bundles, so
  that `build_export_map` (548) sees no need to rebuild the data and nothing adds the
  tag that `write_exports_in_bundle_order` left out (`DataSurvives` says so).
- `to-zen` drops pre-stream requests and packages that are imported and not used.

## Not modelled

| part | why |
|---|---|
| `legacy_asset.rs` beyond indices and paths | field by field I/O, without state |
| name map, script objects as a file | names and native objects are model values; no state besides a table that is read once |
| chunk ids, package ids | hashes; model values |
| compression, encryption | library calls |
| `ser.rs`, `compact_binary.rs`, `manifest.rs`, `logging.rs` | bytes and output |
| inspection commands | sequential, or parallel with a file handle per thread and nothing shared |
| load logger | its state is that of the game |
| C++ readers | a second, sequential program, which the Rust program does not use |

Inputs outside of the models: packages that import themselves (the fixup would
wait for its own lock, `zen_asset_conversion.rs` 905); export files
shorter than the footer of four bytes (`zen_asset_conversion.rs` 809
subtracts four from their length); a container named `*_4294967295_P`
(`iostore.rs` 84 adds two to the number).

## Plan

In this order, the most important behaviour first; done: 1 to 9.

1. `FilePool` and its proofs.
2. `PackageCache` implementing `LookupMemo`, and its proofs.
3. `ZenConversion`: what a container may contain after failures.
4. `ExportLoadOrder` implementing `LoadOrder`, and its proofs.
5. `ExportBundles`, `ExternalArcs`.
6. `ToLegacy`.
7. `ContainerStore` on `ContainerFile`, `DirectoryIndex` and `ContainerHeader`,
   implementing `LayeredStore`.
8. `PackageRoundTrip` on `PackageObjects`, `ToZenObjects`, `ZenHeader` and
   `RebuiltDependencies`.
9. `ShaderLibrary` on `ShaderGroups` and `ShaderArchive`.
10. Headers that cannot be parsed (`iostore.rs` 370).
11. The C++ readers, against the operators of `ContainerFile`.

Theorems to come: that the preload dependencies rebuilt from bundles and arcs contain
those the bundles were built from.
