--------------------------- MODULE ExportBundles ---------------------------
(***************************************************************************)
(* The export bundles of a package, out of a legacy package and back.      *)
(*                                                                         *)
(* src/src/zen_asset_conversion.rs, for container headers older than       *)
(* NoExportInfo: build_zen_dependency_bundles_legacy cuts the load order   *)
(* into bundles and records which bundle waits for which;                  *)
(* write_exports_in_bundle_order moves the data of the exports into bundle *)
(* order.  src/src/asset_conversion.rs: rebuild_asset_export_data_internal *)
(* finds the data again and lays it out by export index.                   *)
(*                                                                         *)
(* The load order is any the sort may return (module LoadOrder).  Offsets  *)
(* count from the end of the header; bundles are counted from 1.           *)
(***************************************************************************)
EXTENDS ExportGraph

CONSTANTS
  Bytes,     \* what an exports file consists of
  Files      \* the exports files considered, with the place of each export

ASSUME FileAssumption ==
  /\ Files \subseteq [size : [Exports -> Nat], serial : [Exports -> Nat], data : Seq(Bytes)]
  /\ \A f \in Files : \A e \in Exports : f.serial[e] + f.size[e] <= Len(f.data)

VARIABLES
  size,      \* serial_size of each export
  serial,    \* serial_offset of each export in the legacy file
  uexp,      \* the legacy file
  explicit,  \* the container records the offsets of bundles (above Initial)
  order,     \* the load order
  pc,        \* "sort", "place", "arcs", "write", "rebuild", "done", or
             \* "refused" (cyclic) and "bailed" (misplaced bundle)
  headers,   \* export_bundle_headers
  entries,   \* export_bundle_entries
  open,      \* current_export_bundle_header_index, 0 when no bundle is open
  offset,    \* current_export_offset; current_serial_offset of the reader
  bundleOf,  \* export_to_bundle_map, 0 for a command not placed yet
  internal,  \* internal_dependency_arcs
  next,      \* the bundle that is written or read, 0 before the first
  at,        \* how many of its entries have been
  furthest,  \* where the data read so far ends in the file it is read from:
             \* largest_exports_buffer_export_end_offset, end_of_last_export_bundle
  written,   \* the export data of the zen package
  target,    \* serial_offset of the exports in the rebuilt package
  total,     \* how much data they have
  rebuilt    \* the export data of the rebuilt package

input == <<preload, public, size, serial, uexp, explicit>>
bundles == <<headers, entries, open, bundleOf>>
position == <<next, at, furthest>>
rebuilding == <<target, total, rebuilt>>
vars == <<input, order, pc, bundles, offset, internal, position, written, rebuilding>>

\* PACKAGE_FILE_TAG, at the end of a legacy file.
Tag == "tag"

\* A byte of a file that has not been written.
Unset == "unset"

-----------------------------------------------------------------------------
Init ==
  /\ AnyPackage
  /\ \E f \in Files : size = f.size /\ serial = f.serial /\ uexp = f.data
  /\ explicit \in BOOLEAN
  /\ order = <<>>
  /\ pc = "sort"
  /\ headers = <<>>
  /\ entries = <<>>
  /\ open = 0
  /\ offset = 0
  /\ bundleOf = [n \in Nodes |-> 0]
  /\ internal = {}
  /\ next = 0 /\ at = 0 /\ furthest = 0
  /\ written = <<>>
  /\ target = <<>>
  /\ total = 0
  /\ rebuilt = <<>>

\* sort_dependencies_in_load_order, as LoadOrder promises it.
Sorting == INSTANCE LoadOrder WITH
             needs <- [n \in Nodes |-> Needs(n)],
             listed <- order,
             verdict <- IF pc = "sort" THEN "sorting"
                        ELSE IF pc = "refused" THEN "cyclic" ELSE "sorted"

Sort ==
  /\ pc = "sort"
  /\ UNCHANGED <<input, bundles, offset, internal, position, written, rebuilding>>
  /\ \/ pc' = "sort" /\ \E n \in Nodes : Sorting!List(n)
     \/ pc' = "place" /\ UNCHANGED order /\ Sorting!Complete
     \/ pc' = "refused" /\ UNCHANGED order /\ Sorting!GiveUp

-----------------------------------------------------------------------------
(* Building the bundles.                                                   *)

\* The bundles with command n added to bundle b, which is opened if it is not.
AddTo(b, n) ==
  /\ headers' =
       IF b <= Len(headers) THEN [headers EXCEPT ![b].count = @ + 1]
       ELSE Append(headers, [offset |-> offset, first |-> Len(entries), count |-> 1])
  /\ entries' = Append(entries, n)
  /\ bundleOf' = [bundleOf EXCEPT ![n] = b]

\* How much data a command adds: only Serialize commands carry data.
DataSize(n) == IF n[2] = "Serialize" THEN size[n[1]] ELSE 0

\* Variant of Closes: a bundle ends with the data of a public export.
ClosesOnData(n) == n[1] \in public /\ n[2] = "Serialize"

\* A bundle ends with a command on a public export.
Closes(n) == n[1] \in public

\* The next command of the load order goes into the open bundle.
PlaceCommand ==
  /\ pc = "place" /\ Len(entries) < Len(order)
  /\ LET n == order[Len(entries) + 1]
         b == IF open = 0 THEN Len(headers) + 1 ELSE open
     IN  /\ AddTo(b, n)
         /\ open' = IF Closes(n) THEN 0 ELSE b
         /\ offset' = offset + DataSize(n)
  /\ UNCHANGED <<input, order, pc, internal, position, written, rebuilding>>

EndPlacing ==
  /\ pc = "place" /\ Len(entries) = Len(order)
  /\ pc' = "arcs"
  /\ UNCHANGED <<input, order, bundles, offset, internal, position, written, rebuilding>>

\* Variant of BuildArcs: only what Create commands depend on.
BuildCreateArcs ==
  /\ pc = "arcs"
  /\ internal' = {a \in {<<bundleOf[m], bundleOf[n]>> : m \in Nodes, n \in Nodes} :
                    /\ a[1] # a[2]
                    /\ \E n \in Exports \X {"Create"} : \E m \in Needs(n) :
                         a = <<bundleOf[m], bundleOf[n]>>}
  /\ pc' = "write"
  /\ UNCHANGED <<input, order, bundles, offset, position, written, rebuilding>>

\* A bundle waits for the other bundles that hold what its commands depend on.
BuildArcs ==
  /\ pc = "arcs"
  /\ internal' = {a \in {<<bundleOf[m], bundleOf[n]>> : m \in Nodes, n \in Nodes} :
                    /\ a[1] # a[2]
                    /\ \E n \in Nodes : \E m \in Needs(n) :
                         a = <<bundleOf[m], bundleOf[n]>>}
  /\ pc' = "write"
  /\ UNCHANGED <<input, order, bundles, offset, position, written, rebuilding>>

-----------------------------------------------------------------------------
(* Writing the export data: write_exports_in_bundle_order.                 *)

Larger(m, n) == IF m < n THEN n ELSE m

\* The bundle at hand, if there is one, is through.
BundleThrough == next > 0 => at = headers[next].count

\* The entry at hand.
Entry == entries[headers[next].first + at + 1]

\* The next bundle is begun, if its header says that it goes here.
StartBundle ==
  /\ pc = "write" /\ BundleThrough /\ next < Len(headers)
  /\ IF headers[next + 1].offset # Len(written)
     THEN pc' = "bailed" /\ UNCHANGED <<next, at>>
     ELSE next' = next + 1 /\ at' = 0 /\ UNCHANGED pc
  /\ UNCHANGED <<input, order, bundles, offset, internal, furthest, written, rebuilding>>

\* The data of export e in the legacy file.
Blob(e) == SubSeq(uexp, serial[e] + 1, serial[e] + size[e])

\* An entry is written: the data of the export, if it is serialized.
WriteEntry ==
  /\ pc = "write" /\ ~BundleThrough
  /\ LET e == Entry[1]
     IN  IF Entry[2] = "Serialize"
         THEN /\ written' = written \o Blob(e)
              /\ furthest' = Larger(furthest, serial[e] + size[e])
         ELSE UNCHANGED <<written, furthest>>
  /\ at' = at + 1
  /\ UNCHANGED <<input, order, pc, bundles, offset, internal, next, rebuilding>>

\* What follows position n in the legacy file, without the end tag.
DataAfter(n) ==
  LET tagged == n < Len(uexp) /\ uexp[Len(uexp)] = Tag
  IN  SubSeq(uexp, n + 1, IF tagged THEN Len(uexp) - 1 ELSE Len(uexp))

\* The bytes after the exports follow.
EndWriting ==
  /\ pc = "write" /\ BundleThrough /\ next = Len(headers)
  /\ written' = written \o DataAfter(furthest)
  /\ pc' = "map"
  /\ UNCHANGED <<input, order, bundles, offset, internal, position, rebuilding>>

-----------------------------------------------------------------------------
(* Reading it back: build_export_map and rebuild_asset_export_data_internal. *)

\* The exports of the rebuilt package lie one after the other by index.
LayOut(e) ==
  /\ pc = "map"
  /\ e \in Exports \ DOMAIN target
  /\ \A x \in Exports \ DOMAIN target : e <= x
  /\ target' = [x \in DOMAIN target \cup {e} |-> IF x = e THEN total ELSE target[x]]
  /\ total' = total + size[e]
  /\ UNCHANGED <<input, order, pc, bundles, offset, internal, position, written, rebuilt>>

\* The reader starts with an empty file.
EndLayingOut ==
  /\ pc = "map" /\ DOMAIN target = Exports
  /\ rebuilt' = [x \in 1..total |-> Unset]
  /\ pc' = "rebuild"
  /\ next' = 0 /\ at' = 0 /\ furthest' = 0 /\ offset' = 0
  /\ UNCHANGED <<input, order, bundles, internal, written, target, total>>

\* Variant of BundleStart: an implicit offset is that of the first bundle.
BundleStartFixed == IF explicit THEN headers[next + 1].offset ELSE 0

\* Where the data of the next bundle starts: where its header says, or after
\* the bundle before it.
BundleStart == IF explicit THEN headers[next + 1].offset ELSE offset

\* Where the bundles up to the one at hand end.
Reached == IF next = 0 THEN furthest ELSE Larger(furthest, offset)

StartReading ==
  /\ pc = "rebuild" /\ BundleThrough /\ next < Len(headers)
  /\ next' = next + 1 /\ at' = 0
  /\ furthest' = Reached
  /\ offset' = BundleStart
  /\ UNCHANGED <<input, order, pc, bundles, internal, written, rebuilding>>

\* The data of a serialized export goes where the rebuilt package has it.
RebuildEntry ==
  /\ pc = "rebuild" /\ ~BundleThrough
  /\ LET e == Entry[1]
         place == (target[e] + 1)..(target[e] + size[e])
     IN  IF Entry[2] = "Serialize"
         THEN /\ rebuilt' = [x \in DOMAIN rebuilt |->
                               IF x \in place THEN written[offset + x - target[e]] ELSE rebuilt[x]]
              /\ offset' = offset + size[e]
         ELSE UNCHANGED <<rebuilt, offset>>
  /\ at' = at + 1
  /\ UNCHANGED <<input, order, pc, bundles, internal, next, furthest, written, target, total>>

\* What follows the last bundle is kept, and the end tag is added.  Without
\* bundles there is nothing to rebuild, and the data is kept as it is.
EndRebuilding ==
  /\ pc = "rebuild" /\ BundleThrough /\ next = Len(headers)
  /\ rebuilt' = IF headers = <<>> THEN written
                ELSE rebuilt \o SubSeq(written, Reached + 1, Len(written)) \o <<Tag>>
  /\ pc' = "done"
  /\ UNCHANGED <<input, order, bundles, offset, internal, position, written, target, total>>

-----------------------------------------------------------------------------
\* The package has been refused or converted.
Returned == pc \in {"refused", "bailed", "done"} /\ UNCHANGED vars

Next ==
  \/ Sort \/ PlaceCommand \/ EndPlacing \/ BuildArcs
  \/ StartBundle \/ WriteEntry \/ EndWriting
  \/ \E e \in Exports : LayOut(e)
  \/ EndLayingOut \/ StartReading \/ RebuildEntry \/ EndRebuilding
  \/ Returned

Spec == Init /\ [][Next]_vars

-----------------------------------------------------------------------------
BundlesBuilt == pc \in {"write", "map", "rebuild", "done", "bailed"}

\* Where bundle b ends in the list of commands, 0 before the first bundle.
EndOf(b) == IF b = 0 THEN 0 ELSE headers[b].first + headers[b].count

\* The commands of a bundle.
CommandsOf(header) == SubSeq(entries, header.first + 1, header.first + header.count)

\* The bundles cut the load order into pieces: together they hold every command
\* once, in load order, and a command that other packages may wait for is the
\* last of its bundle, so that they wait for nothing that comes after it.
BundlesCutLoadOrder ==
  BundlesBuilt =>
    /\ entries = order
    /\ EndOf(Len(headers)) = Len(order)
    /\ \A b \in DOMAIN headers :
         LET commands == CommandsOf(headers[b])
         IN  /\ headers[b].first = EndOf(b - 1)
             /\ commands # <<>>
             /\ \A i \in DOMAIN commands :
                  /\ bundleOf[commands[i]] = b
                  /\ commands[i][1] \in public => i = Len(commands)

\* A loader that runs the bundles one after the other, as UE4 does, or each
\* bundle once those it waits for are done, meets every dependency: it is
\* earlier in the same bundle, or in an earlier bundle that is waited for.
DependenciesMet ==
  BundlesBuilt =>
    \A n \in Nodes : \A m \in Needs(n) :
      \/ /\ bundleOf[m] < bundleOf[n]
         /\ <<bundleOf[m], bundleOf[n]>> \in internal
      \/ /\ bundleOf[m] = bundleOf[n]
         /\ \E i, j \in DOMAIN entries : i < j /\ entries[i] = m /\ entries[j] = n

\* No bundle waits for itself or a later one: the arcs have no cycle.
ArcsPointForward == \A a \in internal : a[1] < a[2]

\* Where the last data of an export ends in the legacy file.
LargestEnd ==
  CHOOSE n \in {0} \cup {serial[e] + size[e] : e \in Exports} :
    \A e \in Exports : serial[e] + size[e] <= n

\* Out to zen and back, the data of every export survives, at the offset the
\* rebuilt package gives it, as do the bytes after the exports, whether the
\* container records bundle offsets or leaves them implicit; the writer never
\* finds a bundle elsewhere than its header says.  Exports do not overlap.  A
\* package without exports gets no end tag.
DataSurvives ==
  /\ pc # "bailed"
  /\ pc = "done" =>
       /\ \A e \in Exports : SubSeq(rebuilt, target[e] + 1, target[e] + size[e]) = Blob(e)
       /\ \A e, x \in Exports : e < x => target[e] + size[e] <= target[x]
       /\ SubSeq(rebuilt, total + 1, Len(rebuilt)) =
            DataAfter(LargestEnd) \o (IF Exports = {} THEN <<>> ELSE <<Tag>>)
=============================================================================
