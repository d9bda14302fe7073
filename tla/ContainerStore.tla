--------------------------- MODULE ContainerStore ---------------------------
(***************************************************************************)
(* A directory of containers: one is written at a time (IoStoreWriter in   *)
(* src/src/iostore_writer.rs, as to-zen uses it), all or one are opened    *)
(* and answer by priority (src/src/iostore.rs), and the chunks of an open  *)
(* store are unpacked and packed again (unpack-raw and pack-raw).          *)
(*                                                                         *)
(* The writer may be given up at any point, and the last flush of a        *)
(* container, in the destructors of its buffers, may lose a tail of it.    *)
(* All commands of a behaviour have one --override-container-header-version*)
(* or none: a header whose version the file does not tell is read as it    *)
(* was written.  `usage` also bounds what is written and lost.             *)
(***************************************************************************)
EXTENDS ContainerFile, ContainerHeader, StoreInputs, FiniteSets
LOCAL INSTANCE SequencesExt
LOCAL INSTANCE FiniteSetsExt
LOCAL INSTANCE TLC

CONSTANTS
  Usages, \* the override, [given, version], and the bounds of a behaviour: the
          \* names, versions, chunks and packages that are written, the numbers
          \* of writes and of uses of pack-raw, and the bytes a flush loses
  Idle    \* not a name

ASSUME StoreAssumption ==
  /\ Idle \notin Names
  /\ \A v \in Versions : v[2] \in HeaderVersions
  /\ \A u \in Usages :
       /\ u.given \in BOOLEAN /\ u.version \in HeaderVersions
       /\ u.names \subseteq Names /\ u.versions \subseteq Versions
       /\ u.chunks \subseteq ChunkInputs /\ u.packages \subseteq PackageInputs
       /\ u.writes \in Nat /\ u.repacks \in Nat /\ u.lost \in Nat

VARIABLES
  usage,     \* of the commands
  disk,      \* the .utoc and .ucas of each container
  writing,   \* the container that is being written
  version,   \* of its table of contents
  file,      \* its table of contents and the bytes written
  header,    \* its header
  writes,    \* number of writes
  repacks,   \* number of uses of pack-raw
  stack      \* the containers of the open store, the first one first asked

writerVars == <<writing, version, file, header>>
vars == <<usage, disk, writerVars, writes, repacks, stack>>

NoFile == [toc |-> NewToc, cas |-> <<>>]
Missing == [status |-> "absent", version |-> 0, file |-> NoFile]
Unfinished == [status |-> "unfinished", version |-> 0, file |-> NoFile]

\* What a lost tail leaves of a container: a table of contents is complete or
\* cannot be read.
Flushed(v, f, kept) ==
  [status |-> "finished", version |-> v,
   file |-> [toc |-> StoredToc(f.toc), cas |-> SubSeq(f.cas, 1, kept)]]

KeptBytes(f) == {k \in 0..Len(f.cas) : Len(f.cas) - k <= usage.lost}

\* The game's container of script objects has no header.
GlobalFile == Flushed(GlobalVersion, WriteChunk(NoFile, ScriptObjects.id, NoPath, DataOf(0, ScriptObjects)),
                      ScriptObjects.length)

-----------------------------------------------------------------------------
Init ==
  /\ usage \in Usages
  /\ disk = [n \in Names |-> IF IsGlobal(n) THEN GlobalFile ELSE Missing]
  /\ writing = Idle
  /\ version = 0
  /\ file = NoFile
  /\ header = NewHeader(Initial)
  /\ writes = 0
  /\ repacks = 0
  /\ stack = <<>>

-----------------------------------------------------------------------------
(* IoStoreWriter.                                                          *)

\* The writer is gone, with its buffers.
DropWriter ==
  /\ writing' = Idle
  /\ version' = 0
  /\ file' = NoFile
  /\ header' = NewHeader(Initial)

\* Both files are created, and truncated if they exist.
NewWriter(n, v) ==
  /\ writing = Idle /\ stack = <<>> /\ ~IsGlobal(n) /\ n \in usage.names
  /\ IF usage.given THEN v[2] = usage.version ELSE v[2] # PreInitial
  /\ writing' = n
  /\ version' = v[1]
  /\ file' = NoFile
  /\ header' = NewHeader(v[2])
  /\ disk' = [disk EXCEPT ![n] = Unfinished]
  /\ UNCHANGED <<usage, writes, repacks, stack>>

WriteBulkChunk(in) ==
  /\ writing # Idle /\ writes < usage.writes
  /\ writes' = writes + 1
  /\ file' = WriteChunk(file, in.id, in.path, DataOf(writes', in))
  /\ UNCHANGED <<usage, disk, writing, version, header, repacks, stack>>

\* Variant of HeaderWith that leaves the package out.
HeaderWithout(in, w) == header

\* write_package_chunk, then the localized package or the redirect.
HeaderWith(in, w) ==
  LET h == AddPackage(header, in.package, EntryOf(w, in))
  IN  IF IsLocalized(in) THEN AddLocalizedPackage(h, in.culture, in.source, in.package)
      ELSE IF IsRedirect(in) THEN AddPackageRedirect(h, in.source, in.package) ELSE h

WritePackageData(in) ==
  /\ writing # Idle /\ writes < usage.writes
  /\ writes' = writes + 1
  /\ header' = HeaderWith(in, writes')
  /\ file' = WriteChunk(file, PackageChunk(in.package), in.path, DataOf(writes', in))
  /\ UNCHANGED <<usage, disk, writing, version, repacks, stack>>

\* The serialised header, aligned.
HeaderData(h) == [i \in 1..2 |-> <<"header", Serialize(h), i>>]

\* A command that fails drops the writer.
WriteFails ==
  /\ writing # Idle
  /\ DropWriter
  /\ UNCHANGED <<usage, disk, writes, repacks, stack>>

\* The header is the last chunk.  The buffers are flushed when they are dropped
\* and errors are ignored.
FinalizeWriter ==
  /\ writing # Idle
  /\ LET full == WriteChunk(file, HeaderChunk(writing), NoPath, HeaderData(header))
     IN  \/ \E kept \in KeptBytes(full) :
              disk' = [disk EXCEPT ![writing] = Flushed(version, full, kept)]
         \/ UNCHANGED disk
  /\ DropWriter
  /\ UNCHANGED <<usage, writes, repacks, stack>>

-----------------------------------------------------------------------------
(* IoStoreContainer and IoStoreBackend.                                    *)

\* The first chunk that is a header; 0 if there is none.
HeaderIndex(toc) == SelectInSeq(toc.chunks, IsHeaderChunk)

\* IoStoreContainer::open; a container whose header cannot be read is refused.
CanOpen(n) ==
  disk[n].status = "finished" /\ Let(disk[n].file, LAMBDA f :
    LET i == HeaderIndex(f.toc) IN i # 0 => ReadChunk(f, f.toc.chunks[i]).result = "ok")

HeaderOf(f) == Let(ReadChunk(f, f.toc.chunks[HeaderIndex(f.toc)]).data[1][2],
                   LAMBDA written : Deserialize(written, usage))

Opened(n) ==
  Let(disk[n].file, LAMBDA f :
      LET headed == HeaderIndex(f.toc) # 0
      IN  [name |-> n, version |-> disk[n].version, file |-> f, headed |-> headed,
           header |-> IF headed THEN HeaderOf(f) ELSE NewHeader(Initial)])

\* sort_container_name, and the comparison of what it returns.
ChunkVersion(n) == IF n.patch = NoPatch THEN 0 ELSE n.patch + 2
SortKey(n) == <<IF IsGlobal(n) THEN 1 ELSE 0, ChunkVersion(n), n.base>>
Greater(k, l) == \E i \in 1..3 : k[i] > l[i] /\ \A j \in 1..(i - 1) : k[j] = l[j]

SameVersions(s) ==
  /\ \A i \in DOMAIN s : s[i].version = s[1].version
  /\ \A i, j \in DOMAIN s : s[i].headed /\ s[j].headed => s[i].header.version = s[j].header.version

\* Variant of ByPriority that keeps the order of the directory.
InListingOrder(s) == s

ByPriority(s) == SortSeq(s, LAMBDA a, b : Greater(SortKey(a.name), SortKey(b.name)))

\* A directory, whose entries read_dir returns in any order: every container
\* must open, and they are checked and sorted.
OpenDirectory ==
  /\ writing = Idle /\ stack = <<>>
  /\ \E order \in SetToSeqs({n \in Names : disk[n].status # "absent"}) :
       /\ \A i \in DOMAIN order : CanOpen(order[i])
       /\ \E opened \in {[i \in DOMAIN order |-> Opened(order[i])]} :
            SameVersions(opened) /\ stack' = ByPriority(opened)
  /\ UNCHANGED <<usage, disk, writerVars, writes, repacks>>

\* A path that is not a directory.
OpenFile(n) ==
  /\ writing = Idle /\ stack = <<>> /\ CanOpen(n)
  /\ stack' = <<Opened(n)>>
  /\ UNCHANGED <<usage, disk, writerVars, writes, repacks>>

CloseStore ==
  /\ stack # <<>>
  /\ stack' = <<>>
  /\ UNCHANGED <<usage, disk, writerVars, writes, repacks>>

\* What each container of the store answers: read, chunk_path,
\* package_store_entry and lookup_package_redirect.
ReadMaps == [i \in DOMAIN stack |->
  [id \in ChunkIds(stack[i].file.toc) |-> ReadChunk(stack[i].file, id)]]
PathMaps == [i \in DOMAIN stack |-> FileNames(stack[i].file.toc)]
EntryMaps == [i \in DOMAIN stack |-> stack[i].header.packages]
RedirectMaps == [i \in DOMAIN stack |-> stack[i].header.redirectLookup]

\* The store asks one container after the other; FirstWith is 0 if none answers.
FirstWith(maps, x) == SelectInSeq(maps, LAMBDA map : x \in DOMAIN map)
Answers(maps) ==
  Let(maps, LAMBDA all :
      [x \in UNION {DOMAIN all[i] : i \in DOMAIN all} |-> all[FirstWith(all, x)][x]])

\* Variant of StoreChunks that repeats a chunk for each container that has it.
ChunksOfContainers ==
  UNION {{[id |-> id, container |-> c] : id \in ChunkIds(stack[c].file.toc)} : c \in DOMAIN stack}

\* chunks: those of each container in turn, each id once.
StoreChunks ==
  {chunk \in ChunksOfContainers :
     \A c \in 1..(chunk.container - 1) : chunk.id \notin ChunkIds(stack[c].file.toc)}

-----------------------------------------------------------------------------
(* unpack-raw and pack-raw.                                                *)

\* unpack-raw reads each listed chunk and its path from its own container;
\* pack-raw writes them in the order of another directory.
ListedRead(chunk) == ReadChunk(stack[chunk.container].file, chunk.id)
ListedPath(chunk) ==
  LET paths == FileNames(stack[chunk.container].file.toc)
  IN  IF chunk.id \in DOMAIN paths THEN paths[chunk.id] ELSE NoPath

Packed(order) ==
  FoldLeft(LAMBDA f, chunk : WriteChunk(f, chunk.id, ListedPath(chunk), ListedRead(chunk).data),
           NoFile, order)

PackRaw(n) ==
  /\ stack # <<>> /\ repacks < usage.repacks
  /\ ~IsGlobal(n) /\ \A i \in DOMAIN stack : stack[i].name # n
  /\ \A chunk \in StoreChunks : ListedRead(chunk).result = "ok"
  /\ repacks' = repacks + 1
  /\ \/ \E order \in SetToSeqs(StoreChunks) :
          \E kept \in KeptBytes(Packed(order)) :
            disk' = [disk EXCEPT ![n] = Flushed(stack[1].version, Packed(order), kept)]
     \/ disk' = [disk EXCEPT ![n] = Unfinished]
  /\ UNCHANGED <<usage, writerVars, writes, stack>>

Next ==
  \/ \E n \in Names : \/ \E v \in usage.versions : NewWriter(n, v)
                      \/ OpenFile(n) \/ PackRaw(n)
  \/ \E in \in usage.chunks : WriteBulkChunk(in)
  \/ \E in \in usage.packages : WritePackageData(in)
  \/ WriteFails \/ FinalizeWriter
  \/ OpenDirectory \/ CloseStore

Spec == Init /\ [][Next]_vars

-----------------------------------------------------------------------------
(* Properties.                                                             *)

\* unpack, which goes by path, and unpack-raw, which goes by chunk and asks for
\* its path, agree: the file with the path of a chunk is that chunk, after
\* whatever replacements of chunks and of paths.
PathsAgree ==
  \A n \in Names : disk[n].status = "finished" =>
    LET toc == disk[n].file.toc
        paths == FileNames(toc)
    IN  \A id \in DOMAIN paths : FileMap(toc)[paths[id]] = ChunkIndex(toc, id)

\* A chunk that the store lists, read through the container it is listed with
\* (unpack-raw, manifest), is what reading it by its id returns (to-legacy, get).
ListingMatchesRead ==
  stack # <<>> => /\ {chunk.id : chunk \in StoreChunks} =
                         UNION {ChunkIds(stack[i].file.toc) : i \in DOMAIN stack}
                    /\ \A chunk \in StoreChunks : ListedRead(chunk) = Answers(ReadMaps)[chunk.id]

\* The store entry of a package and its data, which to-legacy asks for one after
\* the other, come from one container, although the store searches headers for
\* one and tables of contents for the other.  Two exceptions, both of pack-raw: a
\* container packed from several has several headers, of which only the first is
\* read; and after a second pack-raw it may have the packages of two headers but
\* only one of these, as a repacked header keeps its id, the name of its container.
Headers(toc) == {i \in DOMAIN toc.chunks : IsHeaderChunk(toc.chunks[i])}
EntryMatchesChunk ==
  /\ stack # <<>>
  /\ repacks < 2
  /\ \A i \in DOMAIN stack : Cardinality(Headers(stack[i].file.toc)) < 2
  =>
    \A in \in PackageInputs :
      FirstWith(EntryMaps, in.package) = FirstWith(ReadMaps, PackageChunk(in.package))

-----------------------------------------------------------------------------
(* What it implements.                                                     *)

Localized(h) == IF h.version > Initial THEN ToSet(h.localized)
                ELSE {p[1] : p \in UNION {ToSet(h.cultures[c]) : c \in DOMAIN h.cultures}}

Content(status, v, f, headed, h) ==
  [status |-> status, version |-> v,
   header |-> IF headed THEN h.version ELSE NoHeader,
   data |-> [id \in {i \in ChunkIds(f.toc) : ~IsHeaderChunk(i)} |-> ReadChunk(f, id)],
   files |-> Let(FileMap(f.toc), LAMBDA map : [path \in DOMAIN map |-> ReadAt(f, map[path])]),
   names |-> FileNames(f.toc),
   entries |-> [p \in DOMAIN h.packages |-> Kept(h.packages[p], h.version)],
   redirects |-> h.redirectLookup,
   localized |-> Localized(h)]

DiskContent(n) ==
  IF disk[n].status = "absent" THEN Absent
  ELSE IF ~CanOpen(n) THEN Broken
  ELSE Let(Opened(n), LAMBDA c : Content("complete", c.version, c.file, c.headed, c.header))

View == [data |-> Let(Answers(ReadMaps), LAMBDA read : Without(read, {id \in DOMAIN read : IsHeaderChunk(id)})),
         names |-> Answers(PathMaps),
         entries |-> Answers(EntryMaps),
         redirects |-> Answers(RedirectMaps)]

Layers == INSTANCE LayeredStore WITH
  drafting <- IF writing = Idle THEN {} ELSE {writing},
  draft <- IF writing = Idle THEN Absent ELSE Content("draft", version, file, TRUE, header),
  published <- [n \in Names |-> DiskContent(n)],
  reading <- {stack[i].name : i \in DOMAIN stack},
  view <- View

\* Writers, readers and pack-raw do to the maps what LayeredStore promises: every
\* read returns the last data written, of the container of the highest priority,
\* headers survive their serialization, and damage is never returned as data.
ActsAsLayers == Layers!Spec
=============================================================================
