--------------------------- MODULE ContainerFile ---------------------------
(***************************************************************************)
(* A container file as it is written (src/src/iostore_writer.rs) and read  *)
(* (Toc in src/src/main.rs): the table of contents, whose chunks are       *)
(* ranges of a space of whole blocks, and the .ucas with the bytes of the  *)
(* blocks.  The writer neither compresses nor encrypts.                    *)
(***************************************************************************)
EXTENDS Integers, Sequences
LOCAL INSTANCE SequencesExt
LOCAL INSTANCE FiniteSetsExt
LOCAL INSTANCE DirectoryIndex
LOCAL INSTANCE Maps

CONSTANT BlockSize  \* compression_block_size

ASSUME BlockSizeAssumption == BlockSize \in Nat \ {0}

\* A table of contents without chunks.
NewToc == [chunks |-> <<>>, ranges |-> <<>>, blocks |-> <<>>, index |-> NoIndex]

NoPath == <<>>

AlignUp(n, a) == ((n + a - 1) \div a) * a

-----------------------------------------------------------------------------
(* The writer: the table of contents and the bytes written so far.         *)

\* The blocks of data at an offset of the .ucas, the last one perhaps short.
BlocksOf(offset, length) ==
  [b \in 1..(AlignUp(length, BlockSize) \div BlockSize) |->
     [offset |-> offset + (b - 1) * BlockSize,
      size |-> Min({BlockSize, length - (b - 1) * BlockSize})]]

\* Where the range of the next chunk starts.
RangeStart(file) == Len(file.toc.blocks) * BlockSize

\* Every chunk starts a block.  A path becomes a file of the directory index
\* with the place of the chunk in the table.
WriteChunk(file, id, path, data) ==
  LET toc == file.toc
  IN  [toc |->
         [chunks |-> Append(toc.chunks, id),
          ranges |-> Append(toc.ranges, [offset |-> RangeStart(file), length |-> Len(data)]),
          blocks |-> toc.blocks \o BlocksOf(Len(file.cas), Len(data)),
          index |-> IF path = NoPath THEN toc.index
                    ELSE AddFile(toc.index, path, Len(toc.chunks) + 1)],
       cas |-> file.cas \o data]

\* What Toc::ser keeps of the table.
StoredToc(toc) == [toc EXCEPT !.index = StoredIndex(@)]

-----------------------------------------------------------------------------
(* The reader.                                                             *)

Ok(data) == [result |-> "ok", data |-> data]
Failed == [result |-> "error", data |-> <<>>]
Panicked == [result |-> "panic", data |-> <<>>]

\* chunk_id_map
ChunkIds(toc) == ToSet(toc.chunks)
ChunkIndex(toc, id) == Max({i \in DOMAIN toc.chunks : toc.chunks[i] = id})

\* file_map and file_map_rev, filled in the order of the listing.
FileMap(toc) ==
  Let(Listing(toc.index), LAMBDA files :
      [path \in {files[i].path : i \in DOMAIN files} |->
         files[Max({i \in DOMAIN files : files[i].path = path})].data])

FileMapRev(toc) ==
  Let(Listing(toc.index), LAMBDA files :
      [i \in {files[k].data : k \in DOMAIN files} |->
         files[Max({k \in DOMAIN files : files[k].data = i})].path])

\* The paths of the chunks that have one.
FileNames(toc) ==
  Let(FileMapRev(toc), LAMBDA rev :
      [id \in {c \in ChunkIds(toc) : ChunkIndex(toc, c) \in DOMAIN rev} |->
         rev[ChunkIndex(toc, id)]])

\* Toc::read of the chunk at a place of the table.  The index of the last
\* block underflows for no bytes at offset zero; a block that the .ucas lacks
\* is a read_exact that fails; the blocks are cut to the length of the chunk.
ReadAt(file, i) ==
  Let(file.toc.ranges[i], LAMBDA range :
    LET first == (range.offset \div BlockSize) + 1
        last == (AlignUp(range.offset + range.length, BlockSize) - 1) \div BlockSize + 1
        Bytes(b) == SubSeq(file.cas, b.offset + 1, b.offset + b.size)
    IN  IF range.offset + range.length = 0 \/ last > Len(file.toc.blocks) THEN Panicked
        ELSE Let(SubSeq(file.toc.blocks, first, last), LAMBDA blocks :
          IF \E b \in DOMAIN blocks : blocks[b].offset + blocks[b].size > Len(file.cas) THEN Failed
          ELSE Ok(SubSeq(FlattenSeq([b \in DOMAIN blocks |-> Bytes(blocks[b])]), 1, range.length))))

ReadChunk(file, id) == Let(<<file, id>>, LAMBDA a : ReadAt(a[1], ChunkIndex(a[1].toc, a[2])))
=============================================================================
