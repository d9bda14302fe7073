--------------------------- MODULE ShaderArchive ---------------------------
(***************************************************************************)
(* A shader library in its two forms (src/src/shader_library.rs): the file *)
(* of a legacy game, an entry for every shader and the code behind them,   *)
(* and the archive of a container, a header and a chunk for every group of *)
(* shaders.  Code is a sequence of bytes; a byte is a record of what it    *)
(* belongs to: the shaders `of` whose code was compressed by `method`, or  *)
(* one shader and "None".  A format and a name are one game's, and numbers *)
(* fit their fields.                                                       *)
(***************************************************************************)
EXTENDS ShaderGroups

CONSTANTS FullSize,   \* of every shader hash, the size of its code
          PackedSize  \* and what compression makes of it

ASSUME SizesAssumption ==
  /\ FullSize \in [DOMAIN FullSize -> Nat \ {0}]
  /\ PackedSize \in [DOMAIN FullSize -> Nat \ {0}]

NoMethod == "None"
Methods == {NoMethod, "Zlib", "Zstd", "LZ4", "Oodle"}

AnyByte == [of : Seq(DOMAIN FullSize), method : Methods, at : Nat]
Byte(of, method, i) == [of |-> of, method |-> method, at |-> i]

Code(hash) == [i \in 1..FullSize[hash] |-> Byte(<<hash>>, NoMethod, i)]

\* compress: the shaders whose code the data is, and their size together.
Pack(data, method) ==
  LET of == FlattenSeq([i \in DOMAIN data |-> IF data[i].at = 1 THEN data[i].of ELSE <<>>])
      size == Fold(LAMBDA n, h : n + PackedSize[h], 0, of)
  IN  [i \in 1..size |-> Byte(of, method, i)]

\* Compressed data is taken if it is smaller.  Variant: or as large.
SmallestOrEqual(data, method) ==
  IF method # NoMethod /\ Len(Pack(data, method)) <= Len(data) THEN Pack(data, method) ELSE data
Smallest(data, method) ==
  IF method # NoMethod /\ Len(Pack(data, method)) < Len(data) THEN Pack(data, method) ELSE data

Failed == [result |-> "error"]

\* decompress_shader_code: the method is guessed once and kept, as only one gives
\* the data back.
Unpack(bytes, known, size) ==
  LET data == FlattenSeq([k \in DOMAIN bytes[1].of |-> Code(bytes[1].of[k])])
      method == bytes[1].method
  IN  IF bytes # <<>> /\ method # NoMethod /\ known \in {NoMethod, method}
           /\ Len(data) = size /\ bytes = Pack(data, method)
      THEN [result |-> "ok", method |-> method, data |-> data]
      ELSE Failed

\* The bytes as they are, when they have their full size.
Plain(bytes, packed, known, full) ==
  IF packed # full THEN Unpack(bytes, known, full)
  ELSE [result |-> "ok", method |-> known, data |-> bytes]

\* A library as its file is read: every shader has code, and the indices and
\* their ranges are in bounds.
IsLibrary(library) ==
  /\ library.shaders \in Seq([hash : DOMAIN FullSize, frequency : Nat, full : Nat \ {0},
                              size : Nat, offset : Nat])
  /\ library.indices \in Seq(DOMAIN library.shaders)
  /\ library.maps \in Seq(ToSet(library.maps))
  /\ \A m \in DOMAIN library.maps :
       /\ library.maps[m].first \in Nat /\ library.maps[m].count \in Nat
       /\ library.maps[m].first + library.maps[m].count <= Len(library.indices)
  /\ library.code \in Seq(AnyByte)

\* The code of a shader in a library, plain.
CodeIn(library, s) ==
  LET e == library.shaders[s]
      bytes == SubSeq(library.code, e.offset + 1, e.offset + e.size)
  IN  Plain(bytes, e.size, NoMethod, e.full)

\* A hash names one code, which the library has: shaders of different libraries that
\* have it are the same.
NamesCode(library) ==
  \A s \in DOMAIN library.shaders :
    /\ library.shaders[s].offset + library.shaders[s].size <= Len(library.code)
    /\ CodeIn(library, s).result = "ok"
    /\ CodeIn(library, s).data = Code(library.shaders[s].hash)

-----------------------------------------------------------------------------
(* write_io_store_library, for a library with its code.                    *)

\* One shader of a group, behind those before it.
Behind(group, plain) ==
  IF group.result # "ok" THEN group
  ELSE IF plain.result # "ok" THEN Failed ELSE [plain EXCEPT !.data = group.data \o @]

PlaceShader(library, header, group, s) ==
  LET e == library.shaders[s]
      bytes == SubSeq(library.code, e.offset + 1, e.offset + e.size)
  IN  IF group.result = "ok"
           /\ (\/ e.offset + e.size > Len(library.code)
               \/ header.shaders[s].offset # Len(group.data))
      THEN Failed
      ELSE Behind(group, Plain(bytes, e.size, group.method, e.full))

\* The chunk of a group, and its size for the header.
WithGroup(archive, g, group) ==
  LET chunk == Smallest(group.data, group.method)
  IN  IF group.result # "ok" THEN group
      ELSE IF Len(group.data) # archive.header.groups[g].full THEN Failed
      ELSE [result |-> "ok", method |-> group.method,
            header |-> [archive.header EXCEPT !.groups[g].packed = Len(chunk)],
            chunks |-> Append(archive.chunks, chunk)]

WriteGroup(library, archive, g) ==
  IF archive.result # "ok" THEN archive
  ELSE LET header == archive.header
       IN  WithGroup(archive, g,
             Fold(LAMBDA group, s : PlaceShader(library, header, group, s),
                  [result |-> "ok", method |-> archive.method, data |-> <<>>],
                  RangeOf(header.indices, header.groups[g])))

WriteGroups(library, header) ==
  IF header.result # "ok" THEN header
  ELSE Fold(LAMBDA archive, g : WriteGroup(library, archive, g),
            [result |-> "ok", method |-> NoMethod, header |-> header, chunks |-> <<>>],
            [g \in DOMAIN header.groups |-> g])

WriteLibrary(library, format, checked) ==
  WriteGroups(library, ArchiveHeader(library, format, checked))

\* The chunks of the container: of two with a name the later one is read.
WithChunks(chunks, archive) ==
  Fold(LAMBDA map, g : WithKey(map, archive.header.groups[g].id, archive.chunks[g]),
           chunks, [g \in DOMAIN archive.chunks |-> g])

-----------------------------------------------------------------------------
(* IoStoreShaderCodeArchive::read.                                         *)

\* The shaders of a group end where the next one starts.
ReadGroup(header, chunks, archive, g) ==
  LET group == header.groups[g]
      plain == Plain(chunks[group.id], group.packed, archive.method, group.full)
      shaders == RangeOf(header.indices, group)
      sorted == Sorted(shaders, {x \in ToSet(shaders) \X ToSet(shaders) :
                                   header.shaders[x[1]].offset < header.shaders[x[2]].offset})
      End(k) == IF k = Len(sorted) THEN group.full ELSE header.shaders[sorted[k + 1]].offset
      Place(s) == CHOOSE k \in DOMAIN sorted : sorted[k] = s
  IN  IF archive.result # "ok" THEN archive
      ELSE IF plain.result # "ok" \/ \E s \in ToSet(shaders) : header.shaders[s].group # g
      THEN Failed
      ELSE IF group.full > Len(plain.data) THEN Panicked
      ELSE [result |-> "ok", method |-> plain.method,
            code |-> [s \in DOMAIN archive.code |->
                        IF s \notin ToSet(shaders) THEN archive.code[s]
                        ELSE SubSeq(plain.data, header.shaders[s].offset + 1, End(Place(s)))]]

ReadArchive(header, chunks) ==
  LET archive == Fold(LAMBDA archive, g : ReadGroup(header, chunks, archive, g),
                          [result |-> "ok", method |-> NoMethod,
                           code |-> [s \in DOMAIN header.shaders |-> <<>>]],
                          [g \in DOMAIN header.groups |-> g])
  IN  IF archive.result # "ok" THEN archive
      ELSE IF <<>> \in ToSet(archive.code) THEN Failed
      ELSE [result |-> "ok", header |-> header, method |-> archive.method, code |-> archive.code]

-----------------------------------------------------------------------------
(* The order in which layout_write_shader_code hands out the shaders.      *)

Message(kind, index, unique) == [kind |-> kind, index |-> index, unique |-> unique]

\* The messages for those of a list of shaders that are in a set.
Asked(shaders, set, unique) ==
  FlattenSeq([k \in DOMAIN shaders |->
    IF shaders[k] \in set THEN <<Message("Compress", shaders[k], unique)>> ELSE <<>>])

\* Those of the own shaders of a map, between two marks.
OwnMessages(header, own, m) ==
  <<Message("StartMap", m, FALSE)>> \o Asked(ShadersOf(header, m), own, TRUE)
    \o <<Message("EndMap", m, FALSE)>>

\* Shared shaders, then the own ones of every map, then those of no map.
Messages(archive) ==
  LET header == archive.header
      count == [s \in DOMAIN header.shaders |-> Len(MapsOf(header, s))]
      all == [s \in DOMAIN header.shaders |-> s]
      shared == {s \in DOMAIN count : count[s] > 1}
      own == {s \in DOMAIN count : count[s] = 1}
      detached == {s \in DOMAIN count : count[s] = 0}
  IN  Asked(all, shared, FALSE)
        \o FlattenSeq([m \in DOMAIN header.maps |-> OwnMessages(header, own, m)])
        \o Asked(all, detached, FALSE)

-----------------------------------------------------------------------------
(* rebuild_shader_library_from_io_store, once the code is laid out: the    *)
(* region of every shader and of the own shaders of every map.             *)

\* One region for the own shaders of a map, one for each other shader.  Variant:
\* one for every shader.
Preloads(header, layout, m, listed) ==
  LET own == layout.maps[m]
      Region(r) == [offset |-> r.offset, size |-> r.size]
      others == Chosen(ShadersOf(header, m), listed)
  IN  (IF own.size > 0 THEN <<Region(own)>> ELSE <<>>)
        \o [k \in DOMAIN others |-> Region(layout.shaders[others[k]])]

PreloadsOfEvery(header, layout, m) == Preloads(header, layout, m, DOMAIN layout.shaders)
PreloadsOf(header, layout, m) ==
  Preloads(header, layout, m, {s \in DOMAIN layout.shaders : ~layout.shaders[s].unique})

RebuiltLibrary(archive, layout) ==
  LET header == archive.header
      preloads == [m \in DOMAIN header.maps |-> PreloadsOf(header, layout, m)]
      Before(m) == Len(FlattenSeq(SubSeq(preloads, 1, m - 1)))
  IN  [maps |-> [m \in DOMAIN header.maps |->
                   [hash |-> header.maps[m].hash, first |-> header.maps[m].first,
                    count |-> header.maps[m].count, firstPreload |-> Before(m),
                    preloads |-> Len(preloads[m])]],
       shaders |-> [s \in DOMAIN header.shaders |->
                      [hash |-> header.shaders[s].hash, frequency |-> header.shaders[s].frequency,
                       offset |-> layout.shaders[s].offset, size |-> layout.shaders[s].size,
                       full |-> Len(archive.code[s])]],
       preloads |-> FlattenSeq(preloads),
       indices |-> header.indices,
       code |-> layout.code]
=============================================================================
