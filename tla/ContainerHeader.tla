-------------------------- MODULE ContainerHeader --------------------------
(***************************************************************************)
(* The header of a container (src/src/container_header.rs): the store      *)
(* entries of its packages, its localized packages and its redirects, in   *)
(* memory and serialised.  The store entries are serialised as an array of *)
(* fixed records that point, relative to themselves, at arrays behind it;  *)
(* the layout depends on the version, and is modelled in words of four     *)
(* bytes.  The other fields are serialised one after the other, and are    *)
(* the fields of a record here.  A package id is a number; a package name  *)
(* is represented by the id that is its hash.                              *)
(***************************************************************************)
EXTENDS Integers, Sequences, Maps
LOCAL INSTANCE SequencesExt
LOCAL INSTANCE FiniteSetsExt

\* EIoContainerHeaderVersion
PreInitial == -1
Initial == 0
LocalizedPackages == 1
OptionalSegmentPackages == 2
NoExportInfo == 3
SoftPackageReferences == 4
HeaderVersions == PreInitial..SoftPackageReferences

-----------------------------------------------------------------------------
(* In memory.                                                              *)

NewHeader(v) == [version |-> v, packages |-> NoMap, localizedSources |-> {},
                 localized |-> <<>>, cultures |-> NoMap, redirects |-> <<>>,
                 redirectLookup |-> NoMap]

AddPackage(h, p, entry) == [h EXCEPT !.packages = WithKey(@, p, entry)]

\* Since version LocalizedPackages each source package is listed once, of
\* whatever culture; before, each culture maps its sources.
AddLocalizedPackage(h, culture, source, p) ==
  IF h.version > Initial
  THEN IF source \in h.localizedSources THEN h
       ELSE [h EXCEPT !.localizedSources = @ \cup {source},
                      !.localized = Append(@, source)]
  ELSE [h EXCEPT !.cultures =
          WithKey(@, culture, Append(IF culture \in DOMAIN @ THEN @[culture] ELSE <<>>,
                                     <<source, p>>))]

AddPackageRedirect(h, source, p) ==
  [h EXCEPT !.redirects = Append(@, <<source, p>>),
            !.redirectLookup = WithKey(@, source, p)]

-----------------------------------------------------------------------------
(* The buffer of store entries.                                            *)

\* The place of the view of the imported packages in an entry, and the size of
\* an entry, in words.
Layout(v) == CASE v = PreInitial -> [member |-> 2, size |-> 4]
               [] v = Initial -> [member |-> 6, size |-> 8]
               [] v \in {LocalizedPackages, OptionalSegmentPackages} ->
                    [member |-> 2, size |-> 6]
               [] OTHER -> [member |-> 0, size |-> 4]

\* A package id is two words, a hash five; their values fit the first.
Ids(s) == FlattenSeq([i \in DOMAIN s |-> <<s[i], 0>>])
Hashes(s) == FlattenSeq([i \in DOMAIN s |-> <<s[i], 0, 0, 0, 0>>])

\* FFilePackageStoreEntry::serialize; a view is <<length, offset>>.
EntryWords(e, imported, shaders, v) ==
  (IF v = Initial THEN <<e.bundlesSize, 0>> ELSE <<>>)
  \o (IF v < NoExportInfo THEN <<e.exportCount, e.bundleCount>> ELSE <<>>)
  \o (IF v = Initial THEN <<e.loadOrder, 0>> ELSE <<>>)
  \o imported
  \o (IF v > Initial THEN shaders ELSE <<>>)

\* A cursor writes into a buffer, which grows with zeros.
WriteAt(buffer, at, words) ==
  IF words = <<>> THEN buffer
  ELSE [i \in 1..Max({Len(buffer), at + Len(words)}) |->
          CASE i > at /\ i <= at + Len(words) -> words[i - at]
            [] i <= Len(buffer) -> buffer[i]
            [] OTHER -> 0]

\* Where an array is, seen from the view of the imported packages in the entry
\* at a place, and seen from the view of the shader hashes, two words behind it.
ImportsOffset(array, at, v) == array - at - Layout(v).member
ShadersOffset(array, at, v) == array - at - Layout(v).member - 2

\* The entries in the order of their ids; the arrays of each follow those of
\* the entries before it.
SerializeEntries(packages, v) ==
  LET View(s, offset) == IF s = <<>> THEN <<0, 0>> ELSE <<Len(s), offset>>
      PutEntry(acc, p) ==
        LET e == packages[p]
            imports == Ids(e.imported)
            shaders == IF v > Initial THEN Hashes(e.shaders) ELSE <<>>
            shadersAt == acc.arrays + Len(imports)
            entry == EntryWords(e, View(e.imported, ImportsOffset(acc.arrays, acc.at, v)),
                                View(e.shaders, ShadersOffset(shadersAt, acc.at, v)), v)
        IN  [buffer |-> WriteAt(WriteAt(WriteAt(acc.buffer, acc.arrays, imports),
                                        shadersAt, shaders), acc.at, entry),
             at |-> acc.at + Len(entry),
             arrays |-> shadersAt + Len(shaders)]
      ids == SetToSortSeq(DOMAIN packages, <)
  IN  FoldLeft(PutEntry, [buffer |-> <<>>, at |-> 0, arrays |-> Len(ids) * Layout(v).size],
               ids).buffer

\* The entry at a position among the entries; a word past the end reads as -1,
\* which no writer writes.
DeserializeEntry(buffer, i, v) ==
  LET Word(at) == IF at \in 0..(Len(buffer) - 1) THEN buffer[at + 1] ELSE -1
      counts == IF v = Initial THEN 2 ELSE 0
      views == counts + (IF v < NoExportInfo THEN 2 ELSE 0) + (IF v = Initial THEN 2 ELSE 0)
      fields == views + (IF v > Initial THEN 4 ELSE 2)
      from == (i - 1) * fields
      member == (i - 1) * Layout(v).size + Layout(v).member
      Elements(num, at, width) == [j \in 1..num |-> Word(at + (j - 1) * width)]
  IN  [bundlesSize |-> IF v = Initial THEN Word(from) ELSE 0,
       loadOrder |-> IF v = Initial THEN Word(from + 4) ELSE 0,
       exportCount |-> IF v < NoExportInfo THEN Word(from + counts) ELSE 0,
       bundleCount |-> IF v < NoExportInfo THEN Word(from + counts + 1) ELSE 0,
       imported |-> Elements(Word(from + views), member + Word(from + views + 1), 2),
       shaders |-> IF v > Initial
                   THEN Elements(Word(from + views + 2), member + Word(from + views + 3) + 2, 5)
                   ELSE <<>>]

-----------------------------------------------------------------------------
(* The header as a chunk.                                                  *)

\* What a header holds on disk: the signature and the version exist only since
\* version LocalizedPackages, culture maps only before.
Serialize(h) ==
  [magic |-> h.version > Initial,
   version |-> IF h.version > Initial THEN h.version ELSE Initial,
   ids |-> SetToSortSeq(DOMAIN h.packages, <),
   buffer |-> SerializeEntries(h.packages, h.version),
   localized |-> IF h.version > Initial THEN h.localized ELSE <<>>,
   cultures |-> IF h.version > Initial THEN NoMap ELSE h.cultures,
   redirects |-> h.redirects]

\* The version is the one written, or without a signature the override, or
\* Initial.  The redirect lookup keeps the last target of a source.
DeserializedVersion(s, override) ==
  IF override.given /\ override.version <= Initial THEN override.version
  ELSE IF s.magic THEN s.version
  ELSE IF override.given THEN override.version ELSE Initial

DeserializedPackages(s, v) ==
  Let([i \in DOMAIN s.ids |-> DeserializeEntry(s.buffer, i, v)], LAMBDA entries :
      [p \in ToSet(s.ids) |-> entries[SelectInSeq(s.ids, LAMBDA x : x = p)]])

Deserialize(s, override) ==
  Let(DeserializedVersion(s, override), LAMBDA v :
      [version |-> v,
       packages |-> DeserializedPackages(s, v),
       localizedSources |-> IF v > Initial THEN {s.redirects[i][1] : i \in DOMAIN s.redirects}
                            ELSE {},
       localized |-> s.localized,
       cultures |-> s.cultures,
       redirects |-> s.redirects,
       redirectLookup |-> FoldLeft(LAMBDA f, r : WithKey(f, r[1], r[2]), NoMap, s.redirects)])
=============================================================================
