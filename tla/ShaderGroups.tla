---------------------------- MODULE ShaderGroups ----------------------------
(***************************************************************************)
(* How the shaders of a legacy library are grouped into the chunks of a    *)
(* container (build_io_store_shader_code_archive_header in                 *)
(* src/src/shader_library.rs).                                             *)
(*                                                                         *)
(* A library has the fields                                                *)
(*   maps     for every shader map its hash and its range of the indices,  *)
(*            which starts after `first`                                   *)
(*   shaders  the entries: hash, frequency, and the sizes and the place of *)
(*            the code                                                     *)
(*   indices  the shaders of the maps, one range after the other           *)
(* Shaders, maps and groups are counted from one.                          *)
(***************************************************************************)
EXTENDS Integers, SequencesExt, Maps

CONSTANT MaxGroupSize  \* max_shader_group_size, r.ShaderCodeLibrary.MaxShaderGroupSize

ASSUME MaxGroupSizeAssumption == MaxGroupSize \in Nat \ {0}

\* A fold from the left, with every intermediate result evaluated once.
Fold(Op(_, _), base, seq) ==
  LET f[n \in 0..Len(seq)] ==
        IF n = 0 THEN base
        ELSE Let(<<f[n - 1], seq[n]>>, LAMBDA pair : Op(pair[1], pair[2]))
  IN  f[Len(seq)]

\* sort_by, which is stable: an element goes behind those that it is not before.
Inserted(sorted, x, before) ==
  InsertAt(sorted, Cardinality({k \in DOMAIN sorted : <<x, sorted[k]>> \notin before}) + 1, x)
Sorted(list, before) == Fold(LAMBDA sorted, x : Inserted(sorted, x, before), <<>>, list)

\* The elements of a list that are in a set.
Chosen(list, set) ==
  FlattenSeq([k \in DOMAIN list |-> IF list[k] \in set THEN <<list[k]>> ELSE <<>>])

\* RayGen, RayMiss, RayHitGroup and RayCallable of EShaderFrequency
RaytracingFrequencies == 6..9

\* A range of the indices: of a map or of a group.
RangeOf(indices, entry) == SubSeq(indices, entry.first + 1, entry.first + entry.count)
ShadersOf(library, map) == RangeOf(library.indices, library.maps[map])

\* The maps with a shader, in order; a map that lists it twice is there twice.
MapsOf(library, s) ==
  FlattenSeq([m \in DOMAIN library.maps |->
    LET times == Cardinality({i \in DOMAIN ShadersOf(library, m) : ShadersOf(library, m)[i] = s})
    IN  [k \in 1..times |-> m]])

Lexicographic(a, b) ==
  \E k \in DOMAIN a : a[k] < b[k] /\ SubSeq(a, 1, k - 1) = SubSeq(b, 1, k - 1)

\* The fewest maps first, then in the order of the maps.
MapOrder(mapsOf) ==
  LET Before(a, b) ==
        IF Len(mapsOf[a]) # Len(mapsOf[b]) THEN Len(mapsOf[a]) < Len(mapsOf[b])
        ELSE \/ Lexicographic(mapsOf[a], mapsOf[b])
             \/ mapsOf[a] = mapsOf[b] /\ a < b
  IN  {x \in (DOMAIN mapsOf) \X (DOMAIN mapsOf) : Before(x[1], x[2])}

\* Runs of shaders of the same maps.
WithShader(mapsOf, groups, s) ==
  IF groups # <<>> /\ mapsOf[Head(groups[Len(groups)])] = mapsOf[s]
  THEN [groups EXCEPT ![Len(groups)] = Append(@, s)]
  ELSE Append(groups, <<s>>)
StreaksOf(list, mapsOf) == Fold(LAMBDA groups, s : WithShader(mapsOf, groups, s), <<>>, list)
Streaks(library, mapsOf) ==
  StreaksOf(Sorted([s \in DOMAIN library.shaders |-> s], MapOrder(mapsOf)), mapsOf)

\* For one shader format, the raytracing shaders go to a group of their own
\* unless one of the two were empty.
WithoutRaytracing(library, format, group) ==
  LET raytracing == {s \in ToSet(group) : library.shaders[s].frequency \in RaytracingFrequencies}
      with == Chosen(group, raytracing)
      without == Chosen(group, ToSet(group) \ raytracing)
  IN  IF format # "PCD3D_SM5" \/ with = <<>> \/ without = <<>> THEN <<group>>
      ELSE <<without, with>>

\* sort_shaders_ascending, and the other way.
Smaller(library, a, b) ==
  LET Key(s) == LET e == library.shaders[s]
                IN  <<e.full, e.size, e.frequency, e.offset>>
  IN  Lexicographic(Key(a), Key(b))
Ascending(library, group) ==
  Sorted(group, {x \in ToSet(group) \X ToSet(group) : Smaller(library, x[1], x[2])})
Descending(library, group) ==
  Sorted(group, {x \in ToSet(group) \X ToSet(group) : Smaller(library, x[2], x[1])})

SizeOf(library, group) == Fold(LAMBDA n, s : n + library.shaders[s].full, 0, group)

\* How many groups a group that is too large becomes.  Variant: without the one
\* more for the remainder.
NewGroupsWithoutRest(library, group) ==
  Max({1, Min({SizeOf(library, group) \div MaxGroupSize, Len(group)})})
NewGroups(library, group) == Min({SizeOf(library, group) \div MaxGroupSize + 1, Len(group)})

\* Too large a group becomes several: its shaders, the largest first, each go
\* to the new group that is the smallest so far.
SmallestOf(library, groups) ==
  CHOOSE g \in DOMAIN groups :
    \A h \in DOMAIN groups :
      \/ SizeOf(library, groups[g]) < SizeOf(library, groups[h])
      \/ SizeOf(library, groups[g]) = SizeOf(library, groups[h]) /\ g <= h
ToSmallest(library, groups, s) == [groups EXCEPT ![SmallestOf(library, groups)] = Append(@, s)]
Spread(library, list, number) ==
  Fold(LAMBDA groups, s : ToSmallest(library, groups, s), [g \in 1..number |-> <<>>], list)
SplitBySize(library, group) ==
  IF SizeOf(library, group) <= MaxGroupSize \/ Len(group) = 1 THEN <<group>>
  ELSE Spread(library, Descending(library, group), NewGroups(library, group))

\* The groups of a library, every one in ascending order.
GroupsOf(library, format) ==
  LET streaks == Streaks(library, [s \in DOMAIN library.shaders |-> MapsOf(library, s)])
      kept == FlattenSeq([g \in DOMAIN streaks |-> WithoutRaytracing(library, format, streaks[g])])
      cut == FlattenSeq([g \in DOMAIN kept |-> SplitBySize(library, kept[g])])
  IN  [g \in DOMAIN cut |-> Ascending(library, cut[g])]

-----------------------------------------------------------------------------
(* The header of the archive: groups are ranges of the indices too.        *)

Panicked == [result |-> "panic"]

\* find_or_add_sequence_in_shader_indices.  The number of places to look at,
\* len - n + 1, underflows for a group longer than all indices.  A checked build
\* panics.  Otherwise it is a number past all indices, unless it is zero, and the
\* search ends at an index out of range; the groups that are so long have only
\* shaders of no map, which the indices do not have.
Placed(indices, group, checked, compared) ==
  LET places == Len(indices) - Len(group) + 1
      Found == {k \in 1..places : \A i \in 1..compared : indices[k + i - 1] = group[i]}
  IN  IF places < 0 \/ (checked /\ places = 0) THEN Panicked
      ELSE IF Found # {} THEN [result |-> "ok", first |-> Min(Found) - 1, indices |-> indices]
      ELSE [result |-> "ok", first |-> Len(indices), indices |-> indices \o group]

\* Variant: only the first shader is compared.
PlaceOfFirst(indices, group, checked) == Placed(indices, group, checked, 1)
PlaceOf(indices, group, checked) == Placed(indices, group, checked, Len(group))

\* build_io_store_shader_code_archive_header.  A group is named by the hashes
\* and the sizes of its shaders.
IdOf(library, group) ==
  [k \in DOMAIN group |-> <<library.shaders[group[k]].hash, library.shaders[group[k]].full>>]
WithEntry(library, checked, header, group) ==
  LET place == PlaceOf(header.indices, group, checked)
  IN  IF header.result # "ok" THEN header
      ELSE IF place.result # "ok" THEN Panicked
      ELSE [header EXCEPT
             !.indices = place.indices,
             !.groups = Append(@, [first |-> place.first, count |-> Len(group),
                                   full |-> SizeOf(library, group), packed |-> 0,
                                   id |-> IdOf(library, group)])]
HeaderOf(library, groups, checked) ==
  LET GroupOf(s) == CHOOSE g \in DOMAIN groups : s \in ToSet(groups[g])
      Offset(s) == LET group == groups[GroupOf(s)]
                       k == CHOOSE i \in DOMAIN group : group[i] = s
                   IN  SizeOf(library, SubSeq(group, 1, k - 1))
  IN  Fold(LAMBDA header, group : WithEntry(library, checked, header, group),
        [result |-> "ok", maps |-> library.maps, indices |-> library.indices, groups |-> <<>>,
         shaders |-> [s \in DOMAIN library.shaders |->
                        [hash |-> library.shaders[s].hash,
                         frequency |-> library.shaders[s].frequency,
                         group |-> GroupOf(s), offset |-> Offset(s)]]],
        groups)

ArchiveHeader(library, format, checked) ==
  HeaderOf(library, GroupsOf(library, format), checked)
=============================================================================
