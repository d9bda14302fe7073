--------------------------- MODULE DirectoryIndex ---------------------------
(***************************************************************************)
(* The directory index of a container (src/src/main.rs, module             *)
(* directory_index): directories and files are entries of two arrays,      *)
(* linked by indices, and their names are indices into a string table.     *)
(* Indices start at one here; Nil is u32::MAX.                             *)
(***************************************************************************)
LOCAL INSTANCE Naturals
LOCAL INSTANCE Sequences
LOCAL INSTANCE SequencesExt
LOCAL INSTANCE Maps

Nil == 0

\* FIoDirectoryIndexResource::default
NoIndex == [dirs |-> <<>>, files |-> <<>>, strings |-> <<>>]

NewDir(name) == [name |-> name, child |-> Nil, sibling |-> Nil, file |-> Nil]
NewFile(name) == [name |-> name, next |-> Nil, data |-> 0]

\* The entries reached from the first one through a link.
Chain(entries, link, first) ==
  LET f[i \in 0..Len(entries)] == IF i = Nil THEN <<>> ELSE <<i>> \o f[entries[i][link]]
  IN  f[first]

\* The index with a name in its string table, where each name is once.
WithName(index, name) ==
  IF Contains(index.strings, name) THEN index
  ELSE [index EXCEPT !.strings = Append(@, name)]

NameIndex(index, name) == SelectInSeq(index.strings, LAMBDA s : s = name)

\* Each returns the index and the place of the entry in it.
GetOrCreateDir(index, parent, name) ==
  LET children == Chain(index.dirs, "sibling", index.dirs[parent].child)
      known == SelectInSeq(children, LAMBDA i : index.strings[index.dirs[i].name] = name)
      named == WithName(index, name)
      added == [named EXCEPT !.dirs = Append(@, NewDir(NameIndex(named, name)))]
      id == Len(added.dirs)
  IN  IF known # 0 THEN <<index, children[known]>>
      ELSE IF children = <<>> THEN <<[added EXCEPT !.dirs[parent].child = id], id>>
      ELSE <<[added EXCEPT !.dirs[Last(children)].sibling = id], id>>

\* A new file behind the others of its directory.
AppendFile(index, parent, name) ==
  LET siblings == Chain(index.files, "next", index.dirs[parent].file)
      named == WithName(index, name)
      added == [named EXCEPT !.files = Append(@, NewFile(NameIndex(named, name)))]
      id == Len(added.files)
  IN  IF siblings = <<>> THEN <<[added EXCEPT !.dirs[parent].file = id], id>>
      ELSE <<[added EXCEPT !.files[Last(siblings)].next = id], id>>

GetOrCreateFile(index, parent, name) ==
  LET siblings == Chain(index.files, "next", index.dirs[parent].file)
      known == SelectInSeq(siblings, LAMBDA i : index.strings[index.files[i].name] = name)
  IN  IF known # 0 THEN <<index, siblings[known]>> ELSE AppendFile(index, parent, name)

\* The file of a path, a sequence of names, now has this user data.
AddFile(index, path, data) ==
  LET rooted == IF index.dirs = <<>> THEN [index EXCEPT !.dirs = <<NewDir(Nil)>>] ELSE index
      walked == FoldLeft(LAMBDA at, name : GetOrCreateDir(at[1], at[2], name),
                         <<rooted, 1>>, Front(path))
      placed == GetOrCreateFile(walked[1], walked[2], Last(path))
  IN  [placed[1] EXCEPT !.files[placed[2]].data = data]

\* The files with their paths in the order iter_root visits them: those of a
\* directory, then those of its children, under the directory's own name.
Under(name, files) == [i \in DOMAIN files |-> [files[i] EXCEPT !.path = <<name>> \o @]]

Listing(index) ==
  LET FilesIn(dir) ==
        Let(Chain(index.files, "next", dir.file), LAMBDA files :
            [i \in DOMAIN files |-> [path |-> <<index.strings[index.files[files[i]].name]>>,
                                     data |-> index.files[files[i]].data]])
      visit[d \in 1..Len(index.dirs)] ==
        LET dir == index.dirs[d]
            Visit(children) == FlattenSeq([i \in DOMAIN children |-> visit[children[i]]])
        IN  Let(FilesIn(dir) \o Let(Chain(index.dirs, "sibling", dir.child), Visit), LAMBDA files :
                IF dir.name = Nil THEN files ELSE Under(index.strings[dir.name], files))
  IN  IF index.dirs = <<>> THEN <<>> ELSE visit[1]

\* The index as it is read back: nothing of it is written when it has no file.
StoredIndex(index) == IF index.files = <<>> THEN NoIndex ELSE index
=============================================================================
