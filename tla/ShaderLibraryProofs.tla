------------------------ MODULE ShaderLibraryProofs ------------------------
(***************************************************************************)
(* Proofs about the way of shader libraries to the container and back, for *)
(* any games, sizes of the code, bound of the channel and number of        *)
(* messages taken ahead.                                                   *)
(*                                                                         *)
(* The way to the container: the sizes of the groups                       *)
(* (GroupsAlwaysBounded), and the tables of every archive that is read     *)
(* back (AlwaysReadable).  The way back: the messages name every shader    *)
(* once (EachSentOnce), the code is laid out in their order (OrderKept),   *)
(* no shader is lost (NoShaderLost), only a compression fails              *)
(* (OnlyCompressionFails), the threads never all wait for each other       *)
(* (NeverStuck), each of their steps brings the end of the library nearer  *)
(* (EveryStepNears), and both ways together give every shader its code and *)
(* every map its shaders back (CodeAlwaysSurvives), give every map the     *)
(* packages that use it back (AssetsAlwaysSurvive), fail for the reasons   *)
(* that are named and for no other (FailsAlwaysJustly), and leave what a   *)
(* game preloads for a map exactly its code (PreloadsAlwaysCover).         *)
(***************************************************************************)
EXTENDS ShaderLibrary, ShaderArchiveProofs

\* Groups into which elements are split have every element once as the property says it.
LEMMA SplitsOnce ==
  ASSUME NEW gs, NEW D, NEW S, Splits(gs, D, S)
  PROVE  Once(gs, S)
<1>1. gs \in Seq(Seq(D)) /\ DOMAIN gs = 1..Len(gs)
  BY DEF Splits
<1>2. \A g \in 1..Len(gs) :
        /\ gs[g] \in Seq(D) /\ DOMAIN gs[g] = 1..Len(gs[g])
        /\ ToSet(gs[g]) = {gs[g][k] : k \in 1..Len(gs[g])}
  <2>1. TAKE g \in 1..Len(gs)
  <2>2. gs[g] \in Seq(D)
    BY <1>1
  <2> QED
    BY <2>2, SeqTypes
<1>3. \A g \in DOMAIN gs : ToSet(gs[g]) \subseteq S
  BY <1>1 DEF Splits
<1>4. ASSUME NEW s \in S
      PROVE  \E g \in DOMAIN gs : \E k \in DOMAIN gs[g] :
               /\ gs[g][k] = s
               /\ \A h \in DOMAIN gs : \A l \in DOMAIN gs[h] : gs[h][l] = s => h = g /\ l = k
  <2>1. PICK g \in 1..Len(gs) : s \in ToSet(gs[g])
    BY DEF Splits
  <2>2. PICK k \in 1..Len(gs[g]) : gs[g][k] = s
    BY <1>2, <2>1
  <2>3. ASSUME NEW h \in 1..Len(gs), NEW l \in 1..Len(gs[h]), gs[h][l] = s
        PROVE  h = g /\ l = k
    <3>1. s \in ToSet(gs[h])
      BY <1>2, <2>3
    <3>2. h = g
      BY <2>1, <3>1 DEF Splits
    <3>3. Distinct(gs[g])
      BY DEF Splits
    <3> QED
      BY <2>2, <2>3, <3>2, <3>3 DEF Distinct
  <2>4. g \in DOMAIN gs /\ k \in DOMAIN gs[g]
    BY <1>1, <1>2
  <2>5. \A h \in DOMAIN gs : DOMAIN gs[h] = 1..Len(gs[h]) /\ h \in 1..Len(gs)
    BY <1>1, <1>2
  <2>6. \A h \in DOMAIN gs : \A l \in DOMAIN gs[h] : gs[h][l] = s => h = g /\ l = k
    BY <2>3, <2>5
  <2> QED
    BY <2>2, <2>4, <2>6
<1> QED
  BY <1>3, <1>4 DEF Once

-----------------------------------------------------------------------------
(* The container.                                                          *)

\* The chunks of an archive go to those of the container, a step at a time.
ChunkWith(archive, map, g) == WithKey(map, archive.header.groups[g].id, archive.chunks[g])
AddToContainer(archive, map, g) ==
  Let(<<map, g>>, LAMBDA pair : ChunkWith(archive, pair[1], pair[2]))
ContainerOf(map, archive, list) == Fold(LAMBDA m, g : ChunkWith(archive, m, g), map, list)
Containers(f, map, archive, list, n) ==
  f = [k \in 0..n |-> IF k = 0 THEN map ELSE AddToContainer(archive, f[k - 1], list[k])]

\* There are such chunks, and the last are the result.
LEMMA ContainerSteps ==
  ASSUME NEW map, NEW archive, NEW list, Len(list) \in Nat
  PROVE  \E f : Containers(f, map, archive, list, Len(list)) /\ ContainerOf(map, archive, list) = f[Len(list)]
<1> DEFINE T == {n \in 0..Len(list) : \E g : Containers(g, map, archive, list, n)}
<1>1. 0 \in T
  <2>1. Containers([k \in 0..0 |-> map], map, archive, list, 0)
    BY DEF Containers
  <2> QED
    BY <2>1
<1>2. ASSUME NEW n \in 0..(Len(list) - 1), n \in T
      PROVE  n + 1 \in T
  <2>1. PICK g : Containers(g, map, archive, list, n)
    BY <1>2
  <2>2. PICK h : h = [k \in 0..(n + 1) |->
                        IF k = n + 1 THEN AddToContainer(archive, g[n], list[n + 1]) ELSE g[k]]
    OBVIOUS
  <2>3. Containers(h, map, archive, list, n + 1)
    <3>1. \A k \in 0..(n + 1) : k = n + 1 \/ k \in 0..n
      OBVIOUS
    <3>2. \A k \in 0..n : k # n + 1 /\ k \in 0..(n + 1) /\ (k # 0 => k - 1 \in 0..n)
      OBVIOUS
    <3>3. \A k \in 0..n : h[k] = g[k]
      BY <2>2, <3>2
    <3>4. ASSUME NEW k \in 0..n
          PROVE  h[k] = IF k = 0 THEN map ELSE AddToContainer(archive, h[k - 1], list[k])
      BY <2>1, <3>2, <3>3 DEF Containers
    <3>5. h[n + 1] = AddToContainer(archive, h[n], list[n + 1]) /\ n + 1 # 0 /\ (n + 1) - 1 = n
      BY <2>2, <3>2, <3>3
    <3>6. \A k \in 0..(n + 1) :
            h[k] = IF k = 0 THEN map ELSE AddToContainer(archive, h[k - 1], list[k])
      BY <3>1, <3>4, <3>5
    <3> QED
      BY <2>2, <3>6 DEF Containers
  <2>4. n + 1 \in 0..Len(list)
    OBVIOUS
  <2> QED
    BY <2>3, <2>4
<1>3. Len(list) \in T
  <2> HIDE DEF T
  <2>1. 0..Len(list) \subseteq T
    BY <1>1, <1>2, Induction
  <2> QED
    BY <2>1
<1>4. \E f : Containers(f, map, archive, list, Len(list))
  BY <1>3
<1>5. ContainerOf(map, archive, list) = (CHOOSE f : Containers(f, map, archive, list, Len(list)))[Len(list)]
  BY DEF Containers, ContainerOf, Fold, AddToContainer
<1> QED
  BY <1>4, <1>5

\* A step is WithKey.
LEMMA ContainerAdded ==
  ASSUME NEW archive, NEW map, NEW g
  PROVE  AddToContainer(archive, map, g) = ChunkWith(archive, map, g)
  BY DEF AddToContainer, Let, Only

\* Step by step, every chunk goes to the container.
ContainsTo(f, map, archive, N) ==
  /\ f[0] = map
  /\ \A n \in 0..(N - 1) : f[n + 1] = ChunkWith(archive, f[n], n + 1)
ContainsAll(map, archive, N) ==
  \E f : ContainsTo(f, map, archive, N) /\ WithChunks(map, archive) = f[N]

\* So it is.
LEMMA ContainsChunks ==
  ASSUME NEW map, NEW archive, NEW N \in Nat, DOMAIN archive.chunks = 1..N
  PROVE  ContainsAll(map, archive, N)
<1>1. PICK list : list = Numbered(archive.chunks)
  OBVIOUS
<1>2. list = [k \in 1..N |-> k]
  BY <1>1 DEF Numbered
<1>3. Len(list) = N /\ \A k \in 1..N : list[k] = k
  BY <1>2
<1>4. PICK f : Containers(f, map, archive, list, N) /\ ContainerOf(map, archive, list) = f[N]
  BY <1>3, ContainerSteps
<1>5. f[0] = map
  <2>1. 0 \in 0..N
    OBVIOUS
  <2> QED
    BY <1>4, <2>1 DEF Containers
<1>6. \A n \in 0..(N - 1) : f[n + 1] = ChunkWith(archive, f[n], n + 1)
  <2>1. \A n \in 0..(N - 1) : /\ n + 1 \in 0..N /\ n + 1 \in 1..N /\ n + 1 # 0 /\ (n + 1) - 1 = n
    OBVIOUS
  <2>2. \A n \in 0..(N - 1) : f[n + 1] = AddToContainer(archive, f[n], list[n + 1])
    BY <1>4, <2>1 DEF Containers
  <2>3. \A n \in 0..(N - 1) : list[n + 1] = n + 1
    BY <1>3, <2>1
  <2> QED
    BY <2>2, <2>3, ContainerAdded
<1>7. ContainsTo(f, map, archive, N)
  BY <1>5, <1>6 DEF ContainsTo
<1>8. WithChunks(map, archive) = ContainerOf(map, archive, list)
  BY <1>1 DEF WithChunks, ContainerOf, ChunkWith, Numbered
<1> QED
  BY <1>4, <1>7, <1>8 DEF ContainsAll

\* Chunks are bytes; those that were there are, and those of the first n groups.
AllBytes(map) == \A id \in DOMAIN map : map[id] \in Seq(AnyByte)
HasChunks(map, header, n) == \A g \in 1..n : header.groups[g].id \in DOMAIN map

\* The chunks of an archive are then in the container.
LEMMA ContainerHasChunks ==
  ASSUME NEW map, AllBytes(map), NEW archive, archive.chunks \in Seq(Seq(AnyByte))
  PROVE  /\ AllBytes(WithChunks(map, archive)) /\ DOMAIN map \subseteq DOMAIN WithChunks(map, archive)
         /\ HasChunks(WithChunks(map, archive), archive.header, Len(archive.chunks))
<1>1. PICK N : N = Len(archive.chunks)
  OBVIOUS
<1>2. PICK B : B = Seq(AnyByte)
  OBVIOUS
<1>3. PICK cs : cs = archive.chunks
  OBVIOUS
<1>4. cs \in Seq(B) /\ N = Len(cs)
  BY <1>1, <1>2, <1>3
<1>5. N \in Nat /\ DOMAIN cs = 1..N /\ \A g \in 1..N : cs[g] \in B
  BY <1>4
<1>6. PICK f : ContainsTo(f, map, archive, N) /\ WithChunks(map, archive) = f[N]
  BY <1>3, <1>5, ContainsChunks DEF ContainsAll
<1>7. /\ 0 \in 0..N /\ f[0] = map
       /\ \A n \in 0..(N - 1) : f[n + 1] = ChunkWith(archive, f[n], n + 1)
  BY <1>5, <1>6 DEF ContainsTo
<1> DEFINE I(n) == /\ AllBytes(f[n]) /\ DOMAIN map \subseteq DOMAIN f[n]
                   /\ HasChunks(f[n], archive.header, n)
           T == {n \in 0..N : I(n)}
<1>8. I(0)
  <2>1. \A g \in 1..0 : FALSE
    OBVIOUS
  <2> QED
    BY <1>7, <2>1 DEF HasChunks
<1>9. ASSUME NEW n \in 0..(N - 1), I(n)
       PROVE  I(n + 1)
  <2>1. PICK id : id = archive.header.groups[n + 1].id
    OBVIOUS
  <2>2. PICK c : c = cs[n + 1]
    OBVIOUS
  <2>3. n + 1 \in 1..N /\ \A g \in 1..(n + 1) : g \in 1..n \/ g = n + 1
    BY <1>5
  <2>4. c \in Seq(AnyByte)
    BY <1>2, <1>5, <2>2, <2>3
  <2>5. f[n + 1] = [z \in DOMAIN f[n] \cup {id} |-> IF z = id THEN c ELSE f[n][z]]
    BY <1>3, <1>7, <2>1, <2>2 DEF ChunkWith, WithKey
  <2>6. AllBytes(f[n + 1])
    BY <1>9, <2>4, <2>5 DEF AllBytes
  <2>7. DOMAIN f[n + 1] = DOMAIN f[n] \cup {id}
    BY <2>5
  <2>8. HasChunks(f[n + 1], archive.header, n + 1)
    BY <1>9, <2>1, <2>3, <2>7 DEF HasChunks
  <2>9. DOMAIN map \subseteq DOMAIN f[n + 1]
    BY <1>9, <2>7
  <2> QED
    BY <2>6, <2>8, <2>9
<1>10. I(N)
  <2> HIDE DEF I
  <2>1. 0 \in T
    BY <1>7, <1>8
  <2>2. \A n \in 0..(N - 1) : n \in T => n + 1 \in T
    <3>1. \A n \in 0..(N - 1) : n + 1 \in 0..N
      BY <1>5
    <3> QED
      BY <1>9, <3>1
  <2> HIDE DEF T
  <2>3. 0..N \subseteq T
    BY <1>5, <2>1, <2>2, Induction
  <2>4. N \in 0..N
    BY <1>5
  <2>5. N \in T
    BY <2>3, <2>4
  <2> QED
    BY <2>5 DEF T
<1> QED
  BY <1>1, <1>6, <1>10

\* The header of a library that is in the container, with its chunks.
Archived(library, format, header, map) ==
  LET groups == GroupsOf(library, format)
  IN  /\ header.result = "ok" /\ HeaderSoFar(library, groups, header, Len(groups))
      /\ HasChunks(map, header, Len(groups))

\* The libraries to convert are those of the game, and the container has those that
\* are converted.
Container ==
  /\ game \in Games /\ toWrite \in Seq(DOMAIN game.libraries \ {""})
  /\ AllBytes(chunks)
  /\ DOMAIN archives \subseteq DOMAIN game.libraries \ {""}
  /\ \A name \in DOMAIN archives : Archived(game.libraries[name], game.format, archives[name], chunks)

\* At first it is empty.
LEMMA InitContainer == Init => Container
<1> SUFFICES ASSUME Init PROVE Container
  OBVIOUS
<1>1. game \in Games /\ toWrite = game.order /\ chunks = NoMap /\ archives = NoMap
  BY DEF Init
<1>2. toWrite \in Seq(DOMAIN game.libraries \ {""})
  BY <1>1, GamesAssumption, Zenon
<1>3. DOMAIN NoMap = {}
  BY DEF NoMap
<1> QED
  BY <1>1, <1>2, <1>3, Zenon DEF Container, AllBytes

\* A library more.
LEMMA ConvertContains == ASSUME Container, ConvertLibrary PROVE Container'
<1>1. game' = game
  BY DEF ConvertLibrary
<1>2. PICK name : name = Head(toWrite)
  OBVIOUS
<1>3. PICK archive : archive = WrittenLibrary(name)
  OBVIOUS
<1>4. \/ archive.result # "ok" /\ UNCHANGED <<toWrite, container>>
      \/ /\ archive.result = "ok" /\ toWrite # <<>>
         /\ chunks' = WithChunks(chunks, archive)
         /\ archives' = WithKey(archives, name, archive.header)
         /\ toWrite' = Tail(toWrite)
  BY <1>2, <1>3 DEF ConvertLibrary
<1>5. CASE UNCHANGED <<toWrite, container>>
  BY <1>1, <1>5, Zenon DEF Container, container
<1>6. CASE /\ archive.result = "ok" /\ toWrite # <<>>
           /\ chunks' = WithChunks(chunks, archive)
           /\ archives' = WithKey(archives, name, archive.header)
           /\ toWrite' = Tail(toWrite)
  <2>1. PICK names : names = DOMAIN game.libraries \ {""}
    BY Zenon
  <2>2. toWrite \in Seq(names)
    BY <2>1, Zenon DEF Container
  <2>3. name \in names /\ toWrite' \in Seq(names)
    BY <1>2, <1>6, <2>2
  <2>4. PICK library : library = game.libraries[name]
    OBVIOUS
  <2>5. IsLibrary(library)
    BY <2>1, <2>3, <2>4, GamesAssumption, Zenon DEF Container
  <2>6. PICK groups : groups = GroupsOf(library, game.format)
    OBVIOUS
  <2>7. archive = WriteLibrary(library, game.format, game.checked)
    BY <1>3, <2>4 DEF WrittenLibrary
  <2>8. ArchiveSoFar(library, groups, archive, Len(groups))
    BY <2>5, <2>6, <2>7, WrittenHasChunks
  <2>9. PICK header : header = archive.header
    OBVIOUS
  <2>10. /\ header.result = "ok" /\ HeaderSoFar(library, groups, header, Len(groups))
         /\ archive.chunks \in Seq(Seq(AnyByte)) /\ Len(archive.chunks) = Len(groups)
    BY <1>6, <2>8, <2>9 DEF ArchiveSoFar
  <2>11. /\ AllBytes(chunks') /\ DOMAIN chunks \subseteq DOMAIN chunks'
         /\ HasChunks(chunks', header, Len(groups))
    BY <1>6, <2>9, <2>10, ContainerHasChunks, Zenon DEF Container
  <2>12. Archived(library, game.format, header, chunks')
    BY <2>6, <2>10, <2>11 DEF Archived
  <2>13. archives' = [z \in DOMAIN archives \cup {name} |-> IF z = name THEN header ELSE archives[z]]
    BY <1>6, <2>9 DEF WithKey
  <2>14. DOMAIN archives' \subseteq names
    BY <2>1, <2>3, <2>13, Zenon DEF Container
  <2>15. ASSUME NEW n \in DOMAIN archives'
         PROVE  Archived(game.libraries[n], game.format, archives'[n], chunks')
    <3>1. CASE n = name
      BY <2>4, <2>12, <2>13, <3>1
    <3>2. CASE n # name
      <4>1. n \in DOMAIN archives /\ archives'[n] = archives[n]
        BY <2>13, <3>2
      <4>2. Archived(game.libraries[n], game.format, archives[n], chunks)
        BY <4>1, Zenon DEF Container
      <4>3. Archived(game.libraries[n], game.format, archives[n], chunks')
        BY <2>11, <4>2 DEF Archived, HasChunks
      <4> QED
        BY <4>1, <4>3
    <3> QED
      BY <3>1, <3>2
  <2> QED
    BY <1>1, <2>1, <2>3, <2>11, <2>14, <2>15, Zenon DEF Container
<1> QED
  BY <1>4, <1>5, <1>6

\* The other steps leave the container alone.
LEMMA StepContainer == Container /\ [Next]_vars => Container'
<1> SUFFICES ASSUME Container, [Next]_vars PROVE Container'
  OBVIOUS
<1>1. CASE ConvertLibrary
  BY <1>1, ConvertContains
<1>2. CASE UNCHANGED <<game, toWrite, container>>
  BY <1>2, Zenon DEF Container, container
<1>3. ConvertLibrary \/ UNCHANGED <<game, toWrite, container>>
  BY DEF Next, Rebuild, StartLibrary, Send, CloseChannel, Take, Work, Receive, EndLibrary,
         AllRebuilt, Ended, vars
<1> QED
  BY <1>1, <1>2, <1>3

\* The container has a header and the chunks of every library that is converted.
THEOREM ContainerSafety == Spec => []Container
  BY InitContainer, StepContainer, PTL DEF Spec

\* A set of numbers with a bound has its maximum.
LEMMA MaxOf ==
  ASSUME NEW T, T \subseteq Nat, NEW b \in Nat, \A m \in T : m <= b, NEW n \in T
  PROVE  Max(T) \in T /\ n <= Max(T)
<1>1. PICK U : U = {b - m : m \in T}
  OBVIOUS
<1>2. U \subseteq Nat /\ U # {}
  BY <1>1
<1>3. PICK u \in U : \A v \in U : u <= v
  BY <1>2, LeastNumber
<1>4. PICK t \in T : u = b - t
  BY <1>1
<1>5. \A m \in T : t >= m
  <2>1. TAKE m \in T
  <2>2. b - t <= b - m
    BY <1>1, <1>3, <1>4
  <2> QED
    BY <2>2
<1>6. PICK x : x = CHOOSE y \in T : \A m \in T : y >= m
  OBVIOUS
<1>7. x \in T /\ \A m \in T : x >= m
  BY <1>5, <1>6
<1>8. Max(T) = x
  BY <1>6 DEF Max
<1> QED
  BY <1>7, <1>8

\* No shader is larger than its group.
LEMMA ShaderInGroup ==
  ASSUME NEW library, IsLibrary(library), NEW group \in Seq(DOMAIN library.shaders),
         NEW s \in ToSet(group)
  PROVE  library.shaders[s].full <= SizeOf(library, group) /\ SizeOf(library, group) \in Nat
<1>1. PICK N : N = Len(group)
  OBVIOUS
<1>2. N \in Nat /\ s \in {group[k] : k \in 1..N} /\ s \in DOMAIN library.shaders
  BY <1>1, SeqTypes
<1>3. PICK k \in 1..N : group[k] = s
  BY <1>2
<1>4. PICK j : j = k - 1
  OBVIOUS
<1>5. j \in 0..Len(group) /\ j < Len(group) /\ j + 1 = k /\ k \in 0..Len(group)
  BY <1>1, <1>2, <1>3, <1>4
<1>6. PICK x : x = library.shaders[s].full
  OBVIOUS
<1>7. PICK a : a = SizeOf(library, SubSeq(group, 1, j))
  OBVIOUS
<1>8. PICK c : c = SizeOf(library, SubSeq(group, 1, k))
  OBVIOUS
<1>9. PICK z : z = SizeOf(library, group)
  OBVIOUS
<1>10. a \in Nat /\ z \in Nat /\ c = a + x
  <2>1. /\ SizeOf(library, group) \in Nat /\ SizeOf(library, SubSeq(group, 1, j)) \in Nat
        /\ SizeOf(library, SubSeq(group, 1, j + 1))
             = SizeOf(library, SubSeq(group, 1, j)) + library.shaders[group[j + 1]].full
    BY <1>5, SizeOfPrefix
  <2> QED
    BY <1>3, <1>5, <1>6, <1>7, <1>8, <1>9, <2>1
<1>11. c <= z
  BY <1>5, <1>8, <1>9, SizeOfPrefix
<1>12. x \in Nat
  BY <1>2, <1>6, ShaderTypes
<1>13. x <= z
  BY <1>10, <1>11, <1>12
<1> QED
  BY <1>6, <1>9, <1>10, <1>13

\* Every group of an archive has shaders of one set of maps, the groups have every
\* shader of the library once, and a group is larger than the maximum by less than
\* its largest shader: so build_io_store_shader_code_archive_header groups any
\* library, whatever its maps, sizes and frequencies.
THEOREM GroupsAlwaysBounded == Spec => []GroupsBounded
<1>1. Container => GroupsBounded
  <2> SUFFICES ASSUME Container, NEW name \in BetweenLibraries(archives)
               PROVE  WellGrouped(game.libraries[name], archives[name])
    BY DEF GroupsBounded
  <2>1. PICK library : library = game.libraries[name]
    OBVIOUS
  <2>2. PICK header : header = archives[name]
    OBVIOUS
  <2>3. name \in DOMAIN archives
    BY DEF BetweenLibraries
  <2>4. IsLibrary(library)
    BY <2>1, <2>3, GamesAssumption, Zenon DEF Container
  <2>5. PICK gs : gs = GroupsOf(library, game.format)
    OBVIOUS
  <2>6. PICK N : N = Len(gs)
    OBVIOUS
  <2>7. header.result = "ok" /\ HeaderSoFar(library, gs, header, N)
    BY <2>1, <2>2, <2>3, <2>5, <2>6, Zenon DEF Container, Archived
  <2>8. Grouped(library, gs)
    BY <2>4, <2>5, GroupsOfLibrary
  <2>9. PICK D : D = DOMAIN library.shaders
    OBVIOUS
  <2>10. PICK R : R = Seq(D)
    OBVIOUS
  <2>11. gs \in Seq(R) /\ N \in Nat /\ \A g \in 1..N : gs[g] \in R
    BY <2>6, <2>8, <2>9, <2>10 DEF Grouped, Splits
  <2>12. PICK groups : groups = [g \in DOMAIN header.groups |-> RangeOf(header.indices, header.groups[g])]
    OBVIOUS
  <2>13. groups = gs
    <3>1. PICK hs : hs = header.groups
      OBVIOUS
    <3>2. hs \in Seq(AnyEntry) /\ Len(hs) = N
      BY <2>7, <3>1 DEF HeaderSoFar
    <3>3. DOMAIN header.groups = 1..N
      BY <2>11, <3>1, <3>2
    <3>4. \A g \in 1..N : RangeOf(header.indices, header.groups[g]) = gs[g]
      BY <2>6, <2>7, <2>9, <2>10, <2>11, GroupThere
    <3>5. gs = [g \in 1..N |-> gs[g]]
      BY <2>6, <2>11
    <3> QED
      BY <2>12, <3>3, <3>4, <3>5
  <2>14. Once(gs, D)
    BY <2>8, <2>9, SplitsOnce DEF Grouped
  <2>15. ASSUME NEW g \in 1..N
         PROVE  /\ \A s, t \in ToSet(gs[g]) : MapsOf(library, s) = MapsOf(library, t)
                /\ header.groups[g].full < MaxGroupSize + Max({library.shaders[s].full : s \in ToSet(gs[g])})
    <3>1. \A s, t \in ToSet(gs[g]) : MapsOf(library, s) = MapsOf(library, t)
      BY <2>6, <2>8 DEF Grouped
    <3>2. Bounded(library, gs[g])
      BY <2>6, <2>8 DEF Grouped
    <3>3. PICK s \in ToSet(gs[g]) : SizeOf(library, gs[g]) < MaxGroupSize + library.shaders[s].full
      BY <3>2 DEF Bounded
    <3>4. PICK F : F = {library.shaders[t].full : t \in ToSet(gs[g])}
      OBVIOUS
    <3>5. PICK b : b = SizeOf(library, gs[g])
      OBVIOUS
    <3>6. PICK x : x = library.shaders[s].full
      OBVIOUS
    <3>7. gs[g] \in Seq(DOMAIN library.shaders)
      BY <2>9, <2>10, <2>11
    <3>8. \A t \in ToSet(gs[g]) : t \in DOMAIN library.shaders /\ library.shaders[t].full \in Nat
      BY <2>4, <3>7, SeqTypes, ShaderTypes
    <3>9. b \in Nat /\ F \subseteq Nat /\ x \in F /\ \A m \in F : m <= b
      BY <2>4, <3>4, <3>5, <3>6, <3>7, <3>8, ShaderInGroup
    <3>10. Max(F) \in F /\ x <= Max(F)
      BY <3>9, MaxOf
    <3>11. PICK m : m = Max(F)
      OBVIOUS
    <3>12. MaxGroupSize \in Nat /\ b < MaxGroupSize + x /\ x <= m /\ m \in Nat /\ x \in Nat
      BY <3>3, <3>5, <3>6, <3>9, <3>10, <3>11, MaxGroupSizeAssumption
    <3>13. b < MaxGroupSize + m
      BY <3>9, <3>12
    <3>14. header.groups[g].full = b
      BY <2>7, <3>5 DEF HeaderSoFar, EntryOf
    <3> QED
      BY <3>1, <3>4, <3>11, <3>13, <3>14
  <2>16. DOMAIN gs = 1..N
    BY <2>6, <2>11
  <2>17. /\ Once(groups, DOMAIN library.shaders)
         /\ \A g \in DOMAIN groups :
              /\ \A s, t \in ToSet(groups[g]) : MapsOf(library, s) = MapsOf(library, t)
              /\ header.groups[g].full <
                   MaxGroupSize + Max({library.shaders[s].full : s \in ToSet(groups[g])})
    BY <2>9, <2>13, <2>14, <2>15, <2>16
  <2>18. WellGrouped(library, header)
    BY <2>12, <2>17, SMTT(60) DEF WellGrouped
  <2> QED
    BY <2>1, <2>2, <2>18
<1> QED
  BY <1>1, ContainerSafety, PTL

-----------------------------------------------------------------------------
(* An archive that is read back.                                           *)

\* What the group of a chunk, its shaders in the order of their places, and the code
\* of one of them are.
ByOffset(header, shaders) ==
  Sorted(shaders, {x \in ToSet(shaders) \X ToSet(shaders) :
                     header.shaders[x[1]].offset < header.shaders[x[2]].offset})
EndAt(header, full, sorted, k) ==
  IF k = Len(sorted) THEN full ELSE header.shaders[sorted[k + 1]].offset
PlaceIn(sorted, s) == CHOOSE k \in DOMAIN sorted : sorted[k] = s
CodeFrom(header, full, sorted, data, s) ==
  SubSeq(data, header.shaders[s].offset + 1, EndAt(header, full, sorted, PlaceIn(sorted, s)))
PlainChunk(header, map, method, g) ==
  Plain(map[header.groups[g].id], header.groups[g].packed, method, header.groups[g].full)

ReadOf(header, archive, g, shaders, plain) ==
  IF archive.result # "ok" THEN archive
  ELSE IF plain.result # "ok" \/ \E s \in ToSet(shaders) : header.shaders[s].group # g THEN Failed
  ELSE IF header.groups[g].full > Len(plain.data) THEN Panicked
  ELSE [result |-> "ok", method |-> plain.method,
        code |-> [s \in DOMAIN archive.code |->
                    IF s \notin ToSet(shaders) THEN archive.code[s]
                    ELSE CodeFrom(header, header.groups[g].full, ByOffset(header, shaders),
                                  plain.data, s)]]

\* The code of a group is that of its shaders.
LEMMA ReadIs ==
  ASSUME NEW header, NEW map, NEW archive, NEW g,
         NEW shaders, shaders = RangeOf(header.indices, header.groups[g]),
         NEW plain, plain = PlainChunk(header, map, archive.method, g),
         NEW next, next = ReadGroup(header, map, archive, g), next.result = "ok"
  PROVE  /\ archive.result = "ok" /\ plain.result = "ok"
         /\ \A s \in ToSet(shaders) : header.shaders[s].group = g
         /\ ~ (header.groups[g].full > Len(plain.data))
         /\ next = [result |-> "ok", method |-> plain.method,
                    code |-> [s \in DOMAIN archive.code |->
                       IF s \notin ToSet(shaders) THEN archive.code[s]
                       ELSE CodeFrom(header, header.groups[g].full, ByOffset(header, shaders),
                                     plain.data, s)]]
<1>1. ReadGroup(header, map, archive, g) =
        ReadOf(header, archive, g, RangeOf(header.indices, header.groups[g]),
               PlainChunk(header, map, archive.method, g))
  BY Zenon DEF ReadGroup, ReadOf, PlainChunk, ByOffset, EndAt, PlaceIn, CodeFrom
<1>2. next = ReadOf(header, archive, g, shaders, plain)
  BY <1>1
<1>3. Failed.result # "ok" /\ Panicked.result # "ok"
  BY DEF Failed, Panicked
<1> QED
  BY <1>2, <1>3, Zenon DEF ReadOf

\* The k-th shader of a group lies behind those before it.
LiesBehind(library, shaders, group, k) ==
  shaders[group[k]].offset = SizeOf(library, SubSeq(group, 1, k - 1))

\* So it does when its group is that one.
LEMMA OffsetIs ==
  ASSUME NEW library, IsLibrary(library), NEW groups \in Seq(Seq(DOMAIN library.shaders)),
         NEW g \in 1..Len(groups), NEW group, group = groups[g], Distinct(group),
         NEW k \in 1..Len(group),
         NEW shaders, shaders = NoGroups(library, groups).shaders, shaders[group[k]].group = g
  PROVE  LiesBehind(library, shaders, group, k)
<1>1. PICK s : s = group[k]
  OBVIOUS
<1>2. group \in Seq(DOMAIN library.shaders) /\ DOMAIN group = 1..Len(group)
  BY <1>1
<1>3. s \in DOMAIN library.shaders /\ group[k] = s /\ k \in DOMAIN group
  BY <1>1, <1>2
<1>4. shaders = [t \in DOMAIN library.shaders |->
                  [hash |-> library.shaders[t].hash, frequency |-> library.shaders[t].frequency,
                   group |-> GroupWith(groups, t),
                   offset |-> OffsetIn(library, groups[GroupWith(groups, t)], t)]]
  BY DEF NoGroups
<1>5. shaders[s] = [hash |-> library.shaders[s].hash, frequency |-> library.shaders[s].frequency,
                    group |-> GroupWith(groups, s),
                    offset |-> OffsetIn(library, groups[GroupWith(groups, s)], s)]
  BY <1>3, <1>4
<1>6. GroupWith(groups, s) = g
  BY <1>1, <1>5
<1>7. shaders[s].offset = OffsetIn(library, group, s)
  BY <1>5, <1>6
<1>8. PICK i : i = CHOOSE j \in DOMAIN group : group[j] = s
  OBVIOUS
<1>9. i \in DOMAIN group /\ group[i] = s
  BY <1>3, <1>8
<1>10. i = k
  BY <1>1, <1>2, <1>3, <1>9 DEF Distinct
<1> QED
  BY <1>1, <1>7, <1>8, <1>10 DEF OffsetIn, LiesBehind

\* They lie within its size.
LEMMA OffsetFits ==
  ASSUME NEW library, IsLibrary(library), NEW groups \in Seq(Seq(DOMAIN library.shaders)),
         NEW g \in 1..Len(groups), Distinct(groups[g]), NEW s \in ToSet(groups[g]),
         NEW shaders, shaders = NoGroups(library, groups).shaders, shaders[s].group = g
  PROVE  /\ shaders[s].offset \in Nat /\ SizeOf(library, groups[g]) \in Nat
         /\ shaders[s].offset <= SizeOf(library, groups[g])
<1>1. PICK group : group = groups[g]
  OBVIOUS
<1>2. group \in Seq(DOMAIN library.shaders)
  BY <1>1
<1>3. ToSet(group) = {group[k] : k \in 1..Len(group)} /\ Len(group) \in Nat
  BY <1>2, SeqTypes
<1>4. PICK k \in 1..Len(group) : group[k] = s
  BY <1>1, <1>3
<1>5. shaders[s].offset = SizeOf(library, SubSeq(group, 1, k - 1))
  <2>1. shaders[group[k]].group = g /\ Distinct(group)
    BY <1>1, <1>4
  <2>2. LiesBehind(library, shaders, group, k)
    BY <1>1, <2>1, OffsetIs
  <2> QED
    BY <1>4, <2>2 DEF LiesBehind
<1>6. k - 1 \in 0..Len(group)
  BY <1>3, <1>4
<1> QED
  BY <1>1, <1>2, <1>5, <1>6, SizeOfPrefix, SMTT(60)

\* Code that is read, unless reading failed.
ReadSoFar(library, archive) ==
  archive.result = "ok" =>
    /\ archive = [result |-> "ok", method |-> archive.method, code |-> archive.code]
    /\ archive.method \in Methods
    /\ archive.code \in [DOMAIN library.shaders -> Seq(AnyByte)]

\* A group more.
LEMMA ReadKeeps ==
  ASSUME NEW library, IsLibrary(library), NEW groups, Grouped(library, groups),
         NEW header, header.result = "ok", HeaderSoFar(library, groups, header, Len(groups)),
         NEW map, AllBytes(map), HasChunks(map, header, Len(groups)),
         NEW archive, ReadSoFar(library, archive), NEW g \in 1..Len(groups),
         NEW next, next = ReadGroup(header, map, archive, g)
  PROVE  ReadSoFar(library, next)
<1>1. SUFFICES ASSUME next.result = "ok" PROVE ReadSoFar(library, next)
  BY DEF ReadSoFar
<1>2. PICK D : D = DOMAIN library.shaders
  OBVIOUS
<1>3. groups \in Seq(Seq(D)) /\ groups[g] \in Seq(D) /\ Distinct(groups[g])
  <2>1. PICK R : R = Seq(D)
    OBVIOUS
  <2>2. groups \in Seq(R) /\ Distinct(groups[g])
    BY <1>2, <2>1 DEF Grouped, Splits
  <2> QED
    BY <2>1, <2>2
<1>4. PICK list : list = RangeOf(header.indices, header.groups[g])
  OBVIOUS
<1>5. list = groups[g]
  BY <1>2, <1>3, <1>4, GroupThere
<1>6. PICK plain : plain = PlainChunk(header, map, archive.method, g)
  OBVIOUS
<1>7. PICK full : full = header.groups[g].full
  OBVIOUS
<1>8. PICK sorted : sorted = ByOffset(header, list)
  OBVIOUS
<1>9. /\ archive.result = "ok" /\ plain.result = "ok"
      /\ \A s \in ToSet(list) : header.shaders[s].group = g
      /\ ~ (full > Len(plain.data))
      /\ next = [result |-> "ok", method |-> plain.method,
                 code |-> [s \in DOMAIN archive.code |->
                   IF s \notin ToSet(list) THEN archive.code[s]
                   ELSE CodeFrom(header, full, sorted, plain.data, s)]]
  BY <1>1, <1>4, <1>6, <1>7, <1>8, ReadIs
<1>10. archive.method \in Methods /\ archive.code \in [D -> Seq(AnyByte)]
  BY <1>2, <1>9, SMTT(60) DEF ReadSoFar
<1>11. plain.method \in Methods /\ plain.data \in Seq(AnyByte)
  <2>1. map[header.groups[g].id] \in Seq(AnyByte)
    BY DEF HasChunks, AllBytes
  <2> QED
    BY <1>6, <1>9, <1>10, <2>1, PlainTyped DEF PlainChunk
<1>12. full = SizeOf(library, groups[g]) /\ header.shaders = NoGroups(library, groups).shaders
  <2>1. EntryOf(library, header.indices, groups[g], header.groups[g])
    BY DEF HeaderSoFar
  <2>2. PICK sh : sh = NoGroups(library, groups).shaders
    OBVIOUS
  <2>3. header = [result |-> "ok", maps |-> library.maps, indices |-> header.indices,
                  groups |-> header.groups, shaders |-> sh]
    BY <2>2 DEF HeaderSoFar
  <2>4. header.shaders = sh
    BY <2>3
  <2> QED
    BY <1>7, <2>1, <2>2, <2>4 DEF EntryOf
<1>13. \A s \in ToSet(list) : /\ header.shaders[s].offset \in Nat /\ full \in Nat
                              /\ header.shaders[s].offset <= full
  <2>1. \A s \in ToSet(groups[g]) : header.shaders[s].group = g
    BY <1>5, <1>9
  <2> QED
    BY <1>2, <1>3, <1>5, <1>12, <2>1, OffsetFits
<1>14. sorted \in Seq(D) /\ ToSet(sorted) = ToSet(list)
  BY <1>3, <1>5, <1>8, SortedSame DEF ByOffset, SameElements
<1>15. ASSUME NEW s \in ToSet(list)
       PROVE  CodeFrom(header, full, sorted, plain.data, s) \in Seq(AnyByte)
  <2>1. PICK k : k = PlaceIn(sorted, s)
    OBVIOUS
  <2>2. Len(sorted) \in Nat /\ DOMAIN sorted = 1..Len(sorted) /\ ToSet(sorted) = {sorted[i] : i \in 1..Len(sorted)}
    BY <1>14, SeqTypes
  <2>3. \E i \in DOMAIN sorted : sorted[i] = s
    BY <1>14, <2>2
  <2>4. k \in 1..Len(sorted)
    BY <2>1, <2>2, <2>3 DEF PlaceIn
  <2>5. PICK e : e = EndAt(header, full, sorted, k)
    OBVIOUS
  <2>6. e \in Nat /\ e <= full
    <3>1. CASE k = Len(sorted)
      BY <1>13, <2>5, <3>1 DEF EndAt
    <3>2. CASE k # Len(sorted)
      <4>1. k + 1 \in 1..Len(sorted)
        <5>1. PICK M : M = Len(sorted)
          OBVIOUS
        <5>2. M \in Nat /\ k \in 1..M /\ k # M
          BY <2>2, <2>4, <3>2, <5>1
        <5> QED
          BY <5>1, <5>2
      <4>2. sorted[k + 1] \in ToSet(list)
        BY <1>14, <2>2, <4>1
      <4> QED
        BY <1>13, <2>5, <3>2, <4>2 DEF EndAt
    <3> QED
      BY <3>1, <3>2
  <2>7. full <= Len(plain.data)
    <3>1. full \in Nat /\ Len(plain.data) \in Nat
      BY <1>11, <1>13
    <3> QED
      BY <1>9, <3>1
  <2>8. e <= Len(plain.data)
    BY <1>11, <1>13, <2>6, <2>7
  <2>9. SubSeq(plain.data, header.shaders[s].offset + 1, e) \in Seq(AnyByte)
    BY <1>11, <1>13, <2>6, <2>8, PartTyped
  <2> QED
    BY <2>1, <2>5, <2>9 DEF CodeFrom
<1>16. PICK code : code = [s \in D |-> IF s \notin ToSet(list) THEN archive.code[s]
                                       ELSE CodeFrom(header, full, sorted, plain.data, s)]
  OBVIOUS
<1>17. DOMAIN archive.code = D
  BY <1>10
<1>18. next = [result |-> "ok", method |-> plain.method, code |-> code]
  BY <1>9, <1>16, <1>17
<1>19. code \in [D -> Seq(AnyByte)]
  <2>1. PICK B : B = Seq(AnyByte)
    OBVIOUS
  <2>2. \A s \in D : archive.code[s] \in B
    BY <1>10, <2>1
  <2>3. \A s \in ToSet(list) : CodeFrom(header, full, sorted, plain.data, s) \in B
    BY <1>15, <2>1
  <2>4. code \in [D -> B]
    BY <1>16, <2>2, <2>3
  <2> QED
    BY <2>1, <2>4
<1>20. next.method = plain.method /\ next.code = code
  BY <1>18
<1> QED
  BY <1>2, <1>11, <1>18, <1>19, <1>20 DEF ReadSoFar

\* The archive without code, a step, and the archives.
NoCode(header) ==
  [result |-> "ok", method |-> NoMethod, code |-> [s \in DOMAIN header.shaders |-> <<>>]]
AddCode(header, map, archive, g) ==
  Let(<<archive, g>>, LAMBDA pair : ReadGroup(header, map, pair[1], pair[2]))
CodeRead(header, map, list) ==
  Fold(LAMBDA archive, g : ReadGroup(header, map, archive, g), NoCode(header), list)
ReadArchives(f, header, map, list, n) ==
  f = [k \in 0..n |-> IF k = 0 THEN NoCode(header) ELSE AddCode(header, map, f[k - 1], list[k])]

\* There are such archives, and the last is the result.
LEMMA ReadSteps ==
  ASSUME NEW header, NEW map, NEW list, Len(list) \in Nat
  PROVE  \E f : ReadArchives(f, header, map, list, Len(list)) /\ CodeRead(header, map, list) = f[Len(list)]
<1> DEFINE T == {n \in 0..Len(list) : \E g : ReadArchives(g, header, map, list, n)}
<1>1. 0 \in T
  <2>1. ReadArchives([k \in 0..0 |-> NoCode(header)], header, map, list, 0)
    BY DEF ReadArchives
  <2> QED
    BY <2>1
<1>2. ASSUME NEW n \in 0..(Len(list) - 1), n \in T
      PROVE  n + 1 \in T
  <2>1. PICK g : ReadArchives(g, header, map, list, n)
    BY <1>2
  <2>2. PICK h : h = [k \in 0..(n + 1) |->
                        IF k = n + 1 THEN AddCode(header, map, g[n], list[n + 1]) ELSE g[k]]
    OBVIOUS
  <2>3. ReadArchives(h, header, map, list, n + 1)
    <3>1. \A k \in 0..(n + 1) : k = n + 1 \/ k \in 0..n
      OBVIOUS
    <3>2. \A k \in 0..n : k # n + 1 /\ k \in 0..(n + 1) /\ (k # 0 => k - 1 \in 0..n)
      OBVIOUS
    <3>3. \A k \in 0..n : h[k] = g[k]
      BY <2>2, <3>2
    <3>4. ASSUME NEW k \in 0..n
          PROVE  h[k] = IF k = 0 THEN NoCode(header) ELSE AddCode(header, map, h[k - 1], list[k])
      BY <2>1, <3>2, <3>3 DEF ReadArchives
    <3>5. h[n + 1] = AddCode(header, map, h[n], list[n + 1]) /\ n + 1 # 0 /\ (n + 1) - 1 = n
      BY <2>2, <3>2, <3>3
    <3>6. \A k \in 0..(n + 1) :
            h[k] = IF k = 0 THEN NoCode(header) ELSE AddCode(header, map, h[k - 1], list[k])
      BY <3>1, <3>4, <3>5
    <3> QED
      BY <2>2, <3>6 DEF ReadArchives
  <2>4. n + 1 \in 0..Len(list)
    OBVIOUS
  <2> QED
    BY <2>3, <2>4
<1>3. Len(list) \in T
  <2> HIDE DEF T
  <2>1. 0..Len(list) \subseteq T
    BY <1>1, <1>2, Induction
  <2> QED
    BY <2>1
<1>4. \E f : ReadArchives(f, header, map, list, Len(list))
  BY <1>3
<1>5. CodeRead(header, map, list) = (CHOOSE f : ReadArchives(f, header, map, list, Len(list)))[Len(list)]
  BY DEF ReadArchives, CodeRead, Fold, AddCode
<1> QED
  BY <1>4, <1>5

\* A step is ReadGroup.
LEMMA CodeAdded ==
  ASSUME NEW header, NEW map, NEW archive, NEW g
  PROVE  AddCode(header, map, archive, g) = ReadGroup(header, map, archive, g)
  BY DEF AddCode, Let, Only

\* Step by step, every group is read.
ReadsTo(f, header, map, N) ==
  /\ f[0] = NoCode(header)
  /\ \A n \in 0..(N - 1) : f[n + 1] = ReadGroup(header, map, f[n], n + 1)

ReadsAll(header, map, N) ==
  \E f : ReadsTo(f, header, map, N) /\ CodeRead(header, map, Numbered(header.groups)) = f[N]

\* So it is.
LEMMA ReadsGroups ==
  ASSUME NEW header, NEW N \in Nat, DOMAIN header.groups = 1..N, NEW map
  PROVE  ReadsAll(header, map, N)
<1>a. PICK list : list = Numbered(header.groups)
  OBVIOUS
<1>1. list = [k \in 1..N |-> k]
  BY <1>a DEF Numbered
<1>2. Len(list) = N /\ \A k \in 1..N : list[k] = k
  BY <1>1
<1>3. PICK f : ReadArchives(f, header, map, list, N) /\ CodeRead(header, map, list) = f[N]
  BY <1>2, ReadSteps
<1>4. f[0] = NoCode(header)
  <2>1. 0 \in 0..N
    OBVIOUS
  <2> QED
    BY <1>3, <2>1 DEF ReadArchives
<1>5. \A n \in 0..(N - 1) : f[n + 1] = ReadGroup(header, map, f[n], n + 1)
  <2>1. \A n \in 0..(N - 1) : /\ n + 1 \in 0..N /\ n + 1 \in 1..N /\ n + 1 # 0 /\ (n + 1) - 1 = n
    OBVIOUS
  <2>2. \A n \in 0..(N - 1) : f[n + 1] = AddCode(header, map, f[n], list[n + 1])
    BY <1>3, <2>1 DEF ReadArchives
  <2>3. \A n \in 0..(N - 1) : list[n + 1] = n + 1
    BY <1>2, <2>1
  <2> QED
    BY <2>2, <2>3, CodeAdded
<1> QED
  BY <1>a, <1>3, <1>4, <1>5 DEF ReadsTo, ReadsAll

\* An archive that is read has the code of every shader of its library.
LEMMA ArchiveIsRead ==
  ASSUME NEW library, IsLibrary(library), NEW groups, Grouped(library, groups),
         NEW header, header.result = "ok", HeaderSoFar(library, groups, header, Len(groups)),
         NEW map, AllBytes(map), HasChunks(map, header, Len(groups))
  PROVE  ReadSoFar(library, CodeRead(header, map, Numbered(header.groups)))
<1>1. PICK N : N = Len(groups)
  OBVIOUS
<1>2. PICK D : D = DOMAIN library.shaders
  OBVIOUS
<1>3. N \in Nat /\ DOMAIN header.groups = 1..N
  <2>1. N \in Nat
    BY <1>1 DEF Grouped, Splits
  <2>2. PICK hs : hs = header.groups
    OBVIOUS
  <2>3. hs \in Seq(AnyEntry) /\ Len(hs) = N
    BY <1>1, <2>2 DEF HeaderSoFar
  <2> QED
    BY <2>1, <2>2, <2>3
<1>4. PICK f : ReadsTo(f, header, map, N) /\ CodeRead(header, map, Numbered(header.groups)) = f[N]
  <2>1. ReadsAll(header, map, N)
    BY <1>3, ReadsGroups
  <2> QED
    BY <2>1 DEF ReadsAll
<1> DEFINE T == {n \in 0..N : ReadSoFar(library, f[n])}
<1>5. 0 \in T
  <2>1. DOMAIN header.shaders = D
    <3>1. PICK sh : sh = NoGroups(library, groups).shaders
      OBVIOUS
    <3>2. header = [result |-> "ok", maps |-> library.maps, indices |-> header.indices,
                    groups |-> header.groups, shaders |-> sh]
      BY <3>1 DEF HeaderSoFar
    <3>3. header.shaders = sh
      BY <3>2
    <3>4. DOMAIN sh = D
      BY <1>2, <3>1 DEF NoGroups
    <3> QED
      BY <3>3, <3>4
  <2>2. PICK code : code = [s \in D |-> <<>>]
    OBVIOUS
  <2>3. f[0] = [result |-> "ok", method |-> NoMethod, code |-> code]
    BY <1>4, <2>1, <2>2 DEF ReadsTo, NoCode
  <2>4. f[0].method = NoMethod /\ f[0].code = code
    BY <2>3
  <2>5. NoMethod \in Methods
    BY DEF Methods
  <2>6. code \in [D -> Seq(AnyByte)]
    <3>1. PICK B : B = Seq(AnyByte)
      OBVIOUS
    <3>2. <<>> \in B
      BY <3>1
    <3>3. code \in [D -> B]
      BY <2>2, <3>2
    <3> QED
      BY <3>1, <3>3
  <2>7. ReadSoFar(library, f[0])
    BY <1>2, <2>3, <2>4, <2>5, <2>6 DEF ReadSoFar
  <2> QED
    BY <1>3, <2>7
<1>6. \A n \in 0..(N - 1) : n \in T => n + 1 \in T
  <2>1. TAKE n \in 0..(N - 1)
  <2>2. SUFFICES ASSUME ReadSoFar(library, f[n]) PROVE n + 1 \in T
    OBVIOUS
  <2>3. f[n + 1] = ReadGroup(header, map, f[n], n + 1)
    BY <1>4 DEF ReadsTo
  <2>4. n + 1 \in 1..Len(groups) /\ n + 1 \in 0..N
    BY <1>1, <1>3
  <2>5. ReadSoFar(library, f[n + 1])
    BY <2>2, <2>3, <2>4, ReadKeeps
  <2> QED
    BY <2>4, <2>5
<1>7. N \in T
  <2> HIDE DEF T
  <2>1. 0..N \subseteq T
    BY <1>3, <1>5, <1>6, Induction
  <2>2. N \in 0..N
    BY <1>3
  <2> QED
    BY <2>1, <2>2
<1> QED
  BY <1>4, <1>7

\* The archive that is rebuilt is one of the container, and was read.
CurrentRead ==
  current # NoArchive =>
    /\ toWrite = <<>> /\ current.name \in DOMAIN archives
    /\ current.header = archives[current.name]
    /\ current.method \in Methods
    /\ current.code \in [DOMAIN game.libraries[current.name].shaders -> Seq(AnyByte)]

\* What it starts with: an archive of the container, and the code that was read.
ReadFrom(header, map) == CodeRead(header, map, Numbered(header.groups))
Started(name, read) ==
  /\ read.result = "ok" /\ UNCHANGED <<game, toWrite, archives, chunks>> /\ toWrite = <<>>
  /\ current'.name = name /\ current'.header = archives[name]
  /\ current'.code = read.code /\ current'.method = read.method

\* It is that, or nothing starts.
LEMMA StartIs ==
  ASSUME NEW name \in DOMAIN archives, StartLibrary(name),
         NEW read, read = ReadFrom(archives[name], chunks)
  PROVE  Started(name, read) \/ UNCHANGED current
<1>1. UNCHANGED <<game, toWrite, archives, chunks>> /\ toWrite = <<>>
  BY DEF StartLibrary, container
<1>2. PICK header : header = archives[name]
  OBVIOUS
<1>3. PICK archive : archive = ReadArchive(header, chunks)
  OBVIOUS
<1>4. \/ UNCHANGED current
      \/ /\ archive.result = "ok"
         /\ current' = [name |-> name, header |-> archive.header, code |-> archive.code,
                        method |-> archive.method, messages |-> Messages(archive)]
  BY <1>2, <1>3 DEF StartLibrary
<1>5. CASE /\ archive.result = "ok"
           /\ current' = [name |-> name, header |-> archive.header, code |-> archive.code,
                          method |-> archive.method, messages |-> Messages(archive)]
  <2>1. archive = IF read.result # "ok" THEN read
                  ELSE IF <<>> \in ToSet(read.code) THEN Failed
                  ELSE [result |-> "ok", header |-> header, method |-> read.method, code |-> read.code]
    <3>1. ReadArchive(header, chunks) =
            LET r == CodeRead(header, chunks, Numbered(header.groups))
            IN  IF r.result # "ok" THEN r ELSE IF <<>> \in ToSet(r.code) THEN Failed
                ELSE [result |-> "ok", header |-> header, method |-> r.method, code |-> r.code]
      BY DEF ReadArchive, CodeRead, NoCode, Numbered
    <3> QED
      BY <1>2, <1>3, <3>1 DEF ReadFrom
  <2>2. /\ read.result = "ok"
        /\ archive = [result |-> "ok", header |-> header, method |-> read.method, code |-> read.code]
    BY <1>5, <2>1 DEF Failed
  <2>3. archive.header = header /\ archive.method = read.method /\ archive.code = read.code
    BY <2>2
  <2>4. /\ current'.name = name /\ current'.header = archive.header
        /\ current'.code = archive.code /\ current'.method = archive.method
    BY <1>5
  <2> QED
    BY <1>1, <1>2, <2>2, <2>3, <2>4 DEF Started
<1> QED
  BY <1>4, <1>5

\* So the code is that of the shaders of the library.
LEMMA StartReads ==
  ASSUME Container, NEW name \in DOMAIN archives, StartLibrary(name)
  PROVE  CurrentRead' \/ UNCHANGED current
<1>1. PICK read : read = ReadFrom(archives[name], chunks)
  OBVIOUS
<1>2. CASE Started(name, read)
  <2>1. PICK header : header = archives[name]
    OBVIOUS
  <2>2. PICK library : library = game.libraries[name]
    OBVIOUS
  <2>3. IsLibrary(library)
    BY <2>2, GamesAssumption, Zenon DEF Container
  <2>4. PICK groups : groups = GroupsOf(library, game.format)
    OBVIOUS
  <2>5. /\ header.result = "ok" /\ HeaderSoFar(library, groups, header, Len(groups))
        /\ AllBytes(chunks) /\ HasChunks(chunks, header, Len(groups))
    BY <2>1, <2>2, <2>4, Zenon DEF Container, Archived
  <2>6. Grouped(library, groups)
    BY <2>3, <2>4, GroupsOfLibrary
  <2>7. ReadSoFar(library, read)
    BY <1>1, <2>1, <2>3, <2>5, <2>6, ArchiveIsRead DEF ReadFrom
  <2>8. read.method \in Methods /\ read.code \in [DOMAIN library.shaders -> Seq(AnyByte)]
    BY <1>2, <2>7 DEF ReadSoFar, Started
  <2> QED
    BY <1>2, <2>2, <2>8 DEF CurrentRead, Started
<1>3. CASE UNCHANGED current
  BY <1>3
<1> QED
  BY <1>1, <1>2, <1>3, StartIs

\* Every step keeps it so.
LEMMA StepReads == Container /\ CurrentRead /\ [Next]_vars => CurrentRead'
<1> SUFFICES ASSUME Container, CurrentRead, [Next]_vars PROVE CurrentRead'
  OBVIOUS
<1>1. CASE UNCHANGED <<game, toWrite, container, current>>
  BY <1>1 DEF CurrentRead, container
<1>2. CASE ConvertLibrary
  <2>1. toWrite # <<>> /\ UNCHANGED current
    BY <1>2 DEF ConvertLibrary
  <2> QED
    BY <2>1 DEF CurrentRead
<1>3. ASSUME NEW name \in DOMAIN archives, StartLibrary(name)
      PROVE  CurrentRead'
  <2>1. CurrentRead' \/ UNCHANGED current
    BY <1>3, StartReads
  <2>2. UNCHANGED <<game, toWrite, container>>
    BY <1>3 DEF StartLibrary
  <2> QED
    BY <1>1, <2>1, <2>2
<1>4. CASE EndLibrary
  <2>1. UNCHANGED <<game, toWrite, container>> /\ (UNCHANGED current \/ current' = NoArchive)
    BY <1>4 DEF EndLibrary
  <2>2. CASE current' = NoArchive
    BY <2>2 DEF CurrentRead
  <2> QED
    BY <1>1, <2>1, <2>2
<1>5. \/ UNCHANGED <<game, toWrite, container, current>> \/ ConvertLibrary \/ EndLibrary
      \/ \E name \in DOMAIN archives : StartLibrary(name)
  BY DEF Next, Rebuild, Send, CloseChannel, Take, Work, Receive, AllRebuilt, Ended, vars
<1> QED
  BY <1>1, <1>2, <1>3, <1>4, <1>5

\* The library that is rebuilt has the maps and the shaders that were archived.
LEMMA CurrentHeader ==
  ASSUME Container, CurrentRead, current # NoArchive,
         NEW library, library = game.libraries[current.name]
  PROVE  /\ IsLibrary(library)
         /\ LET groups == GroupsOf(library, game.format)
            IN  HeaderSoFar(library, groups, current.header, Len(groups))
         /\ current.header.result = "ok" /\ current.header.maps = library.maps
         /\ DOMAIN current.header.shaders = DOMAIN library.shaders
         /\ Extends(DOMAIN library.shaders, library.indices, current.header.indices)
<1>1. PICK name : name = current.name
  OBVIOUS
<1>2. name \in DOMAIN archives /\ current.header = archives[name]
  BY <1>1 DEF CurrentRead
<1>3. IsLibrary(library)
  BY <1>1, <1>2, GamesAssumption, Zenon DEF Container
<1>4. PICK groups : groups = GroupsOf(library, game.format)
  OBVIOUS
<1>5. PICK header : header = current.header
  OBVIOUS
<1>6. header.result = "ok" /\ HeaderSoFar(library, groups, header, Len(groups))
  BY <1>1, <1>2, <1>4, <1>5, Zenon DEF Container, Archived
<1>7. PICK sh : sh = NoGroups(library, groups).shaders
  OBVIOUS
<1>8. header = [result |-> "ok", maps |-> library.maps, indices |-> header.indices,
                groups |-> header.groups, shaders |-> sh]
      /\ Extends(DOMAIN library.shaders, library.indices, header.indices)
  BY <1>6, <1>7 DEF HeaderSoFar
<1>9. header.maps = library.maps /\ header.shaders = sh
  BY <1>8
<1>10. DOMAIN sh = DOMAIN library.shaders
  BY <1>7 DEF NoGroups
<1> QED
  BY <1>3, <1>4, <1>5, <1>6, <1>8, <1>9, <1>10

\* What the workers make of a shader's code is bytes.
LEMMA ResultTyped ==
  ASSUME Container, CurrentRead, current # NoArchive, NEW s \in DOMAIN current.code
  PROVE  Result(s) \in Seq(AnyByte) /\ Result(s) \in Seq(CodeBytes)
<1>1. current.code[s] \in Seq(AnyByte) /\ current.method \in Methods
  BY DEF CurrentRead
<1>2. Result(s) \in Seq(AnyByte)
  BY <1>1, PackTyped DEF Result
<1>3. PICK r : r = Result(s)
  OBVIOUS
<1>4. ToSet(r) \subseteq CodeBytes
  BY <1>3 DEF CodeBytes
<1>5. r \in Seq(AnyByte)
  BY <1>2, <1>3
<1>6. /\ Len(r) \in Nat /\ r = [k \in 1..Len(r) |-> r[k]] /\ ToSet(r) = {r[k] : k \in 1..Len(r)}
  <2>1. r = [k \in 1..Len(r) |-> r[k]] /\ Len(r) \in Nat
    BY <1>5
  <2> QED
    BY <1>5, <2>1, SeqTypes
<1>7. \A k \in 1..Len(r) : r[k] \in CodeBytes
  BY <1>4, <1>6
<1>8. r \in Seq(CodeBytes)
  <2>1. PICK C : C = CodeBytes
    OBVIOUS
  <2>2. r \in [1..Len(r) -> C]
    BY <1>6, <1>7, <2>1
  <2> QED
    BY <1>6, <2>1, <2>2
<1> QED
  BY <1>2, <1>3, <1>8

\* An archive that is rebuilt fits together: whatever libraries a game has, however
\* their chunks overwrite each other, what can be read at all has code for every
\* shader and maps of its shaders only.
THEOREM AlwaysReadable == Spec => []Readable
<1>1. Init => CurrentRead
  BY DEF Init, CurrentRead
<1>2. Container /\ CurrentRead => Readable
  <2> SUFFICES ASSUME Container, CurrentRead, current # NoArchive
               PROVE  Readable
    BY DEF Readable
  <2>1. PICK library : library = game.libraries[current.name]
    OBVIOUS
  <2>2. PICK header : header = current.header
    OBVIOUS
  <2>3. PICK D : D = DOMAIN library.shaders
    OBVIOUS
  <2>4. /\ IsLibrary(library) /\ header.maps = library.maps /\ DOMAIN header.shaders = D
        /\ Extends(D, library.indices, header.indices)
    BY <2>1, <2>2, <2>3, CurrentHeader
  <2>5. DOMAIN current.code = D
    BY <2>1, <2>3 DEF CurrentRead
  <2>6. header.shaders \in Seq(Range(header.shaders))
    <3>1. PICK sh : sh = header.shaders
      OBVIOUS
    <3>2. PICK n \in Nat : D = 1..n
      BY <2>3, <2>4, ShaderTypes
    <3>3. sh = [s \in 1..n |-> sh[s]]
      <4>1. PICK groups : groups = GroupsOf(library, game.format)
        OBVIOUS
      <4>2. PICK no : no = NoGroups(library, groups).shaders
        OBVIOUS
      <4>3. HeaderSoFar(library, groups, header, Len(groups)) /\ header.result = "ok"
        BY <2>1, <2>2, <4>1, CurrentHeader
      <4>4. header = [result |-> "ok", maps |-> library.maps, indices |-> header.indices,
                      groups |-> header.groups, shaders |-> no]
        BY <4>2, <4>3 DEF HeaderSoFar
      <4>5. sh = no
        BY <3>1, <4>4
      <4>6. no = [s \in D |-> no[s]]
        BY <2>3, <4>2 DEF NoGroups
      <4> QED
        BY <3>2, <4>5, <4>6
    <3>4. PICK R : R = Range(sh)
      OBVIOUS
    <3>5. \A s \in 1..n : sh[s] \in R
      BY <2>4, <3>1, <3>2, <3>4 DEF Range
    <3>6. sh \in [1..n -> R]
      BY <3>3, <3>5
    <3> QED
      BY <3>1, <3>4, <3>6
  <2>7. header.maps \in Seq(Range(header.maps))
    BY <2>4 DEF IsLibrary, ToSet, Range
  <2>8. ASSUME NEW m \in DOMAIN header.maps
        PROVE  ShadersOf(header, m) \in Seq(D)
    <3>1. PICK map : map = library.maps[m]
      OBVIOUS
    <3>2. map.first \in Nat /\ map.count \in Nat /\ map.first + map.count <= Len(library.indices)
      BY <2>4, <3>1 DEF IsLibrary
    <3>3. /\ header.indices \in Seq(D) /\ Len(library.indices) <= Len(header.indices)
          /\ Len(library.indices) \in Nat /\ Len(header.indices) \in Nat
      <4>1. header.indices \in Seq(D) /\ Len(library.indices) <= Len(header.indices)
        BY <2>4 DEF Extends
      <4>2. library.indices \in Seq(D)
        BY <2>3, <2>4 DEF IsLibrary
      <4> QED
        BY <4>1, <4>2
    <3>4. map.first + map.count \in Nat /\ map.first + map.count <= Len(header.indices)
      BY <3>2, <3>3
    <3>5. SubSeq(header.indices, map.first + 1, map.first + map.count) \in Seq(D)
      BY <3>2, <3>3, <3>4, PartTyped
    <3> QED
      BY <2>4, <3>1, <3>5 DEF ShadersOf, RangeOf
  <2>9. \A s \in DOMAIN current.code : Result(s) \in Seq(CodeBytes)
    BY ResultTyped
  <2> QED
    BY <2>2, <2>4, <2>5, <2>6, <2>7, <2>8, <2>9 DEF Readable
<1> QED
  BY <1>1, <1>2, ContainerSafety, StepReads, PTL DEF Spec

-----------------------------------------------------------------------------
(* The messages name every shader once.                                    *)

\* The messages of a library that is rebuilt are those of its archive.
OfArchive == current # NoArchive => current.messages = Messages(current)

\* No library is rebuilt at first.
LEMMA InitOfArchive == Init => OfArchive
  BY DEF Init, OfArchive

\* A library is started with its messages, and keeps them.
LEMMA StepOfArchive == OfArchive /\ [Next]_vars => OfArchive'
<1> SUFFICES ASSUME OfArchive, [Next]_vars PROVE OfArchive'
  OBVIOUS
<1>1. ASSUME UNCHANGED current
      PROVE  OfArchive'
  BY <1>1 DEF OfArchive
<1>2. CASE \E name \in DOMAIN archives : StartLibrary(name)
  <2>1. PICK name \in DOMAIN archives : StartLibrary(name)
    BY <1>2
  <2>2. CASE ~UNCHANGED current
    <3>1. PICK archive : current' = [name |-> name, header |-> archive.header, code |-> archive.code,
                                     method |-> archive.method, messages |-> Messages(archive)]
      BY <2>1, <2>2 DEF StartLibrary
    <3>2. PICK next : next = current'
      OBVIOUS
    <3>3. next.header = archive.header /\ next.messages = Messages(archive)
      BY <3>1, <3>2
    <3>4. Messages(next) = Messages(archive)
      BY <3>3 DEF Messages
    <3> QED
      BY <3>2, <3>3, <3>4 DEF OfArchive
  <2> QED
    BY <1>1, <2>2
<1>3. CASE EndLibrary
  <2>1. UNCHANGED current \/ current' = NoArchive
    BY <1>3 DEF EndLibrary
  <2> QED
    BY <1>1, <2>1 DEF OfArchive
<1>4. CASE ConvertLibrary \/ AllRebuilt \/ Send \/ CloseChannel \/ Take
           \/ (\E i \in DOMAIN working : Work(i) \/ Receive(i)) \/ UNCHANGED vars
  <2>1. UNCHANGED current
    BY <1>4 DEF ConvertLibrary, AllRebuilt, Send, CloseChannel, Take, Work, Receive, vars
  <2> QED
    BY <1>1, <2>1
<1> QED
  BY <1>2, <1>3, <1>4 DEF Next, Rebuild, Ended

\* An archive whose tables fit each other is rebuilt from messages that name each
\* of its shaders once, whether maps share shaders or none lists one.
LEMMA ReadableSentOnce == ASSUME OfArchive, Readable PROVE WellFormed
<1>1. CASE current = NoArchive
  <2>1. /\ current.messages = <<>> /\ current.header.shaders = <<>> /\ current.code = <<>>
    BY <1>1, Zenon DEF NoArchive
  <2> QED
    BY <2>1 DEF WellFormed
<1>2. CASE current # NoArchive
  <2>1. /\ current.header.shaders \in Seq(Range(current.header.shaders))
        /\ current.header.maps \in Seq(Range(current.header.maps))
        /\ \A m \in DOMAIN current.header.maps :
             ShadersOf(current.header, m) \in Seq(DOMAIN current.header.shaders)
        /\ DOMAIN current.code = DOMAIN current.header.shaders
        /\ \A s \in DOMAIN current.code : Result(s) \in Seq(CodeBytes)
    BY <1>2 DEF Readable
  <2>2. PICK n \in Nat : DOMAIN current.header.shaders = 1..n
    BY <2>1
  <2>3. PICK M \in Nat : DOMAIN current.header.maps = 1..M
    BY <2>1
  <2>4. \A m \in 1..M : ShadersOf(current.header, m) \in Seq(1..n)
    BY <2>1, <2>2, <2>3
  <2>5. SentOnce(current.messages, 1..n)
    <3>1. SentOnce(Messages(current), 1..n)
      BY <2>2, <2>3, <2>4, MessagesOnce
    <3> QED
      BY <1>2, <3>1 DEF OfArchive
  <2>6. current.messages \in Seq(AnyMessage)
    BY <2>5 DEF SentOnce
  <2>7. DOMAIN current.messages = 1..Len(current.messages)
    BY <2>6
  <2>8. DOMAIN current.code = 1..n
    BY <2>1, <2>2
  <2> QED
    BY <2>1, <2>5, <2>6, <2>7, <2>8 DEF SentOnce, WellFormed, AnyMessage
<1> QED
  BY <1>1, <1>2

\* The messages of a rebuild are about the shaders of the library and name each of
\* them exactly once, whatever maps share shaders, list none or leave some out.
THEOREM EachSentOnce == Spec => []WellFormed
<1>1. OfArchive /\ Readable => WellFormed
  BY ReadableSentOnce
<1> QED
  BY <1>1, InitOfArchive, StepOfArchive, AlwaysReadable, PTL DEF Spec

-----------------------------------------------------------------------------
(* The code of the messages.                                               *)

\* The code up to a message is that of the messages one after the other.
LEMMA CodeByMessage ==
  ASSUME WellFormed
  PROVE  /\ Len(current.messages) \in Nat
         /\ CodeUpTo \in [0..Len(current.messages) -> Seq(CodeBytes)]
         /\ CodeUpTo[0] = <<>>
         /\ \A n \in 1..Len(current.messages) : CodeUpTo[n] = CodeUpTo[n - 1] \o CodeOf(current.messages[n])
<1>1. PICK N : N = Len(current.messages)
  OBVIOUS
<1>2. N \in Nat /\ \A n \in 1..N : CodeOf(current.messages[n]) \in Seq(CodeBytes)
  BY <1>1 DEF WellFormed, CodeOf
<1>3. PICK p : p = [n \in 1..N |-> CodeOf(current.messages[n])]
  OBVIOUS
<1>4. PICK S : S = Seq(CodeBytes)
  OBVIOUS
<1>5. /\ p \in [1..N -> S] /\ <<>> \in S
      /\ \A a, b \in S : a \o b \in S
  BY <1>2, <1>3, <1>4
<1> DEFINE Totals(g, n) == /\ g \in [0..n -> S] /\ g[0] = <<>>
                           /\ \A k \in 1..n : g[k] = g[k - 1] \o p[k]
           T == {n \in 0..N : ~ \E g : Totals(g, n)}
<1>6. T \subseteq 0..N /\ \A n \in 0..N : n \notin T <=> \E g : Totals(g, n)
  <2> HIDE DEF Totals
  <2> QED
    BY Zenon
<1> HIDE DEF T
<1>a. T = {}
  <2>1. SUFFICES ASSUME T # {} PROVE FALSE
    OBVIOUS
  <2>2. PICK n \in T : \A m \in T : n <= m
    <3>1. T \subseteq Nat
      BY <1>2, <1>6
    <3> QED
      BY <2>1, <3>1, LeastNumber
  <2>3. n \in 0..N /\ n \in Nat
    BY <1>2, <1>6
  <2>4. CASE n = 0
    <3>1. Totals([k \in 0..0 |-> <<>>], 0)
      BY <1>5
    <3> QED
      BY <1>6, <2>3, <2>4, <3>1
  <2>5. CASE n # 0
    <3>1. n - 1 \in 0..N /\ n - 1 \notin T
      <4>1. n - 1 \in 0..N /\ ~ (n <= n - 1)
        BY <1>2, <2>3, <2>5
      <4> QED
        BY <2>2, <4>1
    <3>2. PICK g : Totals(g, n - 1)
      BY <1>6, <3>1
    <3>3. PICK h : h = [k \in 0..n |-> IF k = n THEN g[n - 1] \o p[n] ELSE g[k]]
      OBVIOUS
    <3>4. g[n - 1] \in S /\ p[n] \in S
      BY <1>2, <1>5, <2>3, <2>5, <3>2
    <3>5. h \in [0..n -> S]
      BY <1>5, <2>3, <2>5, <3>2, <3>3, <3>4
    <3>6. h[0] = <<>>
      BY <2>3, <2>5, <3>2, <3>3
    <3>7. ASSUME NEW k \in 1..n
          PROVE  h[k] = h[k - 1] \o p[k]
      <4>1. CASE k = n
        <5>1. n - 1 \in 0..n /\ n - 1 # n /\ n \in 0..n
          BY <2>3, <2>5
        <5> QED
          BY <3>3, <4>1, <5>1
      <4>2. CASE k # n
        <5>1. k \in 0..n /\ k - 1 \in 0..n /\ k - 1 # n /\ k \in 1..(n - 1)
          BY <2>3, <4>2
        <5> QED
          BY <3>2, <3>3, <4>2, <5>1
      <4> QED
        BY <4>1, <4>2
    <3>8. Totals(h, n)
      BY <3>5, <3>6, <3>7
    <3> QED
      BY <1>6, <2>3, <3>8
  <2> QED
    BY <2>4, <2>5
<1>7. PICK g : Totals(g, N)
  <2>1. N \in 0..N
    BY <1>2
  <2>2. N \notin T
    BY <1>a
  <2> QED
    BY <1>6, <2>1, <2>2
<1>8. g = [n \in 0..N |-> IF n = 0 THEN <<>> ELSE g[n - 1] \o CodeOf(current.messages[n])]
  <2>1. \A n \in 0..N : n = 0 \/ n \in 1..N
    BY <1>2
  <2>2. \A n \in 1..N : g[n] = g[n - 1] \o CodeOf(current.messages[n])
    BY <1>3, <1>7, Zenon
  <2> QED
    BY <1>7, <2>1, <2>2, ZenonT(60)
<1>9. CodeUpTo = [n \in 0..N |-> IF n = 0 THEN <<>> ELSE CodeUpTo[n - 1] \o CodeOf(current.messages[n])]
  BY <1>1, <1>8, Zenon DEF CodeUpTo
<1>10. CodeUpTo[0] = <<>>
  BY <1>2, <1>9
<1>11. \A n \in 1..N : CodeUpTo[n] = CodeUpTo[n - 1] \o CodeOf(current.messages[n])
  <2>1. \A n \in 1..N : n \in 0..N /\ n # 0
    BY <1>2
  <2> QED
    BY <1>9, <2>1
<1>12. CodeUpTo \in [0..N -> Seq(CodeBytes)]
  <2> DEFINE U == {n \in 0..N : CodeUpTo[n] \notin S}
  <2>1. SUFFICES U = {}
    BY <1>4, <1>9
  <2>2. SUFFICES ASSUME U # {} PROVE FALSE
    OBVIOUS
  <2>3. PICK n \in U : \A m \in U : n <= m
    <3>1. U \subseteq Nat
      BY <1>2
    <3> QED
      BY <2>2, <3>1, LeastNumber
  <2>4. n # 0
    BY <1>5, <1>10, <2>3
  <2>5. n \in 1..N /\ n - 1 \in 0..N /\ n - 1 \notin U
    BY <1>2, <2>3, <2>4
  <2>6. CodeUpTo[n - 1] \in S /\ CodeOf(current.messages[n]) \in S
    BY <1>3, <1>5, <2>5
  <2> QED
    BY <1>5, <1>11, <2>3, <2>5, <2>6
<1> QED
  BY <1>1, <1>2, <1>10, <1>11, <1>12

-----------------------------------------------------------------------------
(* The invariant of the pipeline.                                          *)

Taken == [message : AnyMessage, state : {"running", "done", "failed"}]

\* While no library is rebuilt, or after an error, nothing is on its way.
AtRest ==
  /\ game \in Games
  /\ toWrite \in Seq(DOMAIN game.libraries \ {""})
  /\ DOMAIN archives \subseteq DOMAIN game.libraries \ {""}
  /\ producer \in {"sending", "closed", "stopped", "panicked"}
  /\ receiving \in BOOLEAN
  /\ ~receiving => channel = <<>> /\ working = <<>>
  /\ current = NoArchive => ~receiving /\ producer # "sending" /\ sent = 0

\* How many messages have been written.
Done == sent - Len(channel) - Len(working)

\* The messages taken and those in the channel are the last ones that were sent.
OnTheWay ==
  /\ sent \in 0..Len(current.messages)
  /\ channel \in Seq(AnyMessage) /\ Len(channel) <= ChannelSize
  /\ working \in Seq(Taken) /\ Len(working) <= Ahead
  /\ receiving =>
       /\ Done >= 0
       /\ \A i \in 1..Len(working) : working[i].message = current.messages[Done + i]
       /\ \A i \in 1..Len(channel) : channel[i] = current.messages[Done + Len(working) + i]
       /\ producer = "sending" \/ (producer = "closed" /\ sent = Len(current.messages))

\* What they made of those before is written, each where the layout says.
WrittenSoFar ==
  receiving =>
    /\ layout = [code |-> layout.code, start |-> layout.start, shaders |-> layout.shaders,
                 maps |-> layout.maps]
    /\ layout.shaders = [s \in DOMAIN current.code |-> layout.shaders[s]]
    /\ layout.code = CodeUpTo[Done]
    /\ \A k \in 1..Done : current.messages[k].kind = "Compress" =>
         layout.shaders[current.messages[k].index] =
           [offset |-> Len(CodeUpTo[k - 1]), size |-> Len(Result(current.messages[k].index)),
            unique |-> current.messages[k].unique]

IInv == AtRest /\ (WellFormed => OnTheWay /\ WrittenSoFar)

\* No code comes of no messages, here and in the next state.
LEMMA NothingCoded == WellFormed => CodeUpTo[0] = <<>>
  BY CodeByMessage

\* So it is in the next state.
LEMMA NothingCodedNext == WellFormed' => CodeUpTo'[0] = <<>>
<1>1. WellFormed => CodeUpTo[0] = <<>>
  BY CodeByMessage
<1>2. (WellFormed => CodeUpTo[0] = <<>>)'
  BY <1>1, PTL
<1> QED
  BY <1>2

\* What the messages say depends on the game and the library only.
LEMMA SameLibrary ==
  ASSUME game' = game, current' = current
  PROVE  WellFormed' = WellFormed /\ CodeUpTo' = CodeUpTo /\ \A s : Result(s)' = Result(s)
<1>1. \A s : Result(s)' = Result(s)
  BY DEF Result, Compressing
<1>2. CodeUpTo' = CodeUpTo
  BY DEF CodeUpTo, CodeOf, Result, Compressing
<1>3. CodeBytes' = CodeBytes
  BY DEF CodeBytes, Result, Compressing
<1>4. WellFormed' = WellFormed
  BY <1>1, <1>3, ZenonT(60) DEF WellFormed
<1> QED
  BY <1>1, <1>2, <1>4

-----------------------------------------------------------------------------
(* Every step preserves it.                                                *)

\* The invariant holds at first: nothing is rebuilt.
LEMMA InitPipeline == Init => IInv
<1> SUFFICES ASSUME Init PROVE IInv
  OBVIOUS
<1>1. AtRest
  <2>1. toWrite \in Seq(DOMAIN game.libraries \ {""})
    BY GamesAssumption, Zenon DEF Init
  <2>2. DOMAIN archives = {}
    BY DEF Init, NoMap
  <2> QED
    BY <2>1, <2>2, Zenon DEF Init, AtRest
<1>2. OnTheWay /\ WrittenSoFar
  <2>1. Len(current.messages) = 0 /\ ChannelSize \in Nat /\ Ahead \in Nat
    BY PipelineAssumption, Zenon DEF Init, NoArchive
  <2> QED
    BY <2>1 DEF Init, OnTheWay, WrittenSoFar
<1> QED
  BY <1>1, <1>2 DEF IInv

\* Steps that leave the pipeline and the library alone keep the invariant.
LEMMA PipelineUnchanged ==
  ASSUME WellFormed => OnTheWay /\ WrittenSoFar, UNCHANGED <<game, current, pipeline>>
  PROVE  (WellFormed => OnTheWay /\ WrittenSoFar)'
<1>1. WellFormed' = WellFormed /\ CodeUpTo' = CodeUpTo /\ \A s : Result(s)' = Result(s)
  BY SameLibrary
<1>2. Done' = Done
  BY DEF Done, pipeline
<1>3. OnTheWay => OnTheWay'
  BY <1>2 DEF OnTheWay, pipeline
<1>4. WrittenSoFar => WrittenSoFar'
  BY <1>1, <1>2 DEF WrittenSoFar, pipeline
<1> QED
  BY <1>1, <1>3, <1>4

\* The conversion to a container does not touch the pipeline.
LEMMA ConvertKeeps == IInv /\ ConvertLibrary => IInv'
<1> SUFFICES ASSUME IInv, ConvertLibrary PROVE IInv'
  OBVIOUS
<1>1. /\ toWrite # <<>> /\ toWrite \in Seq(DOMAIN game.libraries \ {""})
      /\ UNCHANGED <<game, current, pipeline, rebuilt>>
  BY Zenon DEF IInv, AtRest, ConvertLibrary
<1>2. /\ Head(toWrite) \in DOMAIN game.libraries \ {""}
      /\ Tail(toWrite) \in Seq(DOMAIN game.libraries \ {""})
  <2>1. \A S : \A s \in Seq(S) : s # <<>> => Head(s) \in S /\ Tail(s) \in Seq(S)
    OBVIOUS
  <2> QED
    BY <1>1, <2>1, Zenon
<1>3. toWrite' \in {toWrite, Tail(toWrite)}
  BY DEF ConvertLibrary
<1>4. DOMAIN archives' \subseteq DOMAIN archives \cup {Head(toWrite)}
  BY DEF ConvertLibrary, container, WithKey
<1>5. AtRest'
  BY <1>1, <1>2, <1>3, <1>4, Zenon DEF IInv, AtRest, pipeline
<1> QED
  BY <1>1, <1>5, PipelineUnchanged, Zenon DEF IInv

\* A library starts with nothing sent and nothing written.
LEMMA StartKeeps == ASSUME NEW name \in DOMAIN archives PROVE IInv /\ StartLibrary(name) => IInv'
<1> SUFFICES ASSUME IInv, StartLibrary(name) PROVE IInv'
  OBVIOUS
<1>1. /\ current = NoArchive /\ ~receiving /\ channel = <<>> /\ working = <<>>
      /\ name # "" /\ UNCHANGED <<game, toWrite, container, rebuilt>>
  BY Zenon DEF IInv, AtRest, StartLibrary
<1>2. PICK archive : archive = ReadArchive(archives[name], chunks)
  OBVIOUS
<1>3. CASE archive.result # "ok"
  <2>1. UNCHANGED <<game, toWrite, archives, current, pipeline>>
    BY <1>1, <1>2, <1>3, Zenon DEF StartLibrary, container
  <2>2. AtRest'
    BY <2>1, Zenon DEF IInv, AtRest, pipeline
  <2> QED
    BY <2>1, <2>2, PipelineUnchanged DEF IInv
<1>4. CASE archive.result = "ok"
  <2>1. /\ current' = [name |-> name, header |-> archive.header, code |-> archive.code,
                       method |-> archive.method, messages |-> Messages(archive)]
        /\ producer' = "sending" /\ sent' = 0 /\ receiving' = TRUE
        /\ layout' = Unwritten(archive)
        /\ channel' = <<>> /\ working' = <<>>
    BY <1>1, <1>2, <1>4, Zenon DEF StartLibrary
  <2>2. current' # NoArchive
    <3>1. current'.name = name /\ NoArchive.name = ""
      BY <2>1 DEF NoArchive
    <3> QED
      BY <1>1, <3>1, Zenon
  <2>3. AtRest'
    BY <1>1, <2>1, <2>2, Zenon DEF IInv, AtRest, container
  <2>4. Len(channel') = 0 /\ Len(working') = 0 /\ Done' = 0
    <3>1. Len(channel') = 0 /\ Len(working') = 0
      BY <2>1
    <3>2. sent' = 0
      BY <2>1
    <3> QED
      BY <3>1, <3>2 DEF Done
  <2>5. ASSUME WellFormed' PROVE OnTheWay'
    <3>1. Len(current'.messages) \in Nat
      BY <2>5 DEF WellFormed
    <3>2. sent' \in 0..Len(current'.messages)
      BY <2>1, <3>1
    <3>3. ChannelSize \in Nat /\ Ahead \in Nat
      BY PipelineAssumption
    <3>4. channel' \in Seq(AnyMessage) /\ working' \in Seq(Taken)
      BY <2>1
    <3>5. 0 <= ChannelSize /\ 0 <= Ahead /\ \A i \in 1..0 : FALSE
      BY <3>3
    <3>6. receiving' => producer' = "sending"
      BY <2>1
    <3>7. Len(channel') <= ChannelSize /\ Len(working') <= Ahead /\ Done' >= 0
      BY <2>4, <3>5
    <3>8. /\ \A i \in 1..Len(working') : working'[i].message = current'.messages[Done' + i]
          /\ \A i \in 1..Len(channel') : channel'[i] = current'.messages[Done' + Len(working') + i]
      BY <2>4, <3>5
    <3> QED
      BY <3>2, <3>4, <3>6, <3>7, <3>8 DEF OnTheWay
  <2>6. ASSUME WellFormed' PROVE WrittenSoFar'
    <3>1. DOMAIN current'.code = DOMAIN archive.header.shaders
      BY <2>1, <2>6 DEF WellFormed
    <3>2. layout' = [code |-> <<>>, start |-> 0,
                     shaders |-> [s \in DOMAIN current'.code |-> Nowhere], maps |-> NoMap]
      BY <2>1, <3>1 DEF Unwritten
    <3>3. CodeUpTo'[0] = <<>>
      BY <2>6, NothingCodedNext
    <3> QED
      BY <2>4, <3>2, <3>3 DEF WrittenSoFar
  <2> QED
    BY <2>3, <2>5, <2>6 DEF IInv
<1> QED
  BY <1>3, <1>4

\* The types that the steps of the pipeline rest on.
LEMMA PipelineTypes ==
  ASSUME IInv, WellFormed
  PROVE  /\ OnTheWay /\ WrittenSoFar
         /\ current.messages \in Seq(AnyMessage) /\ Len(current.messages) \in Nat
         /\ \A k \in 1..Len(current.messages) : current.messages[k] \in AnyMessage
         /\ channel \in Seq(AnyMessage) /\ Len(channel) \in Nat
         /\ working \in Seq(Taken) /\ Len(working) \in Nat
         /\ sent \in Nat /\ sent <= Len(current.messages)
         /\ Done \in Int
<1>1. OnTheWay /\ WrittenSoFar
  BY DEF IInv
<1>2. current.messages \in Seq(AnyMessage)
  BY DEF WellFormed, AnyMessage
<1>3. channel \in Seq(AnyMessage) /\ working \in Seq(Taken) /\ sent \in 0..Len(current.messages)
  BY <1>1 DEF OnTheWay
<1>4. Len(current.messages) \in Nat /\ Len(channel) \in Nat /\ Len(working) \in Nat
  BY <1>2, <1>3
<1>5. \A k \in 1..Len(current.messages) : current.messages[k] \in AnyMessage
  BY <1>2
<1>6. sent \in Nat /\ sent <= Len(current.messages) /\ Done \in Int
  BY <1>3, <1>4 DEF Done
<1> QED
  BY <1>1, <1>2, <1>3, <1>4, <1>5, <1>6

\* What is written stays, unless the number of messages changes.
LEMMA LayoutUnchanged ==
  ASSUME IInv, WellFormed, UNCHANGED <<game, current, receiving, layout>>,
         receiving => Done' = Done
  PROVE  WrittenSoFar'
<1>1. CodeUpTo' = CodeUpTo /\ \A s : Result(s)' = Result(s)
  BY SameLibrary
<1> QED
  BY <1>1, PipelineTypes DEF WrittenSoFar

\* A message sent is the next one, at the end of the channel.
LEMMA SendKeeps == IInv /\ Send => IInv'
<1> SUFFICES ASSUME IInv, Send PROVE IInv'
  OBVIOUS
<1>1. /\ UNCHANGED <<game, toWrite, container, current, working, receiving, layout, rebuilt, result>>
      /\ producer = "sending" /\ sent < Len(current.messages)
  BY DEF Send, MaySend
<1>2. PICK message : message = current.messages[sent + 1]
  OBVIOUS
<1>3. CASE receiving
  <2>1. /\ Len(channel) < ChannelSize /\ channel' = Append(channel, message)
        /\ sent' = sent + 1 /\ producer' = producer
    BY <1>2, <1>3 DEF Send, MaySend
  <2>2. AtRest'
    BY <1>1, <1>3, <2>1, Zenon DEF IInv, AtRest, container
  <2>3. ASSUME WellFormed
        PROVE  OnTheWay' /\ WrittenSoFar'
    <3>1. /\ OnTheWay /\ sent \in Nat /\ Len(current.messages) \in Nat
          /\ channel \in Seq(AnyMessage) /\ Len(channel) \in Nat /\ Len(working) \in Nat
          /\ message \in AnyMessage
      BY <1>1, <1>2, <2>3, PipelineTypes
    <3>2. /\ channel' \in Seq(AnyMessage) /\ Len(channel') = Len(channel) + 1
          /\ channel'[Len(channel) + 1] = message
          /\ \A i \in 1..Len(channel) : channel'[i] = channel[i]
      BY <2>1, <3>1
    <3>3. Done' = Done /\ Done \in Int /\ Done + Len(working) + Len(channel) = sent
      BY <1>1, <2>1, <3>1, <3>2 DEF Done
    <3>4. Len(channel') <= ChannelSize /\ sent' \in 0..Len(current.messages)
      BY <1>1, <2>1, <3>1, <3>2, PipelineAssumption
    <3>5. \A i \in 1..Len(channel') : channel'[i] = current.messages[Done + Len(working) + i]
      <4>1. channel'[Len(channel) + 1] = current.messages[Done + Len(working) + (Len(channel) + 1)]
        <5>1. Done + Len(working) + (Len(channel) + 1) = sent + 1
          BY <3>1, <3>3
        <5> QED
          BY <1>2, <3>2, <5>1
      <4>2. \A i \in 1..Len(channel) : channel'[i] = current.messages[Done + Len(working) + i]
        BY <1>3, <3>1, <3>2 DEF OnTheWay
      <4>3. \A i \in 1..Len(channel') : i \in 1..Len(channel) \/ i = Len(channel) + 1
        BY <3>1, <3>2
      <4> QED
        BY <4>1, <4>2, <4>3
    <3>6. OnTheWay'
      BY <1>1, <2>1, <3>1, <3>2, <3>3, <3>4, <3>5 DEF OnTheWay
    <3>7. WrittenSoFar'
      BY <1>1, <2>3, <3>3, LayoutUnchanged
    <3> QED
      BY <3>6, <3>7
  <2> QED
    BY <1>1, <2>2, <2>3, SameLibrary DEF IInv
<1>4. CASE ~receiving
  <2>1. producer' \in {"stopped", "panicked"} /\ channel' = channel /\ sent' = sent
    BY <1>2, <1>4 DEF Send
  <2>2. AtRest'
    BY <1>1, <1>4, <2>1, Zenon DEF IInv, AtRest, container
  <2>3. ASSUME WellFormed
        PROVE  OnTheWay' /\ WrittenSoFar'
    <3>1. OnTheWay
      BY <2>3, PipelineTypes
    <3>2. OnTheWay'
      BY <1>1, <1>4, <2>1, <3>1 DEF OnTheWay
    <3>3. WrittenSoFar'
      BY <1>1, <1>4, <2>3, LayoutUnchanged
    <3> QED
      BY <3>2, <3>3
  <2> QED
    BY <1>1, <2>2, <2>3, SameLibrary DEF IInv
<1> QED
  BY <1>3, <1>4

\* The channel is closed when all is sent.
LEMMA CloseKeeps == IInv /\ CloseChannel => IInv'
<1> SUFFICES ASSUME IInv, CloseChannel PROVE IInv'
  OBVIOUS
<1>1. /\ UNCHANGED <<game, toWrite, container, current, sent, channel, working, receiving, layout>>
      /\ sent = Len(current.messages) /\ producer' = "closed"
  BY DEF CloseChannel, AllSent
<1>2. AtRest'
  BY <1>1, Zenon DEF IInv, AtRest, container
<1>3. ASSUME WellFormed
      PROVE  OnTheWay' /\ WrittenSoFar'
  <2>1. OnTheWay /\ Done' = Done
    BY <1>1, <1>3, PipelineTypes DEF Done
  <2>2. OnTheWay'
    BY <1>1, <2>1 DEF OnTheWay
  <2> QED
    BY <1>1, <1>3, <2>1, <2>2, LayoutUnchanged
<1> QED
  BY <1>1, <1>2, <1>3, SameLibrary DEF IInv

\* What a worker takes was the first in the channel, and is behind all taken before.
LEMMA TakeKeeps == IInv /\ Take => IInv'
<1> SUFFICES ASSUME IInv, Take PROVE IInv'
  OBVIOUS
<1>1. /\ UNCHANGED <<game, toWrite, container, current, producer, sent, receiving, layout>>
      /\ receiving /\ channel # <<>> /\ Len(working) < Ahead
      /\ channel' = Tail(channel)
  BY DEF Take, MayTake
<1>2. PICK taken : taken = [message |-> Head(channel), state |-> "running"]
  OBVIOUS
<1>3. working' = Append(working, taken)
  BY <1>2 DEF Take
<1>4. AtRest'
  BY <1>1, Zenon DEF IInv, AtRest, container
<1>5. ASSUME WellFormed
      PROVE  OnTheWay' /\ WrittenSoFar'
  <2>1. /\ OnTheWay /\ sent \in Nat /\ Len(current.messages) \in Nat
        /\ channel \in Seq(AnyMessage) /\ Len(channel) \in Nat
        /\ working \in Seq(Taken) /\ Len(working) \in Nat
    BY <1>5, PipelineTypes
  <2>2. /\ channel' \in Seq(AnyMessage) /\ Len(channel) = Len(channel') + 1 /\ Len(channel') \in Nat
        /\ Head(channel) = channel[1] /\ Head(channel) \in AnyMessage
        /\ \A i \in 1..Len(channel') : channel'[i] = channel[i + 1]
    BY <1>1, <2>1
  <2>3. taken \in Taken /\ taken.message = channel[1]
    BY <1>2, <2>2 DEF Taken
  <2>4. /\ working' \in Seq(Taken) /\ Len(working') = Len(working) + 1
        /\ working'[Len(working) + 1] = taken
        /\ \A i \in 1..Len(working) : working'[i] = working[i]
    BY <1>3, <2>1, <2>3
  <2>5. Done' = Done /\ Done \in Int
    BY <1>1, <2>1, <2>2, <2>4 DEF Done
  <2>6. Len(channel') <= ChannelSize /\ Len(working') <= Ahead
    BY <1>1, <2>1, <2>2, <2>4, PipelineAssumption DEF OnTheWay
  <2>7. \A i \in 1..Len(channel') : channel'[i] = current.messages[Done + Len(working') + i]
    <3>1. TAKE i \in 1..Len(channel')
    <3>2. i + 1 \in 1..Len(channel) /\ Done + Len(working) + (i + 1) = Done + Len(working') + i
      BY <2>1, <2>2, <2>4, <2>5
    <3>3. channel[i + 1] = current.messages[Done + Len(working) + (i + 1)]
      BY <1>1, <2>1, <3>2 DEF OnTheWay
    <3> QED
      BY <2>2, <3>2, <3>3
  <2>8. \A i \in 1..Len(working') : working'[i].message = current.messages[Done + i]
    <3>1. 1 \in 1..Len(channel)
      BY <2>1, <2>2
    <3>2. channel[1] = current.messages[Done + Len(working) + 1]
      BY <1>1, <2>1, <3>1 DEF OnTheWay
    <3>3. Done + Len(working) + 1 = Done + (Len(working) + 1)
      BY <2>1, <2>5
    <3>4. working'[Len(working) + 1].message = current.messages[Done + (Len(working) + 1)]
      BY <2>3, <2>4, <3>2, <3>3
    <3>5. \A i \in 1..Len(working) : working'[i].message = current.messages[Done + i]
      BY <1>1, <2>1, <2>4 DEF OnTheWay
    <3>6. \A i \in 1..Len(working') : i \in 1..Len(working) \/ i = Len(working) + 1
      BY <2>1, <2>4
    <3> QED
      BY <3>4, <3>5, <3>6
  <2>9. OnTheWay'
    BY <1>1, <2>1, <2>2, <2>4, <2>5, <2>6, <2>7, <2>8 DEF OnTheWay
  <2> QED
    BY <1>1, <1>5, <2>5, <2>9, LayoutUnchanged
<1> QED
  BY <1>1, <1>4, <1>5, SameLibrary DEF IInv

\* Workers end in any order, which moves no message.
LEMMA WorkKeeps == ASSUME NEW i \in DOMAIN working PROVE IInv /\ Work(i) => IInv'
<1> SUFFICES ASSUME IInv, Work(i) PROVE IInv'
  OBVIOUS
<1>1. UNCHANGED <<game, toWrite, container, current, producer, sent, channel, receiving, layout>>
  BY DEF Work
<1>2. PICK state \in {"done", "failed"} : working' = [working EXCEPT ![i].state = state]
  BY DEF Work
<1>3. working # <<>>
  OBVIOUS
<1>4. AtRest'
  BY <1>1, <1>3, Zenon DEF IInv, AtRest, container
<1>5. ASSUME WellFormed
      PROVE  OnTheWay' /\ WrittenSoFar'
  <2>1. OnTheWay /\ working \in Seq(Taken) /\ Len(working) \in Nat /\ DOMAIN working = 1..Len(working)
    BY <1>5, PipelineTypes
  <2>2. working[i] \in Taken
    BY <2>1
  <2>3. PICK taken : taken = [working[i] EXCEPT !.state = state]
    OBVIOUS
  <2>4. taken \in Taken /\ taken.message = working[i].message
    BY <2>2, <2>3 DEF Taken
  <2>5. working' = [working EXCEPT ![i] = taken]
    BY <1>2, <2>3
  <2>6. /\ working' \in Seq(Taken) /\ Len(working') = Len(working)
        /\ \A j \in 1..Len(working) : working'[j].message = working[j].message
    <3>1. working' \in Seq(Taken) /\ Len(working') = Len(working)
      BY <2>1, <2>4, <2>5
    <3>2. \A j \in 1..Len(working) : working'[j] = IF j = i THEN taken ELSE working[j]
      BY <2>1, <2>5
    <3> QED
      BY <2>4, <3>1, <3>2
  <2>7. Done' = Done
    BY <1>1, <2>6 DEF Done
  <2>8. OnTheWay'
    BY <1>1, <2>1, <2>6, <2>7 DEF OnTheWay
  <2> QED
    BY <1>1, <1>5, <2>7, <2>8, LayoutUnchanged
<1> QED
  BY <1>1, <1>4, <1>5, SameLibrary DEF IInv

\* Writing the first result, when there is one.
LEMMA WriteOne ==
  ASSUME IInv, WellFormed, receiving, 1 \in DOMAIN working,
         layout' = Written(working[1].message),
         working' = SubSeq(working, 1, 1 - 1) \o SubSeq(working, 1 + 1, Len(working)),
         UNCHANGED <<game, toWrite, container, current, producer, sent, channel, receiving>>
  PROVE  OnTheWay' /\ WrittenSoFar'
<1>1. /\ OnTheWay /\ WrittenSoFar /\ sent \in Nat /\ Len(current.messages) \in Nat
      /\ channel \in Seq(AnyMessage) /\ Len(channel) \in Nat
      /\ working \in Seq(Taken) /\ Len(working) \in Nat /\ Len(working) >= 1
      /\ current.messages \in Seq(AnyMessage) /\ sent <= Len(current.messages)
  BY PipelineTypes
<1>2. /\ working' \in Seq(Taken) /\ Len(working') = Len(working) - 1
      /\ \A i \in 1..Len(working') : working'[i] = working[i + 1]
  <2>1. SubSeq(working, 1, 1 - 1) = <<>>
    BY <1>1
  <2>2. PICK rest : rest = SubSeq(working, 1 + 1, Len(working))
    OBVIOUS
  <2>3. /\ rest \in Seq(Taken) /\ Len(rest) = Len(working) - 1
        /\ \A i \in 1..Len(rest) : rest[i] = working[i + 1]
    <3>1. rest = Tail(working)
      <4>1. 1 + 1 = 2
        OBVIOUS
      <4> QED
        BY <2>2, <4>1
    <3>2. working # <<>>
      BY <1>1
    <3> QED
      BY <1>1, <3>1, <3>2
  <2>4. working' = rest
    BY <2>1, <2>2, <2>3
  <2> QED
    BY <2>3, <2>4
<1>3. Done' = Done + 1 /\ Done \in Nat /\ Done + 1 <= Len(current.messages)
      /\ Done + 1 \in 1..Len(current.messages)
  <2>1. Done >= 0
    BY <1>1 DEF OnTheWay
  <2>2. Done' = sent - Len(channel) - Len(working') /\ Done = sent - Len(channel) - Len(working)
    BY DEF Done
  <2>3. Done' = Done + 1 /\ Done \in Int /\ Done + 1 <= sent
    BY <1>1, <1>2, <2>2
  <2> QED
    BY <1>1, <2>1, <2>3
<1>4. PICK message : message = working[1].message
  OBVIOUS
<1>5. message = current.messages[Done + 1] /\ message \in AnyMessage
  <2>1. 1 \in 1..Len(working)
    BY <1>1
  <2>2. message = current.messages[Done + 1]
    BY <1>1, <1>4, <2>1 DEF OnTheWay
  <2> QED
    BY <1>3, <2>2, PipelineTypes
<1>6. OnTheWay'
  <2>1. \A i \in 1..Len(working') : working'[i].message = current.messages[Done + 1 + i]
    <3>1. TAKE i \in 1..Len(working')
    <3>2. i + 1 \in 1..Len(working) /\ Done + (i + 1) = Done + 1 + i
      <4>1. \A d, j, n, m \in Int : m = n - 1 /\ j \in 1..m =>
              j + 1 \in 1..n /\ d + (j + 1) = d + 1 + j
        OBVIOUS
      <4>2. /\ Done \in Int /\ Len(working) \in Int /\ Len(working') \in Int /\ i \in Int
            /\ Len(working') = Len(working) - 1
        BY <1>1, <1>2, <1>3
      <4> QED
        BY <3>1, <4>1, <4>2
    <3>3. working[i + 1].message = current.messages[Done + (i + 1)]
      BY <1>1, <3>2 DEF OnTheWay
    <3> QED
      BY <1>2, <3>2, <3>3
  <2>2. \A i \in 1..Len(channel) : channel[i] = current.messages[Done + 1 + Len(working') + i]
    <3>1. Done + 1 + Len(working') = Done + Len(working)
      <4>1. \A d, n, m \in Int : m = n - 1 => d + 1 + m = d + n
        OBVIOUS
      <4>2. Done \in Int /\ Len(working) \in Int /\ Len(working') \in Int
        BY <1>1, <1>2, <1>3
      <4> QED
        BY <1>2, <4>1, <4>2, ZenonT(60)
    <3> QED
      BY <1>1, <3>1 DEF OnTheWay
  <2>3. Len(working') <= Ahead /\ Done' >= 0
    BY <1>1, <1>2, <1>3, PipelineAssumption DEF OnTheWay
  <2> QED
    BY <1>1, <1>2, <1>3, <2>1, <2>2, <2>3 DEF OnTheWay
<1>7. /\ layout.code = CodeUpTo[Done] /\ layout.code \in Seq(CodeBytes)
      /\ CodeUpTo[Done + 1] = layout.code \o CodeOf(message)
  <2>1. Done \in 0..Len(current.messages) /\ (Done + 1) - 1 = Done
    BY <1>3
  <2>2. layout.code = CodeUpTo[Done]
    BY <1>1 DEF WrittenSoFar
  <2>3. CodeUpTo[Done] \in Seq(CodeBytes)
    BY <2>1, CodeByMessage
  <2>4. CodeUpTo[Done + 1] = CodeUpTo[Done] \o CodeOf(current.messages[Done + 1])
    BY <1>3, <2>1, CodeByMessage
  <2> QED
    BY <1>5, <2>2, <2>3, <2>4
<1>8. PICK l : l = layout
  OBVIOUS
<1>9. /\ l = [code |-> l.code, start |-> l.start, shaders |-> l.shaders, maps |-> l.maps]
      /\ l.shaders = [s \in DOMAIN current.code |-> l.shaders[s]]
      /\ \A k \in 1..Done : current.messages[k].kind = "Compress" =>
           l.shaders[current.messages[k].index] =
             [offset |-> Len(CodeUpTo[k - 1]), size |-> Len(Result(current.messages[k].index)),
              unique |-> current.messages[k].unique]
  BY <1>1, <1>8 DEF WrittenSoFar
<1>10. CodeUpTo' = CodeUpTo /\ \A s : Result(s)' = Result(s)
  BY SameLibrary
<1>13. \A k \in 1..Len(current.messages) : current.messages[k].kind = "Compress" =>
         /\ current.messages[k].index \in DOMAIN current.code
         /\ \A j \in 1..Len(current.messages) :
              current.messages[j].kind = "Compress" /\ current.messages[j].index = current.messages[k].index
                => k = j
  <2>1. DOMAIN current.messages = 1..Len(current.messages)
    BY DEF WellFormed
  <2> QED
    BY <2>1 DEF WellFormed
<1>11. CASE message.kind # "Compress"
  <2>1. \/ layout' = [l EXCEPT !.start = Len(l.code)]
        \/ layout' = [l EXCEPT !.maps = WithKey(@, message.index,
                                          [offset |-> l.start, size |-> Len(l.code) - l.start])]
    BY <1>4, <1>5, <1>8, <1>11 DEF Written, AnyMessage
  <2>2. /\ layout' = [code |-> layout'.code, start |-> layout'.start, shaders |-> layout'.shaders,
                      maps |-> layout'.maps]
        /\ layout'.code = l.code /\ layout'.shaders = l.shaders
    BY <1>9, <2>1
  <2>3. CodeUpTo[Done + 1] = layout.code
    BY <1>7, <1>11 DEF CodeOf
  <2>4. \A k \in 1..(Done + 1) : k \in 1..Done \/ k = Done + 1
    BY <1>3
  <2>5. WrittenSoFar'
    BY <1>3, <1>5, <1>8, <1>9, <1>10, <1>11, <2>2, <2>3, <2>4, SMTT(60) DEF WrittenSoFar
  <2> QED
    BY <1>6, <2>5
<1>12. CASE message.kind = "Compress"
  <2>1. PICK s : s = message.index
    OBVIOUS
  <2>2. PICK place : place = [offset |-> Len(l.code), size |-> Len(Result(s)), unique |-> message.unique]
    OBVIOUS
  <2>3. layout' = [l EXCEPT !.code = @ \o Result(s), !.shaders[s] = place]
    BY <1>4, <1>8, <1>12, <2>1, <2>2 DEF Written
  <2>4. s \in DOMAIN current.code
    <3>1. current.messages[Done + 1].kind = "Compress" /\ current.messages[Done + 1].index = s
      BY <1>5, <1>12, <2>1
    <3> QED
      BY <1>3, <1>13, <3>1
  <2>5. /\ layout' = [code |-> layout'.code, start |-> layout'.start, shaders |-> layout'.shaders,
                      maps |-> layout'.maps]
        /\ layout'.code = l.code \o Result(s) /\ layout'.shaders = [l.shaders EXCEPT ![s] = place]
    BY <1>9, <2>3
  <2>6. /\ layout'.shaders = [x \in DOMAIN current.code |-> layout'.shaders[x]]
        /\ layout'.shaders[s] = place
        /\ \A x \in DOMAIN current.code : x # s => layout'.shaders[x] = l.shaders[x]
    BY <1>9, <2>4, <2>5
  <2>7. CodeUpTo[Done + 1] = layout'.code
    BY <1>7, <1>8, <1>12, <2>1, <2>5 DEF CodeOf
  <2>8. ASSUME NEW k \in 1..(Done + 1), current.messages[k].kind = "Compress"
        PROVE  layout'.shaders[current.messages[k].index] =
                 [offset |-> Len(CodeUpTo[k - 1]), size |-> Len(Result(current.messages[k].index)),
                  unique |-> current.messages[k].unique]
    <3>1. CASE k = Done + 1
      <4>1. k - 1 = Done
        BY <1>3, <3>1
      <4> QED
        BY <1>5, <1>7, <1>8, <2>1, <2>2, <2>6, <3>1, <4>1
    <3>2. CASE k # Done + 1
      <4>1. k \in 1..Done /\ k \in 1..Len(current.messages)
        BY <1>3, <3>2
      <4>2. current.messages[k].index \in DOMAIN current.code /\ current.messages[k].index # s
        <5>1. current.messages[Done + 1].kind = "Compress" /\ current.messages[Done + 1].index = s
          BY <1>5, <1>12, <2>1
        <5> QED
          BY <1>3, <1>13, <2>8, <3>2, <4>1, <5>1
      <4> QED
        BY <1>9, <2>6, <2>8, <4>1, <4>2, ZenonT(60)
    <3> QED
      BY <3>1, <3>2
  <2>9. WrittenSoFar'
    BY <1>3, <1>10, <2>5, <2>6, <2>7, <2>8 DEF WrittenSoFar
  <2> QED
    BY <1>6, <2>9
<1> QED
  BY <1>11, <1>12

\* The main thread writes the result of the first message, or drops all after an error.
LEMMA ReceiveKeeps == ASSUME NEW i \in DOMAIN working PROVE IInv /\ Receive(i) => IInv'
<1> SUFFICES ASSUME IInv, Receive(i) PROVE IInv'
  OBVIOUS
<1>1. /\ UNCHANGED <<game, toWrite, container, current, producer, sent>>
      /\ receiving /\ i = 1 /\ 1 \in DOMAIN working
  BY DEF Receive, MayReceive, InTurn
<1>2. CASE working[1].state = "failed"
  <2>1. receiving' = FALSE /\ channel' = <<>> /\ working' = <<>> /\ layout' = layout
    BY <1>1, <1>2 DEF Receive
  <2>2. AtRest'
    BY <1>1, <2>1, Zenon DEF IInv, AtRest, container
  <2>3. ASSUME WellFormed
        PROVE  OnTheWay' /\ WrittenSoFar'
    <3>1. OnTheWay
      BY <2>3, PipelineTypes
    <3>2. Len(channel') = 0 /\ Len(working') = 0 /\ channel' \in Seq(AnyMessage) /\ working' \in Seq(Taken)
      BY <2>1
    <3>3. OnTheWay'
      BY <1>1, <2>1, <3>1, <3>2, PipelineAssumption DEF OnTheWay
    <3>4. WrittenSoFar'
      BY <2>1 DEF WrittenSoFar
    <3> QED
      BY <3>3, <3>4
  <2> QED
    BY <1>1, <2>2, <2>3, SameLibrary DEF IInv
<1>3. CASE working[1].state # "failed"
  <2>1. /\ layout' = Written(working[1].message)
        /\ working' = SubSeq(working, 1, 1 - 1) \o SubSeq(working, 1 + 1, Len(working))
        /\ channel' = channel /\ receiving' = receiving
    BY <1>1, <1>3 DEF Receive, MayReceive
  <2>2. AtRest'
    BY <1>1, <2>1, Zenon DEF IInv, AtRest, container
  <2>3. WellFormed => OnTheWay' /\ WrittenSoFar'
    BY <1>1, <2>1, WriteOne
  <2> QED
    BY <1>1, <2>2, <2>3, SameLibrary DEF IInv
<1> QED
  BY <1>2, <1>3

\* A library ends, or the command does.
LEMMA EndKeeps == IInv /\ EndLibrary => IInv'
<1> SUFFICES ASSUME IInv, EndLibrary PROVE IInv'
  OBVIOUS
<1>1. /\ producer # "sending" /\ UNCHANGED <<game, toWrite, container>>
      /\ receiving => channel = <<>> /\ working = <<>>
  BY DEF EndLibrary, MayEnd
<1>2. CASE UNCHANGED <<rebuilt, current, pipeline>>
  <2>1. AtRest'
    BY <1>1, <1>2, Zenon DEF IInv, AtRest, container, pipeline
  <2> QED
    BY <1>1, <1>2, <2>1, PipelineUnchanged DEF IInv
<1>3. CASE ~UNCHANGED <<rebuilt, current, pipeline>>
  <2>1. /\ current' = NoArchive /\ sent' = 0 /\ receiving' = FALSE
        /\ producer' = producer /\ channel' = channel /\ working' = working
    BY <1>3 DEF EndLibrary
  <2>2. channel = <<>> /\ working = <<>>
    BY <1>1, Zenon DEF IInv, AtRest
  <2>3. AtRest'
    BY <1>1, <2>1, <2>2, Zenon DEF IInv, AtRest, container
  <2>4. OnTheWay'
    <3>1. current'.messages = <<>>
      BY <2>1, Zenon DEF NoArchive
    <3>5. sent' \in 0..0
      BY <2>1
    <3>2. channel' \in Seq(AnyMessage) /\ working' \in Seq(Taken) /\ Len(channel') = 0 /\ Len(working') = 0
          /\ Len(current'.messages) = 0
      BY <2>1, <2>2, <3>1
    <3>3. 0 <= ChannelSize /\ 0 <= Ahead
      BY PipelineAssumption
    <3>4. receiving' = FALSE
      BY <2>1
    <3> QED
      BY <3>2, <3>3, <3>4, <3>5 DEF OnTheWay
  <2>5. WrittenSoFar'
    BY <2>1 DEF WrittenSoFar
  <2> QED
    BY <2>3, <2>4, <2>5 DEF IInv
<1> QED
  BY <1>2, <1>3

\* Every step keeps the invariant.
LEMMA StepPipeline == IInv /\ [Next]_vars => IInv'
<1> SUFFICES ASSUME IInv, [Next]_vars PROVE IInv'
  OBVIOUS
<1>1. CASE ConvertLibrary
  BY <1>1, ConvertKeeps
<1>2. ASSUME NEW name \in DOMAIN archives, StartLibrary(name)
      PROVE  IInv'
  BY <1>2, StartKeeps
<1>3. CASE Send
  BY <1>3, SendKeeps
<1>4. CASE CloseChannel
  BY <1>4, CloseKeeps
<1>5. CASE Take
  BY <1>5, TakeKeeps
<1>6. ASSUME NEW i \in DOMAIN working, Work(i) \/ Receive(i)
      PROVE  IInv'
  BY <1>6, WorkKeeps, ReceiveKeeps
<1>7. CASE EndLibrary
  BY <1>7, EndKeeps
<1>8. CASE AllRebuilt \/ Ended \/ UNCHANGED vars
  <2>1. UNCHANGED <<game, toWrite, container, current, pipeline>>
    BY <1>8 DEF AllRebuilt, Ended, vars
  <2>2. AtRest'
    BY <2>1, Zenon DEF IInv, AtRest, container, pipeline
  <2> QED
    BY <2>1, <2>2, PipelineUnchanged DEF IInv
<1> QED
  BY <1>1, <1>2, <1>3, <1>4, <1>5, <1>6, <1>7, <1>8 DEF Next, Rebuild

\* For any games, channel and number of messages taken ahead, the pipeline
\* keeps its invariant.
THEOREM PipelineSafety == Spec => []IInv
<1> QED
  BY InitPipeline, StepPipeline, PTL DEF Spec

\* Whatever order the workers end in, what is written, in work and in the channel
\* is what was sent, the code of the shaders lies in the order of the messages,
\* and each where the layout says.
THEOREM OrderKept == Spec => []LaidOutInOrder
<1>1. IInv /\ Readable /\ WellFormed => LaidOutInOrder
  <2> SUFFICES ASSUME IInv, Readable, WellFormed, receiving PROVE LaidOutInOrder
    BY DEF LaidOutInOrder
  <2>1. /\ OnTheWay /\ WrittenSoFar /\ sent \in Nat
        /\ channel \in Seq(AnyMessage) /\ Len(channel) \in Nat
        /\ working \in Seq(Taken) /\ Len(working) \in Nat /\ Done \in Int
    BY PipelineTypes
  <2>2. PICK taken : taken = [i \in DOMAIN working |-> working[i].message]
    OBVIOUS
  <2>3. /\ taken \in Seq(AnyMessage) /\ Len(taken) = Len(working)
        /\ \A i \in 1..Len(working) : taken[i] = working[i].message
    <3>1. \A i \in 1..Len(working) : working[i].message \in AnyMessage
      <4>1. \A i \in 1..Len(working) : working[i] \in Taken
        BY <2>1
      <4> QED
        BY <4>1 DEF Taken
    <3>2. DOMAIN working = 1..Len(working)
      BY <2>1
    <3> QED
      BY <2>1, <2>2, <3>1, <3>2
  <2>4. PICK waiting : waiting = taken \o channel
    OBVIOUS
  <2>5. /\ waiting \in Seq(AnyMessage) /\ Len(waiting) = Len(working) + Len(channel)
        /\ \A i \in 1..Len(working) : waiting[i] = working[i].message
        /\ \A i \in 1..Len(channel) : waiting[Len(working) + i] = channel[i]
    <3>1. \A s, t \in Seq(AnyMessage) :
            /\ s \o t \in Seq(AnyMessage) /\ Len(s \o t) = Len(s) + Len(t)
            /\ \A i \in 1..Len(s) : (s \o t)[i] = s[i]
            /\ \A i \in 1..Len(t) : (s \o t)[Len(s) + i] = t[i]
      OBVIOUS
    <3>2. /\ waiting \in Seq(AnyMessage) /\ Len(waiting) = Len(taken) + Len(channel)
          /\ \A i \in 1..Len(taken) : waiting[i] = taken[i]
          /\ \A i \in 1..Len(channel) : waiting[Len(taken) + i] = channel[i]
      BY <2>1, <2>3, <2>4, <3>1
    <3> QED
      BY <2>3, <3>2
  <2>6. sent - Len(waiting) = Done
    BY <2>1, <2>5 DEF Done
  <2>7. ASSUME NEW i \in DOMAIN waiting
        PROVE  waiting[i] = current.messages[Done + i]
    <3>1. i \in 1..(Len(working) + Len(channel))
      BY <2>5
    <3>2. CASE i <= Len(working)
      <4>1. i \in 1..Len(working)
        BY <2>1, <3>1, <3>2
      <4> QED
        BY <2>1, <2>5, <4>1 DEF OnTheWay
    <3>3. CASE i > Len(working)
      <4>1. PICK j \in 1..Len(channel) : i = Len(working) + j
        <5>1. i - Len(working) \in 1..Len(channel) /\ i = Len(working) + (i - Len(working))
          BY <2>1, <3>1, <3>3
        <5> QED
          BY <5>1
      <4>2. Done + Len(working) + j = Done + i
        BY <2>1, <4>1
      <4>3. channel[j] = current.messages[Done + Len(working) + j]
        BY <2>1, <4>1 DEF OnTheWay
      <4> QED
        BY <2>5, <4>1, <4>2, <4>3
    <3> QED
      BY <2>1, <3>1, <3>2, <3>3
  <2>8. layout.code = CodeUpTo[Done]
    BY <2>1 DEF WrittenSoFar
  <2>9. \A k \in 1..Done : current.messages[k].kind = "Compress" =>
          layout.shaders[current.messages[k].index] =
            [offset |-> Len(CodeUpTo[k - 1]), size |-> Len(Result(current.messages[k].index)),
             unique |-> current.messages[k].unique]
    BY <2>1 DEF WrittenSoFar
  <2>10. producer = "sending" \/ sent = Len(current.messages)
    BY <2>1 DEF OnTheWay
  <2> QED
    BY <2>2, <2>4, <2>6, <2>7, <2>8, <2>9, <2>10 DEF LaidOutInOrder
<1> QED
  BY <1>1, PipelineSafety, EachSentOnce, AlwaysReadable, PTL

-----------------------------------------------------------------------------
(* The threads end.                                                        *)

\* Some thread can take a step.  The guards are those of the actions.
MayGoOn ==
  \/ MaySend \/ AllSent \/ MayTake \/ Running # {}
  \/ \E i \in DOMAIN working : MayReceive(i)
  \/ MayEnd

\* Producer, workers and main thread of a library that is rebuilt never all wait
\* for each other: one of them can go on or the scope can end, for any bounds of
\* the channel and of the messages taken ahead, and after an error too.
THEOREM NeverStuck == Spec => []MayGoOn
<1>1. IInv /\ WellFormed => MayGoOn
  <2> SUFFICES ASSUME IInv, WellFormed PROVE MayGoOn
    OBVIOUS
  <2>1. /\ OnTheWay /\ sent \in Nat /\ Len(current.messages) \in Nat /\ sent <= Len(current.messages)
        /\ channel \in Seq(AnyMessage) /\ Len(channel) \in Nat
        /\ working \in Seq(Taken) /\ Len(working) \in Nat
    BY PipelineTypes
  <2>2. CASE ~receiving
    <3>1. producer = "sending" => MaySend \/ AllSent
      BY <2>1, <2>2 DEF MaySend, AllSent
    <3>2. producer # "sending" => MayEnd
      BY <2>2 DEF MayEnd
    <3> QED
      BY <3>1, <3>2 DEF MayGoOn
  <2>3. CASE receiving /\ working # <<>>
    <3>1. 1 \in DOMAIN working
      BY <2>1, <2>3
    <3>2. 1 \notin Running => MayReceive(1)
      BY <2>3, <3>1 DEF MayReceive, InTurn
    <3> QED
      BY <3>1, <3>2 DEF MayGoOn
  <2>4. CASE receiving /\ working = <<>> /\ channel # <<>>
    <3>1. Len(working) < Ahead
      BY <2>4, PipelineAssumption
    <3> QED
      BY <2>4, <3>1 DEF MayGoOn, MayTake
  <2>5. CASE receiving /\ working = <<>> /\ channel = <<>>
    <3>1. Len(channel) < ChannelSize
      BY <2>5, PipelineAssumption
    <3>2. producer = "sending" => MaySend \/ AllSent
      BY <2>1, <3>1 DEF MaySend, AllSent
    <3>3. producer # "sending" => MayEnd
      BY <2>5 DEF MayEnd
    <3> QED
      BY <3>2, <3>3 DEF MayGoOn
  <2> QED
    BY <2>2, <2>3, <2>4, <2>5
<1> QED
  BY <1>1, PipelineSafety, EachSentOnce, PTL

\* How many steps the threads have left at most: a message is sent, taken, worked
\* on and received.
ToSend == Len(current.messages) - sent
Sending == IF producer = "sending" THEN 1 ELSE 0
Ending == IF current # NoArchive /\ result = "running" THEN 1 ELSE 0
StepsLeft ==
  4 * ToSend + 3 * Len(channel) + Len(working) + Cardinality(Running) + Sending + Ending

\* The workers run with finitely many messages.
LEMMA RunningFinite ==
  ASSUME IInv, WellFormed
  PROVE  IsFiniteSet(Running) /\ Cardinality(Running) \in Nat
<1>1. Len(working) \in Nat /\ DOMAIN working = 1..Len(working)
  BY PipelineTypes
<1>2. IsFiniteSet(1..Len(working))
  BY <1>1, FS_Interval
<1>3. IsFiniteSet(Running)
  BY <1>1, <1>2, FS_Subset DEF Running
<1> QED
  BY <1>3, FS_CardinalityType

\* The parts of StepsLeft are numbers, and it is less when they are.
LEMMA StepsCounted ==
  ASSUME IInv, WellFormed
  PROVE  /\ ToSend \in Nat /\ Len(channel) \in Nat /\ Len(working) \in Nat
         /\ Cardinality(Running) \in Nat /\ Sending \in Nat /\ Ending \in Nat /\ StepsLeft \in Nat
<1>1. /\ sent \in Nat /\ Len(current.messages) \in Nat /\ sent <= Len(current.messages)
      /\ Len(channel) \in Nat /\ Len(working) \in Nat
  BY PipelineTypes
<1>2. ToSend \in Nat
  BY <1>1 DEF ToSend
<1>3. Sending \in Nat /\ Ending \in Nat
  BY DEF Sending, Ending
<1>4. \A a, b, c, d, e, f \in Nat : 4 * a + 3 * b + c + d + e + f \in Nat
  OBVIOUS
<1>5. StepsLeft \in Nat
  BY <1>1, <1>2, <1>3, <1>4, RunningFinite DEF StepsLeft
<1> QED
  BY <1>1, <1>2, <1>3, <1>5, RunningFinite

\* A step of the producer brings the end nearer: a message sent has a send less to go,
\* and a failed send ends the producer.
LEMMA SendNears == ASSUME IInv, WellFormed, Send PROVE StepsLeft' < StepsLeft
<1>1. /\ sent \in Nat /\ Len(current.messages) \in Nat /\ producer = "sending"
      /\ channel \in Seq(AnyMessage) /\ Len(channel) \in Nat
  BY PipelineTypes DEF Send, MaySend
<1>2. UNCHANGED <<current, working, result>> /\ Running' = Running /\ Ending' = Ending
  BY DEF Send, Running, Ending
<1>3. CASE receiving
  <2>1. \A s \in Seq(AnyMessage) : \A e : Len(Append(s, e)) = Len(s) + 1
    OBVIOUS
  <2>2. Len(channel') = Len(channel) + 1 /\ sent' = sent + 1 /\ UNCHANGED producer
    BY <1>1, <1>3, <2>1 DEF Send
  <2>3. ToSend' = ToSend - 1 /\ Sending' = Sending
    BY <1>1, <1>2, <2>2 DEF ToSend, Sending
  <2>4. \A a, b, c, d, e, f \in Nat :
          4 * (a - 1) + 3 * (b + 1) + c + d + e + f < 4 * a + 3 * b + c + d + e + f
    OBVIOUS
  <2> QED
    BY <1>2, <2>2, <2>3, <2>4, StepsCounted, ZenonT(60) DEF StepsLeft
<1>4. CASE ~receiving
  <2>1. UNCHANGED <<channel, sent>> /\ producer' # "sending"
    BY <1>4 DEF Send
  <2>2. ToSend' = ToSend /\ Sending' = 0 /\ Sending = 1
    BY <1>1, <1>2, <2>1 DEF ToSend, Sending
  <2>3. \A a, b, c, d, f \in Nat :
          4 * a + 3 * b + c + d + 0 + f < 4 * a + 3 * b + c + d + 1 + f
    OBVIOUS
  <2> QED
    BY <1>2, <2>1, <2>2, <2>3, StepsCounted DEF StepsLeft
<1> QED
  BY <1>3, <1>4

\* Once the channel is closed the producer has no step left.
LEMMA CloseNears == ASSUME IInv, WellFormed, CloseChannel PROVE StepsLeft' < StepsLeft
<1>1. /\ UNCHANGED <<current, sent, channel, working, result>>
      /\ producer = "sending" /\ producer' = "closed"
  BY DEF CloseChannel, AllSent
<1>2. Running' = Running /\ Ending' = Ending /\ ToSend' = ToSend /\ Sending' = 0 /\ Sending = 1
  BY <1>1 DEF Running, Ending, ToSend, Sending
<1>3. \A a, b, c, d, f \in Nat :
        4 * a + 3 * b + c + d + 0 + f < 4 * a + 3 * b + c + d + 1 + f
  OBVIOUS
<1> QED
  BY <1>1, <1>2, <1>3, StepsCounted DEF StepsLeft

\* A message taken has left the channel for good.
LEMMA TakeNears == ASSUME IInv, WellFormed, Take PROVE StepsLeft' < StepsLeft
<1>1. /\ channel \in Seq(AnyMessage) /\ Len(channel) \in Nat
      /\ working \in Seq(Taken) /\ Len(working) \in Nat
      /\ IsFiniteSet(Running) /\ Cardinality(Running) \in Nat
  BY PipelineTypes, RunningFinite
<1>2. UNCHANGED <<current, sent, producer, result>> /\ channel # <<>> /\ channel' = Tail(channel)
  BY DEF Take, MayTake
<1>3. PICK taken : taken = [message |-> Head(channel), state |-> "running"]
  OBVIOUS
<1>4. working' = Append(working, taken) /\ taken.state = "running"
  BY <1>3 DEF Take
<1>5. Len(channel') = Len(channel) - 1 /\ Len(working') = Len(working) + 1
  <2>1. \A s \in Seq(Taken) : \A e : Len(Append(s, e)) = Len(s) + 1
    OBVIOUS
  <2>2. \A s \in Seq(AnyMessage) : s # <<>> => Len(Tail(s)) = Len(s) - 1
    OBVIOUS
  <2> QED
    BY <1>1, <1>2, <1>4, <2>1, <2>2
<1>6. Running' = Running \cup {Len(working) + 1} /\ Len(working) + 1 \notin Running
  <2>1. DOMAIN working = 1..Len(working) /\ DOMAIN working' = 1..(Len(working) + 1)
    BY <1>1, <1>4
  <2>2. /\ working'[Len(working) + 1] = taken
        /\ \A i \in 1..Len(working) : working'[i] = working[i]
    BY <1>1, <1>4
  <2>3. 1..(Len(working) + 1) = 1..Len(working) \cup {Len(working) + 1}
        /\ Len(working) + 1 \notin 1..Len(working)
    BY <1>1
  <2> QED
    BY <1>4, <2>1, <2>2, <2>3 DEF Running
<1>7. Cardinality(Running') = Cardinality(Running) + 1
  BY <1>1, <1>6, FS_AddElement
<1>8. ToSend' = ToSend /\ Sending' = Sending /\ Ending' = Ending
  BY <1>2 DEF ToSend, Sending, Ending
<1>9. \A a, b, c, d, e, f \in Nat :
        4 * a + 3 * (b - 1) + (c + 1) + (d + 1) + e + f < 4 * a + 3 * b + c + d + e + f
  OBVIOUS
<1> QED
  BY <1>5, <1>7, <1>8, <1>9, StepsCounted, ZenonT(60) DEF StepsLeft

\* A worker that ends runs no more.
LEMMA WorkNears ==
  ASSUME IInv, WellFormed, NEW i \in DOMAIN working, Work(i) PROVE StepsLeft' < StepsLeft
<1>1. /\ working \in Seq(Taken) /\ Len(working) \in Nat /\ DOMAIN working = 1..Len(working)
      /\ IsFiniteSet(Running) /\ Cardinality(Running) \in Nat
  BY PipelineTypes, RunningFinite
<1>2. UNCHANGED <<current, sent, producer, channel, result>> /\ i \in Running
  BY DEF Work
<1>3. PICK state \in {"done", "failed"} : working' = [working EXCEPT ![i].state = state]
  BY DEF Work
<1>4. PICK taken : taken = [working[i] EXCEPT !.state = state]
  OBVIOUS
<1>a. working[i] \in Taken
  BY <1>1
<1>5. taken \in Taken /\ taken.state = state
  BY <1>a, <1>4 DEF Taken
<1>6. working' = [working EXCEPT ![i] = taken]
  BY <1>3, <1>4
<1>7. /\ Len(working') = Len(working) /\ DOMAIN working' = DOMAIN working
      /\ \A j \in DOMAIN working : working'[j] = IF j = i THEN taken ELSE working[j]
  BY <1>1, <1>5, <1>6
<1>8. Running' = Running \ {i}
  BY <1>5, <1>7 DEF Running
<1>9. Cardinality(Running') = Cardinality(Running) - 1
  BY <1>1, <1>2, <1>8, FS_RemoveElement
<1>10. ToSend' = ToSend /\ Sending' = Sending /\ Ending' = Ending
  BY <1>2 DEF ToSend, Sending, Ending
<1>11. \A a, b, c, d, e, f \in Nat :
         4 * a + 3 * b + c + (d - 1) + e + f < 4 * a + 3 * b + c + d + e + f
  OBVIOUS
<1> QED
  BY <1>2, <1>7, <1>9, <1>10, <1>11, StepsCounted DEF StepsLeft

\* A result received, or everything dropped, leaves less work.
LEMMA ReceiveNears ==
  ASSUME IInv, WellFormed, NEW i \in DOMAIN working, Receive(i) PROVE StepsLeft' < StepsLeft
<1>1. /\ working \in Seq(Taken) /\ Len(working) \in Nat /\ DOMAIN working = 1..Len(working)
      /\ IsFiniteSet(Running) /\ Cardinality(Running) \in Nat
  BY PipelineTypes, RunningFinite
<1>2. /\ UNCHANGED <<current, sent, producer, result>> /\ i = 1 /\ 1 \notin Running
      /\ Len(working) >= 1
  BY <1>1 DEF Receive, MayReceive, InTurn
<1>3. ToSend' = ToSend /\ Sending' = Sending /\ Ending' = Ending
  BY <1>2 DEF ToSend, Sending, Ending
<1>4. CASE working[i].state = "failed"
  <2>1. channel' = <<>> /\ working' = <<>>
    BY <1>4 DEF Receive
  <2>2. Len(channel') = 0 /\ Len(working') = 0 /\ Running' = {}
    BY <2>1 DEF Running
  <2>3. Cardinality(Running') = 0
    BY <2>2, FS_EmptySet
  <2>4. \A a, b, c, d, e, f \in Nat :
          c >= 1 => 4 * a + 3 * 0 + 0 + 0 + e + f < 4 * a + 3 * b + c + d + e + f
    OBVIOUS
  <2> QED
    BY <1>2, <1>3, <2>2, <2>3, <2>4, StepsCounted, ZenonT(60) DEF StepsLeft
<1>5. CASE working[i].state # "failed"
  <2>1. channel' = channel /\ working' = SubSeq(working, 1, 0) \o SubSeq(working, 2, Len(working))
    BY <1>2, <1>5 DEF Receive
  <2>2. /\ Len(working') = Len(working) - 1 /\ DOMAIN working' = 1..(Len(working) - 1)
        /\ \A j \in 1..(Len(working) - 1) : working'[j] = working[j + 1]
    BY <1>1, <1>2, <2>1
  <2>3. PICK f : f = [j \in Running |-> j - 1]
    OBVIOUS
  <2>4. \A j : j \in Running' <=> j \in 1..(Len(working) - 1) /\ j + 1 \in Running
    <3>1. \A j \in 1..(Len(working) - 1) : j + 1 \in DOMAIN working
      BY <1>1
    <3> QED
      BY <2>2, <3>1 DEF Running
  <2>5. \A j \in Running : j \in 2..Len(working)
    BY <1>1, <1>2 DEF Running
  <2>6. f \in Surjection(Running, Running')
    <3>1. \A j \in Running : j - 1 \in 1..(Len(working) - 1) /\ (j - 1) + 1 = j
      BY <1>1, <2>5
    <3>2. f \in [Running -> Running']
      BY <2>3, <2>4, <3>1
    <3>3. \A j \in Running' : j + 1 \in Running /\ f[j + 1] = j
      BY <1>1, <2>3, <2>4
    <3> QED
      BY <3>2, <3>3 DEF Surjection
  <2>7. Cardinality(Running') <= Cardinality(Running) /\ Cardinality(Running') \in Nat
    <3>1. IsFiniteSet(Running') /\ Cardinality(Running') <= Cardinality(Running)
      BY <1>1, <2>6, FS_Surjection
    <3> QED
      BY <3>1, FS_CardinalityType
  <2>8. \A a, b, c, d, e, f0, g \in Nat :
          g <= d => 4 * a + 3 * b + (c - 1) + g + e + f0 < 4 * a + 3 * b + c + d + e + f0
    OBVIOUS
  <2> QED
    BY <1>3, <2>1, <2>2, <2>7, <2>8, StepsCounted, ZenonT(60) DEF StepsLeft
<1> QED
  BY <1>4, <1>5

\* The end of a library is its last step.
LEMMA EndNears == ASSUME IInv, WellFormed, EndLibrary PROVE StepsLeft' < StepsLeft
<1>1. producer # "sending" /\ UNCHANGED <<producer, channel, working>> /\ Ending = 1
  BY DEF EndLibrary, MayEnd, Ending, pipeline
<1>2. Running' = Running /\ Sending' = Sending
  BY <1>1 DEF Running, Sending
<1>3. ToSend' \in Nat /\ ToSend' <= ToSend /\ Ending' = 0
  <2>1. CASE UNCHANGED current
    <3>1. UNCHANGED sent /\ result' # "running"
      <4>1. current # NoArchive
        BY DEF EndLibrary
      <4> QED
        BY <2>1, <4>1 DEF EndLibrary, pipeline
    <3> QED
      BY <2>1, <3>1, StepsCounted DEF ToSend, Ending
  <2>2. CASE ~UNCHANGED current
    <3>1. current' = NoArchive /\ sent' = 0
      BY <2>2 DEF EndLibrary
    <3>2. Len(NoArchive.messages) = 0
      BY DEF NoArchive
    <3>3. ToSend' = 0 /\ Ending' = 0
      BY <3>1, <3>2 DEF ToSend, Ending
    <3> QED
      BY <3>3, StepsCounted
  <2> QED
    BY <2>1, <2>2
<1>4. \A a, b, c, d, e, a2 \in Nat :
        a2 <= a => 4 * a2 + 3 * b + c + d + e + 0 < 4 * a + 3 * b + c + d + e + 1
  OBVIOUS
<1> QED
  BY <1>1, <1>2, <1>3, <1>4, StepsCounted DEF StepsLeft

\* Every step of the threads brings the end of the library nearer: there is no
\* rebuild of a library that goes on for ever, for any bounds of the pipeline.
THEOREM EveryStepNears ==
  Spec => [][Rebuild => StepsLeft \in Nat /\ StepsLeft' < StepsLeft]_vars
<1>1. IInv /\ WellFormed /\ [Next]_vars =>
        [Rebuild => StepsLeft \in Nat /\ StepsLeft' < StepsLeft]_vars
  <2> SUFFICES ASSUME IInv, Rebuild, WellFormed
               PROVE  StepsLeft \in Nat /\ StepsLeft' < StepsLeft
    OBVIOUS
  <2>1. StepsLeft \in Nat
    BY StepsCounted
  <2>2. StepsLeft' < StepsLeft
    BY SendNears, CloseNears, TakeNears, WorkNears, ReceiveNears, EndNears DEF Rebuild
  <2> QED
    BY <2>1, <2>2
<1> QED
  BY <1>1, PipelineSafety, EachSentOnce, PTL DEF Spec

-----------------------------------------------------------------------------
(* What a rebuild leaves.                                                  *)

\* The first and the second part of two sequences put together.
LEMMA SecondPart ==
  ASSUME NEW S, NEW a \in Seq(S), NEW b \in Seq(S)
  PROVE  SubSeq(a \o b, Len(a) + 1, Len(a) + Len(b)) = b
<1>1. /\ a \o b \in Seq(S) /\ Len(a \o b) = Len(a) + Len(b) /\ Len(a) \in Nat /\ Len(b) \in Nat
      /\ \A i \in 1..Len(b) : (a \o b)[Len(a) + i] = b[i]
  OBVIOUS
<1>2. PICK part : part = SubSeq(a \o b, Len(a) + 1, Len(a) + Len(b))
  OBVIOUS
<1>3. /\ part \in Seq(S) /\ Len(part) = Len(b)
      /\ \A i \in 1..Len(b) : part[i] = (a \o b)[Len(a) + i]
  BY <1>1, <1>2
<1> QED
  BY <1>1, <1>2, <1>3

\* So it is with a part of the first.
LEMMA PartOfFirst ==
  ASSUME NEW S, NEW a \in Seq(S), NEW b \in Seq(S),
         NEW i \in 1..(Len(a) + 1), NEW j \in (i - 1)..Len(a)
  PROVE  SubSeq(a \o b, i, j) = SubSeq(a, i, j)
<1>1. /\ a \o b \in Seq(S) /\ Len(a \o b) = Len(a) + Len(b) /\ Len(a) \in Nat /\ Len(b) \in Nat
      /\ \A k \in 1..Len(a) : (a \o b)[k] = a[k]
  OBVIOUS
<1>2. PICK whole : whole = SubSeq(a \o b, i, j)
  OBVIOUS
<1>3. PICK part : part = SubSeq(a, i, j)
  OBVIOUS
<1>4. /\ whole \in Seq(S) /\ Len(whole) = j - i + 1
      /\ \A k \in 1..(j - i + 1) : whole[k] = (a \o b)[i + k - 1]
  BY <1>1, <1>2
<1>5. /\ part \in Seq(S) /\ Len(part) = j - i + 1
      /\ \A k \in 1..(j - i + 1) : part[k] = a[i + k - 1]
  BY <1>1, <1>3
<1>6. \A k \in 1..(j - i + 1) : i + k - 1 \in 1..Len(a)
  BY <1>1
<1>7. \A k \in 1..(j - i + 1) : whole[k] = part[k]
  BY <1>1, <1>4, <1>5, <1>6
<1>8. PICK n : n = j - i + 1
  OBVIOUS
<1>9. whole = part
  <2>1. whole \in [1..n -> S] /\ part \in [1..n -> S]
    <3>1. \A s \in Seq(S) : s \in [1..Len(s) -> S]
      OBVIOUS
    <3> QED
      BY <1>4, <1>5, <1>8, <3>1
  <2>2. PICK X : X = 1..n
    OBVIOUS
  <2>3. whole \in [X -> S] /\ part \in [X -> S] /\ \A k \in X : whole[k] = part[k]
    BY <1>7, <1>8, <2>1, <2>2
  <2>4. whole = [k \in X |-> whole[k]] /\ part = [k \in X |-> part[k]]
    BY <2>3
  <2>5. [k \in X |-> whole[k]] = [k \in X |-> part[k]]
    BY <2>3
  <2> QED
    BY <2>4, <2>5
<1> QED
  BY <1>2, <1>3, <1>9

\* The code of message k, in code that has it and perhaps more.
Lies(k, code) ==
  LET at == Len(CodeUpTo[k - 1])
      size == Len(CodeOf(current.messages[k]))
  IN  at + size <= Len(code) /\ SubSeq(code, at + 1, at + size) = CodeOf(current.messages[k])

\* The code of a message stays where it was written.
LEMMA CodeStays ==
  ASSUME WellFormed, NEW k \in 1..Len(current.messages), NEW n \in k..Len(current.messages)
  PROVE  Lies(k, CodeUpTo[n])
<1> DEFINE N == Len(current.messages)
           T == {m \in k..N : ~Lies(k, CodeUpTo[m])}
<1>a. /\ N \in Nat
      /\ CodeUpTo \in [0..N -> Seq(CodeBytes)]
      /\ \A m \in 1..N : CodeUpTo[m] = CodeUpTo[m - 1] \o CodeOf(current.messages[m])
  BY CodeByMessage
<1>b. k \in 1..N /\ k - 1 \in 0..N /\ k \in Nat
  BY <1>a
<1>1. /\ N \in Nat /\ k \in 1..N /\ k - 1 \in 0..N /\ k \in Nat
      /\ CodeUpTo \in [0..N -> Seq(CodeBytes)]
      /\ \A m \in 1..N : CodeUpTo[m] = CodeUpTo[m - 1] \o CodeOf(current.messages[m])
  BY <1>a, <1>b, Zenon
<1>2. ASSUME NEW m \in 1..N
      PROVE  CodeOf(current.messages[m]) \in Seq(CodeBytes)
  <2>1. m \in DOMAIN current.messages
    BY DEF WellFormed
  <2>2. CASE current.messages[m].kind = "Compress"
    <3>1. current.messages[m].index \in DOMAIN current.code
      BY <2>1, <2>2 DEF WellFormed
    <3>2. Result(current.messages[m].index) \in Seq(CodeBytes)
      BY <3>1 DEF WellFormed
    <3> QED
      BY <2>2, <3>2 DEF CodeOf
  <2>3. CASE current.messages[m].kind # "Compress"
    BY <2>3 DEF CodeOf
  <2> QED
    BY <2>2, <2>3
<1>3. PICK at : at = CodeUpTo[k - 1]
  OBVIOUS
<1>4. PICK own : own = CodeOf(current.messages[k])
  OBVIOUS
<1>5. at \in Seq(CodeBytes) /\ own \in Seq(CodeBytes) /\ CodeUpTo[k] = at \o own
  BY <1>1, <1>2, <1>3, <1>4
<1>6. \A code : Lies(k, code) <=>
        Len(at) + Len(own) <= Len(code) /\ SubSeq(code, Len(at) + 1, Len(at) + Len(own)) = own
  BY <1>3, <1>4 DEF Lies
<1>7. ASSUME T # {}
      PROVE  FALSE
  <2>1. T \subseteq Nat
    BY <1>1
  <2>2. PICK m \in T : \A j \in T : m <= j
    BY <1>7, <2>1, LeastNumber
  <2>3. m \in k..N /\ ~Lies(k, CodeUpTo[m])
    OBVIOUS
  <2>4. CASE m = k
    <3>1. Len(at \o own) = Len(at) + Len(own) /\ Len(at) \in Nat /\ Len(own) \in Nat
      BY <1>5
    <3>2. SubSeq(at \o own, Len(at) + 1, Len(at) + Len(own)) = own
      BY <1>5, SecondPart
    <3>3. Len(at) + Len(own) <= Len(at \o own)
      BY <3>1
    <3>4. Lies(k, at \o own)
      BY <1>6, <3>2, <3>3
    <3>5. Lies(k, CodeUpTo[m])
      BY <1>5, <2>4, <3>4
    <3> QED
      BY <2>3, <3>5
  <2>5. CASE m # k
    <3>1. m - 1 \in k..N /\ m \in 1..N /\ m - 1 \in 0..N /\ ~(m <= m - 1)
      BY <1>1, <2>3, <2>5
    <3>2. Lies(k, CodeUpTo[m - 1])
      BY <2>2, <3>1
    <3>3. PICK before : before = CodeUpTo[m - 1]
      OBVIOUS
    <3>4. PICK more : more = CodeOf(current.messages[m])
      OBVIOUS
    <3>5. before \in Seq(CodeBytes) /\ more \in Seq(CodeBytes) /\ CodeUpTo[m] = before \o more
      BY <1>1, <1>2, <3>1, <3>3, <3>4
    <3>6. Len(at) + Len(own) <= Len(before)
          /\ SubSeq(before, Len(at) + 1, Len(at) + Len(own)) = own
      BY <1>6, <3>2, <3>3
    <3>7. Len(at) \in Nat /\ Len(own) \in Nat /\ Len(before) \in Nat
          /\ Len(before \o more) = Len(before) + Len(more) /\ Len(more) \in Nat
      BY <1>5, <3>5
    <3>8. Len(at) + 1 \in 1..(Len(before) + 1)
          /\ Len(at) + Len(own) \in ((Len(at) + 1) - 1)..Len(before)
      BY <3>6, <3>7
    <3>9. SubSeq(before \o more, Len(at) + 1, Len(at) + Len(own)) = own
      BY <3>5, <3>6, <3>8, PartOfFirst
    <3>10. Len(at) + Len(own) <= Len(before \o more)
      BY <3>6, <3>7
    <3>11. Lies(k, CodeUpTo[m])
      BY <1>6, <3>5, <3>9, <3>10
    <3> QED
      BY <2>3, <3>11
  <2> QED
    BY <2>4, <2>5
<1>8. n \in k..N
  OBVIOUS
<1> QED
  BY <1>7, <1>8

\* When producer and receiver are through without an error, every shader has its
\* code where the layout says.
EveryShaderWritten ==
  receiving /\ MayEnd =>
    \A s \in DOMAIN current.code :
      LET region == layout.shaders[s]
      IN  /\ region.offset \in Nat /\ region.size = Len(Result(s))
          /\ SubSeq(layout.code, region.offset + 1, region.offset + region.size) = Result(s)

\* So it is by the invariant.
LEMMA AllWritten == ASSUME IInv, WellFormed PROVE EveryShaderWritten
<1> SUFFICES ASSUME receiving, MayEnd, NEW s \in DOMAIN current.code
             PROVE  /\ layout.shaders[s].offset \in Nat /\ layout.shaders[s].size = Len(Result(s))
                    /\ SubSeq(layout.code, layout.shaders[s].offset + 1,
                              layout.shaders[s].offset + layout.shaders[s].size) = Result(s)
  BY DEF EveryShaderWritten
<1> DEFINE N == Len(current.messages)
<1>1. OnTheWay /\ WrittenSoFar /\ sent \in Nat /\ N \in Nat
  BY PipelineTypes
<1>2. producer # "sending" /\ channel = <<>> /\ working = <<>>
  BY DEF MayEnd
<1>3. sent = N
  BY <1>1, <1>2 DEF OnTheWay
<1>4. Done = N
  <2>1. Len(channel) = 0 /\ Len(working) = 0
    BY <1>2
  <2> QED
    BY <1>1, <1>3, <2>1 DEF Done
<1>5. PICK k \in 1..N : current.messages[k].kind = "Compress" /\ current.messages[k].index = s
  <2>1. DOMAIN current.messages = 1..N
    BY DEF WellFormed
  <2> QED
    BY <2>1 DEF WellFormed
<1>6. CodeOf(current.messages[k]) = Result(s)
  BY <1>5 DEF CodeOf
<1>7. layout.code = CodeUpTo[N]
  BY <1>1, <1>4 DEF WrittenSoFar
<1>8. layout.shaders[s].offset = Len(CodeUpTo[k - 1]) /\ layout.shaders[s].size = Len(Result(s))
  <2>1. layout.shaders[s] = [offset |-> Len(CodeUpTo[k - 1]), size |-> Len(Result(s)),
                             unique |-> current.messages[k].unique]
    BY <1>1, <1>4, <1>5 DEF WrittenSoFar
  <2> QED
    BY <2>1
<1>9. Lies(k, CodeUpTo[N])
  <2>1. N \in k..N
    BY <1>1
  <2> QED
    BY <2>1, CodeStays
<1>10. Len(CodeUpTo[k - 1]) \in Nat
  <2>1. k - 1 \in 0..N
    BY <1>1
  <2>2. CodeUpTo[k - 1] \in Seq(CodeBytes)
    BY <2>1, CodeByMessage
  <2> QED
    BY <2>2
<1>11. layout.shaders[s].offset \in Nat
  BY <1>8, <1>10
<1> QED
  BY <1>6, <1>7, <1>8, <1>9, <1>11 DEF Lies

\* No shader of a library that ends without an error is missing, and what lies in
\* its region is its own code, whole, and not that of another: the part of
\* CodeSurvives that rests on the order of the threads.
THEOREM NoShaderLost == Spec => []EveryShaderWritten
<1>1. IInv /\ WellFormed => EveryShaderWritten
  BY AllWritten
<1> QED
  BY <1>1, PipelineSafety, EachSentOnce, PTL

-----------------------------------------------------------------------------
(* What a rebuild fails for.                                               *)

\* A failed message, and a receiver that is dropped, are there only where
\* something is compressed; the command fails in a rebuild only after that.
FailedJustly ==
  WellFormed =>
    /\ \A i \in DOMAIN working : working[i].state = "failed" => Compressing
    /\ current # NoArchive /\ ~receiving => Compressing
    /\ current # NoArchive /\ toWrite = <<>> /\ result \in {"error", "panic"} => ~receiving

\* Steps that leave the library alone keep what it compresses.
LEMMA SameCompression ==
  ASSUME game' = game, current' = current
  PROVE  Compressing' = Compressing /\ WellFormed' = WellFormed
<1>1. Compressing' = Compressing
  BY DEF Compressing
<1> QED
  BY <1>1, SameLibrary

\* Steps that leave the library and the workers alone, and end the command only
\* where no library is rebuilt, keep FailedJustly.
LEMMA FailedJustlyUnchanged ==
  ASSUME FailedJustly, UNCHANGED <<game, current, working, receiving>>,
         \/ UNCHANGED <<toWrite, result>>
         \/ current = NoArchive
         \/ toWrite # <<>> /\ UNCHANGED toWrite
         \/ result = "running" /\ UNCHANGED result
  PROVE  FailedJustly'
<1>1. Compressing' = Compressing /\ WellFormed' = WellFormed
  BY SameCompression
<1> QED
  BY <1>1 DEF FailedJustly

\* Only a compression that may fail does, so a failed message is one of a library
\* that is compressed, and so is one whose receiver is dropped.
LEMMA WorkFailsJustly ==
  ASSUME IInv, FailedJustly, WellFormed, NEW i \in DOMAIN working, Work(i) PROVE FailedJustly'
<1>1. UNCHANGED <<game, toWrite, current, receiving, result>>
  BY DEF Work
<1>2. Compressing' = Compressing /\ WellFormed' = WellFormed
  BY <1>1, SameCompression
<1>3. PICK state \in {"done", "failed"} :
        /\ state = "failed" => Compressing
        /\ working' = [working EXCEPT ![i].state = state]
  BY DEF Work
<1>4. PICK taken : taken = [working[i] EXCEPT !.state = state]
  OBVIOUS
<1>5. working \in Seq(Taken) /\ working[i] \in Taken
  BY PipelineTypes
<1>6. taken.state = state
  BY <1>4, <1>5 DEF Taken
<1>7. working' = [working EXCEPT ![i] = taken]
  BY <1>3, <1>4
<1>8. ASSUME NEW j \in DOMAIN working', working'[j].state = "failed"
      PROVE  Compressing
  <2>1. j \in DOMAIN working /\ working'[j] = IF j = i THEN taken ELSE working[j]
    BY <1>5, <1>7
  <2> QED
    BY <1>3, <1>6, <1>8, <2>1 DEF FailedJustly
<1> QED
  BY <1>1, <1>2, <1>8 DEF FailedJustly

\* The message whose failure drops the receiver is one of them.
LEMMA ReceiveFailsJustly ==
  ASSUME IInv, FailedJustly, WellFormed, NEW i \in DOMAIN working, Receive(i) PROVE FailedJustly'
<1>1. UNCHANGED <<game, toWrite, current, result>> /\ receiving /\ i = 1
  BY DEF Receive, MayReceive, InTurn
<1>2. Compressing' = Compressing /\ WellFormed' = WellFormed
  BY <1>1, SameCompression
<1>3. CASE working[i].state = "failed"
  <2>1. receiving' = FALSE /\ working' = <<>>
    BY <1>3 DEF Receive
  <2>2. Compressing
    BY <1>3 DEF FailedJustly
  <2> QED
    BY <1>2, <2>1, <2>2 DEF FailedJustly
<1>4. CASE working[i].state # "failed"
  <2>1. /\ receiving' = receiving
        /\ working' = SubSeq(working, 1, 0) \o SubSeq(working, 2, Len(working))
    BY <1>1, <1>4 DEF Receive
  <2>2. working \in Seq(Taken) /\ Len(working) \in Nat /\ Len(working) >= 1
    <3>1. working \in Seq(Taken) /\ Len(working) \in Nat
      BY PipelineTypes
    <3> QED
      BY <1>1, <3>1
  <2>3. \A j \in DOMAIN working' : j + 1 \in DOMAIN working /\ working'[j] = working[j + 1]
    BY <2>1, <2>2
  <2>4. \A j \in DOMAIN working' : working'[j].state = "failed" => Compressing
    BY <2>3 DEF FailedJustly
  <2> QED
    BY <1>1, <1>2, <2>1, <2>4 DEF FailedJustly
<1> QED
  BY <1>3, <1>4

\* A library ends with an error only without its receiver: otherwise the producer
\* has not panicked and every shader is written.
LEMMA EndFailsJustly ==
  ASSUME IInv, FailedJustly, EndLibrary PROVE FailedJustly'
<1>1. UNCHANGED <<game, toWrite>> /\ MayEnd /\ current # NoArchive
  BY DEF EndLibrary
<1>2. CASE UNCHANGED <<current, pipeline>>
  <2>1. UNCHANGED <<game, current, working, receiving>> /\ Compressing' = Compressing
        /\ WellFormed' = WellFormed
    <3>1. UNCHANGED <<game, current, working, receiving>>
      BY <1>1, <1>2 DEF pipeline
    <3> QED
      BY <3>1, SameCompression
  <2>2. ASSUME WellFormed, receiving
        PROVE  FALSE
    <3>1. OnTheWay /\ WrittenSoFar /\ EveryShaderWritten
      BY <2>2, PipelineTypes, AllWritten
    <3>2. producer # "panicked"
      BY <2>2, <3>1 DEF OnTheWay
    <3>3. \A s \in DOMAIN layout.shaders : ~(layout.shaders[s].offset < 0)
      <4>1. DOMAIN layout.shaders = DOMAIN current.code
        BY <2>2, <3>1 DEF WrittenSoFar
      <4>2. \A k \in Nat : ~(k < 0)
        OBVIOUS
      <4>3. \A s \in DOMAIN current.code : layout.shaders[s].offset \in Nat
        BY <1>1, <2>2, <3>1 DEF EveryShaderWritten
      <4> QED
        BY <4>1, <4>2, <4>3
    <3>4. current' = NoArchive
      BY <2>2, <3>2, <3>3 DEF EndLibrary
    <3> QED
      BY <1>1, <1>2, <3>4
  <2> QED
    BY <2>1, <2>2 DEF FailedJustly
<1>3. CASE ~UNCHANGED <<current, pipeline>>
  <2>1. current' = NoArchive /\ UNCHANGED working
    BY <1>3 DEF EndLibrary
  <2>2. working = <<>>
    BY <1>1, Zenon DEF IInv, AtRest, MayEnd
  <2> QED
    BY <2>1, <2>2 DEF FailedJustly
<1> QED
  BY <1>2, <1>3

\* Every step keeps FailedJustly.
LEMMA StepFailsJustly == IInv /\ FailedJustly /\ [Next]_vars => FailedJustly'
<1> SUFFICES ASSUME IInv, FailedJustly, [Next]_vars PROVE FailedJustly'
  OBVIOUS
<1>1. CASE ConvertLibrary
  <2>1. UNCHANGED <<game, current, working, receiving>> /\ toWrite # <<>> /\ result = "running"
    BY <1>1 DEF ConvertLibrary, pipeline
  <2>2. UNCHANGED toWrite \/ UNCHANGED result
    BY <1>1 DEF ConvertLibrary
  <2> QED
    BY <2>1, <2>2, FailedJustlyUnchanged
<1>2. CASE \E name \in DOMAIN archives : StartLibrary(name)
  <2>1. PICK name \in DOMAIN archives : StartLibrary(name)
    BY <1>2
  <2>2. current = NoArchive /\ ~receiving /\ working = <<>> /\ UNCHANGED game
    BY <2>1, Zenon DEF StartLibrary, IInv, AtRest
  <2>3. CASE UNCHANGED <<current, pipeline>>
    <3>1. UNCHANGED <<game, current, working, receiving>>
      BY <2>2, <2>3 DEF pipeline
    <3> QED
      BY <2>2, <3>1, FailedJustlyUnchanged
  <2>4. CASE ~UNCHANGED <<current, pipeline>>
    <3>1. receiving' = TRUE /\ UNCHANGED <<working, result>> /\ result = "running"
      BY <2>1, <2>4 DEF StartLibrary
    <3> QED
      BY <2>2, <3>1 DEF FailedJustly
  <2> QED
    BY <2>3, <2>4
<1>3. CASE Send
  <2>1. UNCHANGED <<game, current, working, receiving, toWrite, result>>
    BY <1>3 DEF Send
  <2> QED
    BY <2>1, FailedJustlyUnchanged
<1>4. CASE CloseChannel
  <2>1. UNCHANGED <<game, current, working, receiving, toWrite, result>>
    BY <1>4 DEF CloseChannel
  <2> QED
    BY <2>1, FailedJustlyUnchanged
<1>5. CASE Take
  <2>1. UNCHANGED <<game, current, toWrite, receiving, result>>
    BY <1>5 DEF Take
  <2>2. Compressing' = Compressing /\ WellFormed' = WellFormed
    BY <2>1, SameCompression
  <2>3. ASSUME WellFormed, NEW i \in DOMAIN working', working'[i].state = "failed"
        PROVE  Compressing
    <3>1. PICK taken : taken = [message |-> Head(channel), state |-> "running"]
      OBVIOUS
    <3>2. working' = Append(working, taken) /\ taken.state # "failed"
      BY <1>5, <3>1 DEF Take
    <3>3. working \in Seq(Taken)
      BY <2>3, PipelineTypes
    <3>4. i \in DOMAIN working /\ working'[i] = working[i]
      BY <2>3, <3>2, <3>3
    <3> QED
      BY <2>3, <3>4 DEF FailedJustly
  <2> QED
    BY <2>1, <2>2, <2>3 DEF FailedJustly
<1>6. ASSUME NEW i \in DOMAIN working, Work(i) \/ Receive(i)
      PROVE  FailedJustly'
  <2>1. UNCHANGED <<game, current>>
    BY <1>6 DEF Work, Receive
  <2>2. WellFormed' = WellFormed
    BY <2>1, SameCompression
  <2> QED
    BY <1>6, <2>2, WorkFailsJustly, ReceiveFailsJustly DEF FailedJustly
<1>7. CASE EndLibrary
  BY <1>7, EndFailsJustly
<1>8. CASE AllRebuilt
  <2>1. UNCHANGED <<game, current, working, receiving>> /\ current = NoArchive
    BY <1>8 DEF AllRebuilt, pipeline
  <2> QED
    BY <2>1, FailedJustlyUnchanged
<1>9. CASE UNCHANGED vars
  <2>1. UNCHANGED <<game, current, working, receiving, toWrite, result>>
    BY <1>9 DEF vars, pipeline
  <2> QED
    BY <2>1, FailedJustlyUnchanged
<1> QED
  BY <1>1, <1>2, <1>3, <1>4, <1>5, <1>6, <1>7, <1>8, <1>9 DEF Next, Rebuild, Ended

\* A library whose rebuild has started is lost only to a compression that failed:
\* no order of the threads and no bound of the channel makes an error or a panic.
THEOREM OnlyCompressionFails == Spec => []RebuildFailsJustly
<1>1. Init => FailedJustly
  BY DEF Init, FailedJustly
<1>2. IInv /\ FailedJustly /\ WellFormed => RebuildFailsJustly
  BY DEF FailedJustly, RebuildFailsJustly
<1> QED
  BY <1>1, <1>2, PipelineSafety, EachSentOnce, StepFailsJustly, PTL DEF Spec

-----------------------------------------------------------------------------
(* The code that hashes name.                                              *)

\* Three sequences are joined in any order, and one of them may have one element more.
LEMMA JoinSequences ==
  ASSUME NEW S, NEW a \in Seq(S), NEW b \in Seq(S), NEW x \in S
  PROVE  /\ Append(a \o b, x) = a \o Append(b, x) /\ a \o b \in Seq(S) /\ a \o <<>> = a /\ <<>> \o a = a
         /\ \A c \in Seq(S) : (a \o b) \o c = a \o (b \o c)
  BY SMTT(60)

\* A part that is one longer.
LEMMA NextPart ==
  ASSUME NEW S, NEW q \in Seq(S), NEW n \in 0..(Len(q) - 1)
  PROVE  /\ SubSeq(q, 1, n + 1) = Append(SubSeq(q, 1, n), q[n + 1]) /\ q[n + 1] \in S
         /\ SubSeq(q, 1, n) \in Seq(S) /\ Len(SubSeq(q, 1, n)) = n
         /\ SubSeq(q, 1, n + 1) \in Seq(S)
<1>1. /\ SubSeq(q, 1, n) \in Seq(S) /\ Len(SubSeq(q, 1, n)) = n
      /\ \A k \in 1..n : SubSeq(q, 1, n)[k] = q[k]
  BY FirstPart
<1>2. /\ SubSeq(q, 1, n + 1) \in Seq(S) /\ Len(SubSeq(q, 1, n + 1)) = n + 1
      /\ \A k \in 1..(n + 1) : SubSeq(q, 1, n + 1)[k] = q[k]
  OBVIOUS
<1>3. q[n + 1] \in S
  OBVIOUS
<1> QED
  BY <1>1, <1>2, <1>3

\* No part and the whole.
LEMMA WholePart ==
  ASSUME NEW S, NEW q \in Seq(S)
  PROVE  SubSeq(q, 1, 0) = <<>> /\ SubSeq(q, 1, Len(q)) = q /\ Len(q) \in Nat
  OBVIOUS

\* A sequence more that is joined.
LEMMA FlattenAppend ==
  ASSUME NEW S, NEW seqs \in Seq(Seq(S)), NEW q \in Seq(S)
  PROVE  /\ FlattenSeq(seqs) \in Seq(S)
         /\ FlattenSeq(Append(seqs, q)) = FlattenSeq(seqs) \o q
<1>1. PICK more : more = Append(seqs, q)
  OBVIOUS
<1>2. PICK N : N = Len(seqs)
  OBVIOUS
<1>3. /\ more \in Seq(Seq(S)) /\ more # <<>> /\ N \in Nat /\ Len(more) = N + 1
      /\ more[N + 1] = q /\ \A i \in 1..N : more[i] = seqs[i]
  BY <1>1, <1>2
<1>4. PICK g : /\ g \in [1..(N + 1) -> Seq(S)]
               /\ g[1] = more[1] /\ \A i \in 2..(N + 1) : g[i] = g[i - 1] \o more[i]
               /\ FlattenSeq(more) = g[N + 1]
  <2>1. PICK g \in [1..Len(more) -> Seq(S)] :
          /\ g[1] = more[1] /\ \A i \in 2..Len(more) : g[i] = g[i - 1] \o more[i]
          /\ FlattenSeq(more) = g[Len(more)]
    BY <1>3, FlattenSteps
  <2> QED
    BY <1>3, <2>1
<1>5. FlattenSeq(seqs) \in Seq(S)
  BY FlattenPlaces
<1>6. CASE seqs = <<>>
  <2>1. N = 0 /\ FlattenSeq(seqs) = <<>>
    BY <1>2, <1>6 DEF FlattenSeq
  <2>2. FlattenSeq(more) = q /\ <<>> \o q = q
    BY <1>3, <1>4, <2>1
  <2> QED
    BY <1>1, <1>5, <2>1, <2>2
<1>7. CASE seqs # <<>>
  <2>1. N \in Nat \ {0}
    BY <1>2, <1>7
  <2>2. PICK f \in [1..N -> Seq(S)] :
          /\ f[1] = seqs[1] /\ \A i \in 2..N : f[i] = f[i - 1] \o seqs[i]
          /\ FlattenSeq(seqs) = f[N]
    BY <1>2, <1>7, FlattenSteps
  <2> DEFINE T == {n \in 0..(N - 1) : f[n + 1] = g[n + 1]}
  <2>3. 0 \in T
    BY <1>3, <1>4, <2>1, <2>2
  <2>4. ASSUME NEW n \in 0..((N - 1) - 1), n \in T PROVE n + 1 \in T
    <3>1. n + 2 \in 2..N /\ n + 2 \in 2..(N + 1) /\ (n + 2) - 1 = n + 1 /\ (n + 1) + 1 = n + 2 /\ n + 1 \in 0..(N - 1)
      BY <2>1
    <3>2. f[n + 2] = f[n + 1] \o seqs[n + 2] /\ g[n + 2] = g[n + 1] \o more[n + 2]
      BY <1>4, <2>2, <3>1
    <3>3. more[n + 2] = seqs[n + 2] /\ f[n + 1] = g[n + 1]
      BY <1>3, <2>4, <3>1
    <3> QED
      BY <3>1, <3>2, <3>3
  <2>5. N - 1 \in Nat
    BY <2>1
  <2> HIDE DEF T
  <2>6. 0..(N - 1) \subseteq T
    BY <2>3, <2>4, <2>5, Induction
  <2>7. f[N] = g[N]
    <3>1. N - 1 \in T /\ (N - 1) + 1 = N
      BY <2>1, <2>6
    <3> QED
      BY <3>1 DEF T
  <2>8. N + 1 \in 2..(N + 1) /\ (N + 1) - 1 = N
    BY <2>1
  <2>9. g[N + 1] = g[N] \o more[N + 1]
    BY <1>4, <2>8
  <2> QED
    BY <1>1, <1>3, <1>4, <1>5, <2>2, <2>7, <2>9
<1> QED
  BY <1>6, <1>7

\* What is joined of two parts is joined of each.
LEMMA FlattenJoin ==
  ASSUME NEW S, NEW a \in Seq(Seq(S)), NEW b \in Seq(Seq(S))
  PROVE  FlattenSeq(a \o b) = FlattenSeq(a) \o FlattenSeq(b)
<1>1. PICK R : R = Seq(S)
  OBVIOUS
<1>2. a \in Seq(R) /\ b \in Seq(R)
  BY <1>1
<1> DEFINE I(n) == FlattenSeq(a \o SubSeq(b, 1, n)) = FlattenSeq(a) \o FlattenSeq(SubSeq(b, 1, n))
<1> DEFINE T == {n \in 0..Len(b) : I(n)}
<1>3. 0 \in T
  <2>1. SubSeq(b, 1, 0) = <<>> /\ Len(b) \in Nat
    BY WholePart
  <2>2. a \o <<>> = a
    BY <1>2
  <2>3. FlattenSeq(<<>>) = <<>> /\ FlattenSeq(a) \o <<>> = FlattenSeq(a)
    <3>1. FlattenSeq(<<>>) = <<>>
      BY DEF FlattenSeq
    <3>2. FlattenSeq(a) \in Seq(S)
      BY FlattenPlaces
    <3> QED
      BY <3>1, <3>2
  <2>4. I(0)
    BY <2>1, <2>2, <2>3
  <2>5. 0 \in 0..Len(b)
    BY <2>1
  <2> HIDE DEF I
  <2> QED
    BY <2>4, <2>5
<1>4. ASSUME NEW n \in 0..(Len(b) - 1), n \in T PROVE n + 1 \in T
  <2>1. PICK p : p = SubSeq(b, 1, n)
    OBVIOUS
  <2>2. PICK q : q = b[n + 1]
    OBVIOUS
  <2>3. SubSeq(b, 1, n + 1) = Append(p, q) /\ q \in R /\ p \in Seq(R)
    BY <1>2, <2>1, <2>2, NextPart
  <2>4. p \in Seq(Seq(S)) /\ q \in Seq(S)
    BY <1>1, <2>3
  <2>5. a \o Append(p, q) = Append(a \o p, q) /\ a \o p \in Seq(R)
    BY <1>2, <2>3, SMTT(60)
  <2>6. a \o p \in Seq(Seq(S))
    BY <1>1, <2>5
  <2>7. /\ FlattenSeq(Append(a \o p, q)) = FlattenSeq(a \o p) \o q
        /\ FlattenSeq(Append(p, q)) = FlattenSeq(p) \o q
    BY <2>4, <2>6, FlattenAppend
  <2>8. FlattenSeq(a \o p) = FlattenSeq(a) \o FlattenSeq(p)
    BY <1>4, <2>1
  <2>9. FlattenSeq(a) \in Seq(S) /\ FlattenSeq(p) \in Seq(S)
    BY <2>4, FlattenPlaces
  <2>10. (FlattenSeq(a) \o FlattenSeq(p)) \o q = FlattenSeq(a) \o (FlattenSeq(p) \o q)
    BY <2>4, <2>9, SMTT(60)
  <2>11. I(n + 1)
    BY <2>3, <2>5, <2>7, <2>8, <2>10
  <2>12. n + 1 \in 0..Len(b)
    BY WholePart
  <2> HIDE DEF I
  <2> QED
    BY <2>11, <2>12
<1> HIDE DEF T
<1>5. 0..Len(b) \subseteq T
  BY <1>3, <1>4, WholePart, Induction
<1>6. Len(b) \in T
  BY <1>5, WholePart
<1>7. I(Len(b))
  BY <1>6 DEF T
<1> QED
  BY <1>7, WholePart

\* The hashes whose code starts among the bytes.
OfEach(data) == [i \in DOMAIN data |-> IF data[i].at = 1 THEN data[i].of ELSE <<>>]
OfList(data) == FlattenSeq(OfEach(data))

\* They are those of the first and of the second part.
LEMMA OfJoined ==
  ASSUME NEW a \in Seq(AnyByte), NEW b \in Seq(AnyByte)
  PROVE  /\ OfEach(a) \in Seq(Seq(DOMAIN FullSize))
         /\ OfList(a \o b) = OfList(a) \o OfList(b) /\ OfList(a) \in Seq(DOMAIN FullSize)
<1>1. PICK R : R = Seq(DOMAIN FullSize)
  OBVIOUS
<1>2. \A x \in AnyByte : (IF x.at = 1 THEN x.of ELSE <<>>) \in R
  <2>1. <<>> \in R
    BY <1>1
  <2>2. \A x \in AnyByte : x.of \in R
    BY <1>1 DEF AnyByte
  <2> QED
    BY <2>1, <2>2
<1>3. PICK B : B = AnyByte
  OBVIOUS
<1>4. a \in Seq(B) /\ b \in Seq(B)
  BY <1>3
<1>5. OfEach(a) \in Seq(R) /\ OfEach(b) \in Seq(R)
  <2>1. /\ Len(a) \in Nat /\ DOMAIN a = 1..Len(a) /\ Len(b) \in Nat /\ DOMAIN b = 1..Len(b)
        /\ \A i \in 1..Len(a) : a[i] \in B /\ \A j \in 1..Len(b) : b[j] \in B
    BY <1>4
  <2>2. OfEach(a) \in [1..Len(a) -> R]
    BY <1>2, <1>3, <2>1 DEF OfEach
  <2>3. OfEach(b) \in [1..Len(b) -> R]
    <3>1. \A j \in 1..Len(b) : b[j] \in B
      BY <1>4
    <3> QED
      BY <1>2, <1>3, <2>1, <3>1 DEF OfEach
  <2> QED
    BY <2>1, <2>2, <2>3, SMTT(60)
<1>6. OfEach(a \o b) = OfEach(a) \o OfEach(b)
  <2>1. PICK c : c = a \o b
    OBVIOUS
  <2>2. /\ c \in Seq(B) /\ Len(c) = Len(a) + Len(b) /\ DOMAIN c = 1..(Len(a) + Len(b))
        /\ \A i \in 1..(Len(a) + Len(b)) : c[i] = IF i <= Len(a) THEN a[i] ELSE b[i - Len(a)]
        /\ Len(a) \in Nat /\ Len(b) \in Nat /\ DOMAIN a = 1..Len(a) /\ DOMAIN b = 1..Len(b)
    BY <1>4, <2>1
  <2>3. PICK oa, ob : oa = OfEach(a) /\ ob = OfEach(b)
    OBVIOUS
  <2>4. Len(oa) = Len(a) /\ Len(ob) = Len(b) /\ oa \in Seq(R) /\ ob \in Seq(R)
    BY <1>5, <2>2, <2>3 DEF OfEach
  <2>5. /\ \A i \in 1..Len(a) : oa[i] = IF a[i].at = 1 THEN a[i].of ELSE <<>>
        /\ \A i \in 1..Len(b) : ob[i] = IF b[i].at = 1 THEN b[i].of ELSE <<>>
    BY <2>2, <2>3 DEF OfEach
  <2>6. PICK oc : oc = OfEach(c)
    OBVIOUS
  <2>7. /\ oc = [i \in 1..(Len(a) + Len(b)) |-> IF c[i].at = 1 THEN c[i].of ELSE <<>>]
    BY <2>2, <2>6 DEF OfEach
  <2>8. ASSUME NEW i \in 1..(Len(a) + Len(b))
        PROVE  oc[i] = IF i <= Len(a) THEN oa[i] ELSE ob[i - Len(a)]
    <3>1. CASE i <= Len(a)
      <4>1. i \in 1..Len(a) /\ c[i] = a[i]
        BY <2>2, <3>1
      <4> QED
        BY <2>5, <2>7, <3>1, <4>1
    <3>2. CASE ~ (i <= Len(a))
      <4>1. i - Len(a) \in 1..Len(b) /\ c[i] = b[i - Len(a)]
        BY <2>2, <3>2
      <4> QED
        BY <2>5, <2>7, <3>2, <4>1
    <3> QED
      BY <3>1, <3>2
  <2>9. PICK j : j = oa \o ob
    OBVIOUS
  <2>10. oc = j
    <3>1. j \in Seq(R) /\ Len(j) = Len(a) + Len(b) /\ Len(a) + Len(b) \in Nat
      <4>1. oa \in Seq(R) /\ ob \in Seq(R)
        BY <2>4
      <4>2. j \in Seq(R) /\ Len(j) = Len(oa) + Len(ob)
        BY <2>9, <4>1
      <4>3. Len(a) + Len(b) \in Nat
        BY <2>2
      <4> QED
        BY <2>4, <4>2, <4>3
    <3>2. \A i \in 1..(Len(a) + Len(b)) : j[i] = IF i <= Len(a) THEN oa[i] ELSE ob[i - Len(a)]
      BY <2>2, <2>4, <2>9
    <3>3. j = [i \in 1..(Len(a) + Len(b)) |-> j[i]]
      BY <3>1
    <3>4. \A i \in 1..(Len(a) + Len(b)) : oc[i] = j[i]
      BY <2>8, <3>2
    <3>5. oc = [i \in 1..(Len(a) + Len(b)) |-> oc[i]]
      BY <2>7
    <3> QED
      BY <3>3, <3>4, <3>5
  <2> QED
    BY <2>1, <2>3, <2>6, <2>9, <2>10
<1>7. OfEach(a) \in Seq(Seq(DOMAIN FullSize)) /\ OfEach(b) \in Seq(Seq(DOMAIN FullSize))
  BY <1>1, <1>5
<1>8. FlattenSeq(OfEach(a) \o OfEach(b)) = FlattenSeq(OfEach(a)) \o FlattenSeq(OfEach(b))
  BY <1>7, FlattenJoin
<1>9. FlattenSeq(OfEach(a)) \in Seq(DOMAIN FullSize)
  BY <1>7, FlattenPlaces
<1> QED
  BY <1>6, <1>7, <1>8, <1>9 DEF OfList

\* The code of a list of hashes, and bytes that are not compressed.
Named(hashes) == FlattenSeq([k \in DOMAIN hashes |-> Code(hashes[k])])
NotPacked(data) == \A i \in 1..Len(data) : data[i].method = NoMethod

\* The code of one hash names it.
LEMMA OfCode ==
  ASSUME NEW h \in DOMAIN FullSize
  PROVE  /\ Code(h) \in Seq(AnyByte) /\ Len(Code(h)) = FullSize[h] /\ FullSize[h] \in Nat \ {0}
         /\ OfList(Code(h)) = <<h>> /\ NotPacked(Code(h))
<1>1. PICK n : n = FullSize[h]
  OBVIOUS
<1>2. n \in Nat \ {0}
  BY <1>1, SizesAssumption
<1>3. PICK c : c = Code(h)
  OBVIOUS
<1>4. c = [i \in 1..n |-> [of |-> <<h>>, method |-> NoMethod, at |-> i]]
  BY <1>1, <1>3 DEF Code, Byte
<1>5. c \in Seq(AnyByte)
  BY <1>3, CodeTyped
<1>6. Len(c) = n /\ DOMAIN c = 1..n
  <2>1. n \in Nat
    BY <1>2
  <2> QED
    BY <1>4, <1>5, <2>1
<1>7. NotPacked(c)
  BY <1>4, <1>6 DEF NotPacked
<1>8. PICK o : o = OfEach(c)
  OBVIOUS
<1>9. o = [i \in 1..n |-> IF i = 1 THEN <<h>> ELSE <<>>]
  <2>1. o = [i \in 1..n |-> IF c[i].at = 1 THEN c[i].of ELSE <<>>]
    BY <1>6, <1>8 DEF OfEach
  <2>2. \A i \in 1..n : c[i].at = i /\ c[i].of = <<h>>
    BY <1>4
  <2> QED
    BY <2>1, <2>2
<1>10. o \in Seq(Seq(DOMAIN FullSize)) /\ Len(o) = n
  <2>1. n \in Nat
    BY <1>2
  <2>2. PICK R : R = Seq(DOMAIN FullSize)
    OBVIOUS
  <2>3. <<h>> \in R /\ <<>> \in R
    BY <2>2
  <2>4. o \in [1..n -> R]
    BY <1>9, <2>3
  <2> QED
    BY <2>1, <2>2, <2>4
<1>11. o # <<>>
  BY <1>2, <1>10
<1>12. PICK f : /\ f \in [1..n -> Seq(DOMAIN FullSize)]
                /\ f[1] = o[1] /\ \A i \in 2..n : f[i] = f[i - 1] \o o[i]
                /\ FlattenSeq(o) = f[n]
  <2>1. PICK f \in [1..Len(o) -> Seq(DOMAIN FullSize)] :
          /\ f[1] = o[1] /\ \A i \in 2..Len(o) : f[i] = f[i - 1] \o o[i]
          /\ FlattenSeq(o) = f[Len(o)]
    BY <1>10, <1>11, FlattenSteps
  <2> QED
    BY <1>10, <2>1
<1> DEFINE T == {m \in 0..(n - 1) : f[m + 1] = <<h>>}
<1>13. 0 \in T
  BY <1>2, <1>9, <1>12
<1>14. ASSUME NEW m \in 0..((n - 1) - 1), m \in T PROVE m + 1 \in T
  <2>1. m + 2 \in 2..n /\ (m + 2) - 1 = m + 1 /\ (m + 1) + 1 = m + 2 /\ m + 1 \in 0..(n - 1) /\ m + 2 # 1 /\ m + 2 \in 1..n
    BY <1>2
  <2>2. f[m + 2] = f[m + 1] \o o[m + 2] /\ o[m + 2] = <<>>
    BY <1>9, <1>12, <2>1
  <2>3. f[m + 1] = <<h>>
    BY <1>14
  <2>4. <<h>> \o <<>> = <<h>>
    OBVIOUS
  <2> QED
    BY <2>1, <2>2, <2>3, <2>4
<1>15. n - 1 \in Nat
  BY <1>2
<1> HIDE DEF T
<1>16. 0..(n - 1) \subseteq T
  BY <1>13, <1>14, <1>15, Induction
<1>17. n - 1 \in T /\ (n - 1) + 1 = n
  BY <1>2, <1>16
<1>18. f[n] = <<h>>
  BY <1>17 DEF T
<1> QED
  BY <1>1, <1>2, <1>3, <1>5, <1>6, <1>7, <1>8, <1>12, <1>18 DEF OfList

\* One hash more.
LEMMA NamedNext ==
  ASSUME NEW hashes \in Seq(DOMAIN FullSize), NEW h \in DOMAIN FullSize
  PROVE  /\ Named(hashes) \in Seq(AnyByte)
         /\ Named(Append(hashes, h)) = Named(hashes) \o Code(h)
<1>1. PICK R : R = Seq(AnyByte)
  OBVIOUS
<1>2. PICK D : D = DOMAIN FullSize
  OBVIOUS
<1>3. \A x \in D : Code(x) \in R
  BY <1>1, <1>2, OfCode
<1>4. PICK more : more = Append(hashes, h)
  OBVIOUS
<1>5. PICK N : N = Len(hashes)
  OBVIOUS
<1>6. /\ N \in Nat /\ DOMAIN hashes = 1..N /\ DOMAIN more = 1..(N + 1) /\ more[N + 1] = h
      /\ \A k \in 1..N : more[k] = hashes[k] /\ hashes[k] \in D
  BY <1>2, <1>4, <1>5
<1>7. PICK a : a = [k \in 1..N |-> Code(hashes[k])]
  OBVIOUS
<1>8. a \in Seq(R) /\ Len(a) = N /\ Code(h) \in R
  <2>1. a \in [1..N -> R]
    BY <1>3, <1>6, <1>7
  <2> QED
    BY <1>2, <1>3, <1>6, <2>1
<1>9. [k \in 1..(N + 1) |-> Code(more[k])] = Append(a, Code(h))
  <2>1. PICK b : b = Append(a, Code(h))
    OBVIOUS
  <2>2. b \in Seq(R) /\ Len(b) = N + 1 /\ DOMAIN b = 1..(N + 1)
    BY <1>6, <1>8, <2>1
  <2>3. b[N + 1] = Code(h) /\ \A k \in 1..N : b[k] = a[k]
    BY <1>6, <1>8, <2>1
  <2>4. \A k \in 1..(N + 1) : b[k] = Code(more[k])
    <3>1. ASSUME NEW k \in 1..(N + 1) PROVE b[k] = Code(more[k])
      <4>1. CASE k = N + 1
        BY <1>6, <2>3, <4>1
      <4>2. CASE k # N + 1
        <5>1. k \in 1..N
          BY <1>6, <4>2
        <5> QED
          BY <1>6, <1>7, <2>3, <5>1
      <4> QED
        BY <4>1, <4>2
    <3> QED
      BY <3>1
  <2>5. b = [k \in 1..(N + 1) |-> b[k]]
    BY <2>2
  <2> QED
    BY <2>1, <2>4, <2>5
<1>10. a \in Seq(Seq(AnyByte)) /\ Code(h) \in Seq(AnyByte)
  BY <1>1, <1>8
<1>11. FlattenSeq(a) \in Seq(AnyByte) /\ FlattenSeq(Append(a, Code(h))) = FlattenSeq(a) \o Code(h)
  BY <1>10, FlattenAppend
<1>12. Named(hashes) = FlattenSeq(a) /\ Named(more) = FlattenSeq([k \in 1..(N + 1) |-> Code(more[k])])
  BY <1>6, <1>7 DEF Named
<1> QED
  BY <1>4, <1>9, <1>11, <1>12

\* The code of no hashes.
LEMMA NamedNone == Named(<<>>) = <<>> /\ OfList(<<>>) = <<>>
<1>1. [k \in DOMAIN <<>> |-> Code(<<>>[k])] = <<>> /\ OfEach(<<>>) = <<>>
  BY DEF OfEach
<1>2. FlattenSeq(<<>>) = <<>>
  BY DEF FlattenSeq
<1> QED
  BY <1>1, <1>2 DEF Named, OfList

\* The code of hashes is not compressed, and names them.
LEMMA NamedIs ==
  ASSUME NEW hashes \in Seq(DOMAIN FullSize)
  PROVE  /\ Named(hashes) \in Seq(AnyByte)
         /\ OfList(Named(hashes)) = hashes /\ NotPacked(Named(hashes))
<1>1. PICK B : B = AnyByte
  OBVIOUS
<1> DEFINE I(n) ==
      /\ Named(SubSeq(hashes, 1, n)) \in Seq(B)
      /\ OfList(Named(SubSeq(hashes, 1, n))) = SubSeq(hashes, 1, n)
      /\ NotPacked(Named(SubSeq(hashes, 1, n)))
<1> DEFINE T == {n \in 0..Len(hashes) : I(n)}
<1>2. 0 \in T
  <2>1. SubSeq(hashes, 1, 0) = <<>> /\ Len(hashes) \in Nat
    BY WholePart
  <2>2. Named(<<>>) = <<>> /\ OfList(<<>>) = <<>> /\ <<>> \in Seq(B) /\ NotPacked(<<>>)
    <3>1. NotPacked(<<>>)
      BY DEF NotPacked
    <3> QED
      BY <3>1, NamedNone
  <2>3. I(0)
    BY <2>1, <2>2
  <2>4. 0 \in 0..Len(hashes)
    BY <2>1
  <2> HIDE DEF I
  <2> QED
    BY <2>3, <2>4
<1>3. ASSUME NEW n \in 0..(Len(hashes) - 1), n \in T PROVE n + 1 \in T
  <2>1. PICK p : p = SubSeq(hashes, 1, n)
    OBVIOUS
  <2>2. PICK h : h = hashes[n + 1]
    OBVIOUS
  <2>3. SubSeq(hashes, 1, n + 1) = Append(p, h) /\ h \in DOMAIN FullSize /\ p \in Seq(DOMAIN FullSize)
    BY <2>1, <2>2, NextPart
  <2>4. Named(p) \in Seq(B) /\ OfList(Named(p)) = p /\ NotPacked(Named(p))
    BY <1>3, <2>1
  <2>5. Named(Append(p, h)) = Named(p) \o Code(h)
    BY <2>3, NamedNext
  <2>6. Code(h) \in Seq(B) /\ OfList(Code(h)) = <<h>> /\ NotPacked(Code(h))
    BY <1>1, <2>3, OfCode
  <2>7. OfList(Named(p) \o Code(h)) = OfList(Named(p)) \o OfList(Code(h))
    BY <1>1, <2>4, <2>6, OfJoined
  <2>8. p \o <<h>> = Append(p, h)
    BY <2>3
  <2>9. NotPacked(Named(p) \o Code(h)) /\ Named(p) \o Code(h) \in Seq(B)
    <3>1. PICK a, b : a = Named(p) /\ b = Code(h)
      OBVIOUS
    <3>2. a \in Seq(B) /\ b \in Seq(B)
      BY <2>4, <2>6, <3>1
    <3>3. /\ a \o b \in Seq(B) /\ Len(a) \in Nat /\ Len(b) \in Nat /\ Len(a \o b) = Len(a) + Len(b)
      BY <3>2
    <3>4. ASSUME NEW i \in 1..Len(a \o b) PROVE (a \o b)[i].method = NoMethod
      <4>1. CASE i <= Len(a)
        <5>1. (a \o b)[i] = a[i] /\ i \in 1..Len(a)
          BY <3>2, <3>3, <4>1
        <5> QED
          BY <2>4, <3>1, <5>1 DEF NotPacked
      <4>2. CASE ~ (i <= Len(a))
        <5>1. (a \o b)[i] = b[i - Len(a)] /\ i - Len(a) \in 1..Len(b)
          BY <3>2, <3>3, <4>2
        <5> QED
          BY <2>6, <3>1, <5>1 DEF NotPacked
      <4> QED
        BY <4>1, <4>2
    <3>5. NotPacked(a \o b)
      BY <3>4 DEF NotPacked
    <3> QED
      BY <3>1, <3>3, <3>5
  <2>10. I(n + 1)
    BY <2>3, <2>4, <2>5, <2>6, <2>7, <2>8, <2>9
  <2>11. n + 1 \in 0..Len(hashes)
    BY WholePart
  <2> HIDE DEF I
  <2> QED
    BY <2>10, <2>11
<1> HIDE DEF T
<1>4. 0..Len(hashes) \subseteq T
  BY <1>2, <1>3, WholePart, Induction
<1>5. Len(hashes) \in T
  BY <1>4, WholePart
<1>6. I(Len(hashes))
  BY <1>5 DEF T
<1> QED
  BY <1>1, <1>6, WholePart

\* The code of the k-th hash lies behind that of those before it.
NamedBehind(hashes, data, k) ==
  LET from == Len(Named(SubSeq(hashes, 1, k - 1)))
      to == Len(Named(SubSeq(hashes, 1, k)))
  IN  /\ from \in Nat /\ to = from + FullSize[hashes[k]] /\ to <= Len(data)
      /\ SubSeq(data, from + 1, to) = Code(hashes[k])

\* So it does in the code of all.
LEMMA NamedPart ==
  ASSUME NEW hashes \in Seq(DOMAIN FullSize), NEW k \in 1..Len(hashes)
  PROVE  NamedBehind(hashes, Named(hashes), k)
<1>1. PICK B : B = AnyByte
  OBVIOUS
<1>2. PICK a : a = Named(SubSeq(hashes, 1, k - 1))
  OBVIOUS
<1>3. PICK h : h = hashes[k]
  OBVIOUS
<1>4. PICK c : c = Code(h)
  OBVIOUS
<1>5. PICK N : N = Len(hashes)
  OBVIOUS
<1>6. k \in 1..N /\ N \in Nat /\ k - 1 \in 0..(N - 1) /\ (k - 1) + 1 = k /\ k \in Nat
  BY <1>5
<1>7. /\ SubSeq(hashes, 1, k) = Append(SubSeq(hashes, 1, k - 1), h) /\ h \in DOMAIN FullSize
      /\ SubSeq(hashes, 1, k - 1) \in Seq(DOMAIN FullSize)
  BY <1>3, <1>5, <1>6, NextPart
<1>8. /\ a \in Seq(B) /\ Named(SubSeq(hashes, 1, k)) = a \o c
      /\ c \in Seq(B) /\ Len(c) = FullSize[h]
  <2>1. a \in Seq(B) /\ Named(SubSeq(hashes, 1, k)) = a \o c
    BY <1>1, <1>2, <1>4, <1>7, NamedNext
  <2> QED
    BY <1>1, <1>4, <1>7, <2>1, OfCode
<1>9. Len(a) \in Nat /\ Len(c) \in Nat /\ a \o c \in Seq(B) /\ Len(a \o c) = Len(a) + Len(c)
  <2>1. a \in Seq(B) /\ c \in Seq(B)
    BY <1>8
  <2> QED
    BY <2>1
<1>10. SubSeq(a \o c, Len(a) + 1, Len(a) + Len(c)) = c
  BY <1>8, SecondPart
<1>11. \A n \in 0..N : Named(SubSeq(hashes, 1, n)) \in Seq(B)
  <2>1. ASSUME NEW n \in 0..N PROVE Named(SubSeq(hashes, 1, n)) \in Seq(B)
    <3>1. SubSeq(hashes, 1, n) \in Seq(DOMAIN FullSize)
      BY <1>5, FirstPart
    <3> QED
      BY <1>1, <3>1, NamedIs
  <2> QED
    BY <2>1
<1> DEFINE I(n) ==
      LET data == Named(SubSeq(hashes, 1, n))
      IN  /\ Len(a) + Len(c) <= Len(data)
          /\ SubSeq(data, Len(a) + 1, Len(a) + Len(c)) = c
<1>12. I(k)
  BY <1>8, <1>9, <1>10, SMTT(60)
<1>13. ASSUME NEW n \in k..(N - 1), I(n)
       PROVE  I(n + 1)
  <2>1. n \in 0..(N - 1) /\ n \in 0..N
    BY <1>6
  <2>2. PICK g : g = hashes[n + 1]
    OBVIOUS
  <2>3. PICK p : p = SubSeq(hashes, 1, n)
    OBVIOUS
  <2>4. SubSeq(hashes, 1, n + 1) = Append(p, g) /\ g \in DOMAIN FullSize /\ p \in Seq(DOMAIN FullSize)
    BY <1>5, <2>1, <2>2, <2>3, NextPart, SMTT(60)
  <2>5. Named(SubSeq(hashes, 1, n + 1)) = Named(p) \o Code(g) /\ Named(p) \in Seq(B) /\ Code(g) \in Seq(B)
    <3>1. Named(SubSeq(hashes, 1, n + 1)) = Named(p) \o Code(g) /\ Named(p) \in Seq(B)
      BY <1>1, <2>4, NamedNext
    <3>2. Code(g) \in Seq(B)
      BY <1>1, <2>4, OfCode
    <3> QED
      BY <3>1, <3>2
  <2>6. PICK d : d = Named(p)
    OBVIOUS
  <2>7. PICK e : e = Code(g)
    OBVIOUS
  <2>8. d \in Seq(B) /\ e \in Seq(B) /\ Len(a) + Len(c) <= Len(d) /\ SubSeq(d, Len(a) + 1, Len(a) + Len(c)) = c
    BY <1>13, <2>3, <2>5, <2>6, <2>7
  <2>9. /\ Len(d) \in Nat /\ Len(e) \in Nat /\ Len(d \o e) = Len(d) + Len(e)
        /\ Len(a) + 1 \in 1..(Len(d) + 1) /\ Len(a) + Len(c) \in ((Len(a) + 1) - 1)..Len(d)
    BY <1>9, <2>8
  <2>10. SubSeq(d \o e, Len(a) + 1, Len(a) + Len(c)) = SubSeq(d, Len(a) + 1, Len(a) + Len(c))
    BY <2>8, <2>9, PartOfFirst
  <2>11. Len(a) + Len(c) <= Len(d \o e)
    BY <1>9, <2>8, <2>9
  <2> QED
    BY <2>5, <2>6, <2>7, <2>8, <2>10, <2>11
<1> DEFINE T == {m \in 0..(N - k) : I(k + m)}
<1>14. 0 \in T
  <2>1. k + 0 = k /\ 0 \in 0..(N - k)
    BY <1>6
  <2> HIDE DEF I
  <2> QED
    BY <1>12, <2>1
<1>15. ASSUME NEW m \in 0..((N - k) - 1), m \in T PROVE m + 1 \in T
  <2>1. k + m \in k..(N - 1) /\ (k + m) + 1 = k + (m + 1) /\ m + 1 \in 0..(N - k)
    BY <1>6
  <2> HIDE DEF I
  <2> QED
    BY <1>13, <1>15, <2>1
<1>16. N - k \in Nat /\ N - k \in 0..(N - k) /\ k + (N - k) = N
  BY <1>6
<1> HIDE DEF T
<1>17. 0..(N - k) \subseteq T
  BY <1>14, <1>15, <1>16, Induction
<1>18. N - k \in T
  BY <1>16, <1>17
<1>19. I(N)
  <2> HIDE DEF I
  <2> QED
    BY <1>16, <1>18 DEF T
<1>20. SubSeq(hashes, 1, N) = hashes
  BY <1>5, WholePart
<1>21. /\ Len(a) + Len(c) <= Len(Named(hashes))
       /\ SubSeq(Named(hashes), Len(a) + 1, Len(a) + Len(c)) = c
  BY <1>19, <1>20
<1> QED
  BY <1>2, <1>3, <1>4, <1>8, <1>9, <1>21 DEF NamedBehind

-----------------------------------------------------------------------------
(* The code of a group.                                                    *)

\* The hashes of a group, and those that a name has.
HashesIn(library, group) == [k \in DOMAIN group |-> library.shaders[group[k]].hash]
HashesOf(id) == [k \in DOMAIN id |-> id[k][1]]

\* They are one for every shader.
LEMMA HashesTyped ==
  ASSUME NEW library, IsLibrary(library), NEW group \in Seq(DOMAIN library.shaders)
  PROVE  /\ HashesIn(library, group) \in Seq(DOMAIN FullSize)
         /\ Len(HashesIn(library, group)) = Len(group) /\ Len(group) \in Nat
         /\ \A k \in 1..Len(group) : HashesIn(library, group)[k] = library.shaders[group[k]].hash
         /\ HashesOf(IdOf(library, group)) = HashesIn(library, group)
<1>1. PICK N : N = Len(group)
  OBVIOUS
<1>2. N \in Nat /\ DOMAIN group = 1..N /\ \A k \in 1..N : group[k] \in DOMAIN library.shaders
  BY <1>1
<1>3. PICK hs : hs = HashesIn(library, group)
  OBVIOUS
<1>4. hs = [k \in 1..N |-> library.shaders[group[k]].hash]
  BY <1>2, <1>3 DEF HashesIn
<1>5. \A k \in 1..N : library.shaders[group[k]].hash \in DOMAIN FullSize
  BY <1>2, ShaderTypes
<1>6. hs \in Seq(DOMAIN FullSize) /\ Len(hs) = N
  BY <1>2, <1>4, <1>5
<1>7. HashesOf(IdOf(library, group)) = hs
  <2>1. PICK id : id = IdOf(library, group)
    OBVIOUS
  <2>2. id = [k \in 1..N |-> <<library.shaders[group[k]].hash, library.shaders[group[k]].full>>]
    BY <1>2, <2>1 DEF IdOf
  <2>3. DOMAIN id = 1..N /\ \A k \in 1..N : id[k][1] = library.shaders[group[k]].hash
    BY <2>2
  <2>4. HashesOf(id) = [k \in 1..N |-> id[k][1]]
    BY <2>3 DEF HashesOf
  <2> QED
    BY <1>4, <2>1, <2>3, <2>4
<1> QED
  BY <1>1, <1>2, <1>3, <1>4, <1>6, <1>7

\* What the bytes are that are read as they are, or uncompressed.
LEMMA PlainIs ==
  ASSUME NEW bytes, NEW packed, NEW known, NEW full,
         NEW plain, plain = Plain(bytes, packed, known, full), plain.result = "ok"
  PROVE  /\ packed = full => plain.data = bytes
         /\ packed # full => /\ bytes # <<>> /\ bytes[1].method # NoMethod
                             /\ plain.data = Named(bytes[1].of)
<1>1. CASE packed = full
  <2>1. plain = [result |-> "ok", method |-> known, data |-> bytes]
    BY <1>1 DEF Plain
  <2> QED
    BY <1>1, <2>1
<1>2. CASE packed # full
  <2>1. plain = Unpack(bytes, known, full)
    BY <1>2 DEF Plain
  <2>2. PICK data : data = Named(bytes[1].of)
    OBVIOUS
  <2>3. PICK fits : fits = (bytes # <<>> /\ bytes[1].method # NoMethod
                             /\ known \in {NoMethod, bytes[1].method}
                             /\ Len(data) = full /\ bytes = Pack(data, bytes[1].method))
    OBVIOUS
  <2>4. Unpack(bytes, known, full) =
          IF fits THEN [result |-> "ok", method |-> bytes[1].method, data |-> data] ELSE Failed
    BY <2>2, <2>3 DEF Unpack, Named
  <2>5. fits
    BY <2>1, <2>4 DEF Failed
  <2>6. plain = [result |-> "ok", method |-> bytes[1].method, data |-> data]
    BY <2>1, <2>4, <2>5
  <2>7. plain.data = data
    BY <2>6
  <2>8. bytes # <<>> /\ bytes[1].method # NoMethod
    BY <2>3, <2>5, Zenon
  <2> QED
    BY <1>2, <2>2, <2>7, <2>8
<1> QED
  BY <1>1, <1>2

\* Whatever method is known, the code of a shader is that which its hash names.
LEMMA ShaderNamed ==
  ASSUME NEW library, NamesCode(library), NEW s \in DOMAIN library.shaders,
         NEW known, NEW plain, plain = PlainAt(library, s, known), plain.result = "ok"
  PROVE  plain.data = Code(library.shaders[s].hash)
<1>1. PICK bytes : bytes = BytesAt(library, s)
  OBVIOUS
<1>2. PICK size : size = library.shaders[s].size
  OBVIOUS
<1>3. PICK full : full = library.shaders[s].full
  OBVIOUS
<1>4. plain = Plain(bytes, size, known, full)
  BY <1>1, <1>2, <1>3 DEF PlainAt
<1>5. PICK own : own = CodeIn(library, s)
  OBVIOUS
<1>6. own.result = "ok" /\ own.data = Code(library.shaders[s].hash)
  BY <1>5 DEF NamesCode
<1>7. own = Plain(bytes, size, NoMethod, full)
  BY <1>1, <1>2, <1>3, <1>5 DEF CodeIn, BytesAt
<1>8. plain.data = own.data
  <2>1. /\ size = full => plain.data = bytes
        /\ size # full => plain.data = Named(bytes[1].of)
    BY <1>4, PlainIs
  <2>2. /\ size = full => own.data = bytes
        /\ size # full => own.data = Named(bytes[1].of)
    BY <1>6, <1>7, PlainIs
  <2> QED
    BY <2>1, <2>2
<1> QED
  BY <1>6, <1>8

\* A group is as large as the code of its hashes, if every shader is.
LEMMA SizeNamed ==
  ASSUME NEW library, IsLibrary(library), NEW group \in Seq(DOMAIN library.shaders),
         \A k \in 1..Len(group) :
           library.shaders[group[k]].full = FullSize[library.shaders[group[k]].hash]
  PROVE  SizeOf(library, group) = Len(Named(HashesIn(library, group)))
<1>1. PICK hs : hs = HashesIn(library, group)
  OBVIOUS
<1>2. PICK N : N = Len(group)
  OBVIOUS
<1>3. /\ hs \in Seq(DOMAIN FullSize) /\ Len(hs) = N /\ N \in Nat
      /\ \A k \in 1..N : hs[k] = library.shaders[group[k]].hash
  BY <1>1, <1>2, HashesTyped
<1>4. PICK h : h = [n \in 0..N |-> Len(Named(SubSeq(hs, 1, n)))]
  OBVIOUS
<1>5. h[0] = 0
  <2>1. SubSeq(hs, 1, 0) = <<>>
    BY <1>3, WholePart
  <2>2. 0 \in 0..N /\ Len(<<>>) = 0
    BY <1>3
  <2> QED
    BY <1>4, <2>1, <2>2, NamedNone
<1>6. ASSUME NEW n \in 1..N
      PROVE  h[n] = h[n - 1] + library.shaders[group[n]].full
  <2>1. n \in 0..N /\ n - 1 \in 0..N /\ n \in 1..Len(hs)
    BY <1>3
  <2>2. NamedBehind(hs, Named(hs), n)
    BY <1>3, <2>1, NamedPart
  <2>3. Len(Named(SubSeq(hs, 1, n))) = Len(Named(SubSeq(hs, 1, n - 1))) + FullSize[hs[n]]
    BY <2>2 DEF NamedBehind
  <2>4. FullSize[hs[n]] = library.shaders[group[n]].full
    BY <1>2, <1>3
  <2> QED
    BY <1>4, <2>1, <2>3, <2>4
<1>7. SizeOf(library, group) = h[N]
  BY <1>2, <1>5, <1>6, SizeIs
<1>8. h[N] = Len(Named(hs))
  <2>1. N \in 0..N /\ SubSeq(hs, 1, N) = hs
    BY <1>3, WholePart
  <2> QED
    BY <1>4, <2>1
<1> QED
  BY <1>1, <1>7, <1>8

\* A library whose hashes name its code has shaders of the size of their code.
LEMMA FullNamed ==
  ASSUME NEW library, IsLibrary(library), NamesCode(library), NEW s \in DOMAIN library.shaders,
         library.shaders[s].offset + library.shaders[s].size <= Len(library.code)
  PROVE  library.shaders[s].full = FullSize[library.shaders[s].hash]
<1>1. PICK bytes : bytes = BytesAt(library, s)
  OBVIOUS
<1>2. PICK size : size = library.shaders[s].size
  OBVIOUS
<1>3. PICK full : full = library.shaders[s].full
  OBVIOUS
<1>4. PICK own : own = CodeIn(library, s)
  OBVIOUS
<1>5. own = Plain(bytes, size, NoMethod, full)
  BY <1>1, <1>2, <1>3, <1>4 DEF CodeIn, BytesAt
<1>6. own.result = "ok" /\ own.data = Code(library.shaders[s].hash)
  BY <1>4 DEF NamesCode
<1>7. library.shaders[s].hash \in DOMAIN FullSize
  BY ShaderTypes
<1>8. Len(own.data) = FullSize[library.shaders[s].hash]
  BY <1>6, <1>7, OfCode
<1>9. CASE size = full
  <2>1. own.data = bytes
    BY <1>5, <1>6, <1>9, PlainIs
  <2>2. PICK offset : offset = library.shaders[s].offset
    OBVIOUS
  <2>3. PICK code : code = library.code
    OBVIOUS
  <2>4. code \in Seq(AnyByte) /\ offset \in Nat /\ size \in Nat /\ offset + size <= Len(code)
    BY <1>2, <2>2, <2>3, ShaderTypes DEF IsLibrary
  <2>5. bytes = SubSeq(code, offset + 1, offset + size)
    BY <1>1, <1>2, <2>2, <2>3 DEF BytesAt
  <2>6. Len(bytes) = size
    <3>1. PICK S : S = AnyByte
      OBVIOUS
    <3>2. code \in Seq(S)
      BY <2>4, <3>1
    <3>3. Len(SubSeq(code, offset + 1, offset + size)) = size
      BY <2>4, <3>2
    <3> QED
      BY <2>5, <3>3
  <2> QED
    BY <1>3, <1>8, <1>9, <2>1, <2>6
<1>10. CASE size # full
  <2>1. own = Unpack(bytes, NoMethod, full)
    BY <1>5, <1>10 DEF Plain
  <2>2. PICK data : data = Named(bytes[1].of)
    OBVIOUS
  <2>3. PICK fits : fits = (bytes # <<>> /\ bytes[1].method # NoMethod
                             /\ NoMethod \in {NoMethod, bytes[1].method}
                             /\ Len(data) = full /\ bytes = Pack(data, bytes[1].method))
    OBVIOUS
  <2>4. Unpack(bytes, NoMethod, full) =
          IF fits THEN [result |-> "ok", method |-> bytes[1].method, data |-> data] ELSE Failed
    BY <2>2, <2>3 DEF Unpack, Named
  <2>5. fits
    BY <1>6, <2>1, <2>4 DEF Failed
  <2>6. own = [result |-> "ok", method |-> bytes[1].method, data |-> data]
    BY <2>1, <2>4, <2>5
  <2>7. own.data = data
    BY <2>6
  <2>8. Len(data) = full
    BY <2>3, <2>5, Zenon
  <2> QED
    BY <1>3, <1>8, <2>7, <2>8
<1> QED
  BY <1>9, <1>10

\* The bytes of a group are the code that its hashes name, and the shaders lie in the
\* code of the library.
NamedSoFar(library, group, list, n) ==
  GroupBytes(group) /\ (group.result = "ok" =>
    /\ group.data = Named(SubSeq(HashesIn(library, list), 1, n))
    /\ \A k \in 1..n :
         library.shaders[list[k]].offset + library.shaders[list[k]].size <= Len(library.code))

\* One shader more.
LEMMA PlaceNames ==
  ASSUME NEW library, IsLibrary(library), NamesCode(library), NEW header,
         NEW list \in Seq(DOMAIN library.shaders), NEW n \in 0..(Len(list) - 1),
         NEW group, NamedSoFar(library, group, list, n),
         NEW next, next = PlaceShader(library, header, group, list[n + 1])
  PROVE  NamedSoFar(library, next, list, n + 1)
<1>1. PICK s : s = list[n + 1]
  OBVIOUS
<1>2. s \in DOMAIN library.shaders /\ Len(list) \in Nat
  BY <1>1
<1>3. GroupBytes(group)
  BY DEF NamedSoFar
<1>4. GroupBytes(next)
  BY <1>1, <1>2, <1>3, PlaceKeeps
<1>5. SUFFICES ASSUME next.result = "ok"
               PROVE  /\ next.data = Named(SubSeq(HashesIn(library, list), 1, n + 1))
                      /\ \A k \in 1..(n + 1) :
                           library.shaders[list[k]].offset + library.shaders[list[k]].size
                             <= Len(library.code)
  BY <1>4 DEF NamedSoFar
<1>6. PICK plain : plain = PlainAt(library, s, group.method)
  OBVIOUS
<1>7. PlacedBehind(library, s, group, plain, next)
  BY <1>1, <1>2, <1>3, <1>5, <1>6, PlaceIs
<1>8. /\ group.result = "ok" /\ plain.result = "ok"
      /\ library.shaders[s].offset + library.shaders[s].size <= Len(library.code)
      /\ next.data = group.data \o plain.data
  <2>1. PICK data : data = group.data \o plain.data
    OBVIOUS
  <2>2. next = [result |-> "ok", method |-> plain.method, data |-> data]
    BY <1>7, <2>1 DEF PlacedBehind
  <2>3. next.data = data
    BY <2>2
  <2>4. /\ group.result = "ok" /\ plain.result = "ok"
        /\ library.shaders[s].offset + library.shaders[s].size <= Len(library.code)
    BY <1>7 DEF PlacedBehind
  <2> QED
    BY <2>1, <2>3, <2>4
<1>9. plain.data = Code(library.shaders[s].hash)
  BY <1>2, <1>6, <1>8, ShaderNamed
<1>10. PICK hs : hs = HashesIn(library, list)
  OBVIOUS
<1>11. /\ hs \in Seq(DOMAIN FullSize) /\ Len(hs) = Len(list)
       /\ hs[n + 1] = library.shaders[s].hash
  <2>1. n + 1 \in 1..Len(list)
    BY <1>2
  <2> QED
    BY <1>1, <1>10, <2>1, HashesTyped
<1>12. PICK p : p = SubSeq(hs, 1, n)
  OBVIOUS
<1>13. SubSeq(hs, 1, n + 1) = Append(p, hs[n + 1]) /\ hs[n + 1] \in DOMAIN FullSize /\ p \in Seq(DOMAIN FullSize)
  <2>1. n \in 0..(Len(hs) - 1)
    BY <1>11
  <2> QED
    BY <1>11, <1>12, <2>1, NextPart
<1>14. Named(Append(p, hs[n + 1])) = Named(p) \o Code(hs[n + 1])
  BY <1>13, NamedNext
<1>15. group.data = Named(p) /\ \A k \in 1..n :
          library.shaders[list[k]].offset + library.shaders[list[k]].size <= Len(library.code)
  BY <1>8, <1>10, <1>12, SMTT(60) DEF NamedSoFar
<1>16. next.data = Named(SubSeq(hs, 1, n + 1))
  BY <1>8, <1>9, <1>11, <1>13, <1>14, <1>15
<1>17. ASSUME NEW k \in 1..(n + 1)
       PROVE  library.shaders[list[k]].offset + library.shaders[list[k]].size <= Len(library.code)
  <2>1. k \in 1..n \/ k = n + 1
    OBVIOUS
  <2> QED
    BY <1>1, <1>8, <1>15, <2>1
<1> QED
  BY <1>10, <1>16, <1>17

\* All shaders.
LEMMA BytesNamed ==
  ASSUME NEW library, IsLibrary(library), NamesCode(library), NEW header,
         NEW method \in Methods, NEW list \in Seq(DOMAIN library.shaders)
  PROVE  NamedSoFar(library, BytesFrom(library, header, method, list), list, Len(list))
<1>1. PICK N : N = Len(list)
  OBVIOUS
<1>2. N \in Nat
  BY <1>1
<1>3. PICK f : BytesTo(f, library, header, method, list)
               /\ BytesFrom(library, header, method, list) = f[N]
  BY <1>1, <1>2, PlacesShaders DEF BytesAll
<1>4. /\ f[0] = [result |-> "ok", method |-> method, data |-> <<>>]
      /\ \A n \in 0..(N - 1) : f[n + 1] = PlaceShader(library, header, f[n], list[n + 1])
  BY <1>1, <1>3 DEF BytesTo
<1> DEFINE T == {n \in 0..N : NamedSoFar(library, f[n], list, n)}
<1>5. 0 \in T
  <2>1. f[0].method = method /\ f[0].data = <<>>
    BY <1>4
  <2>2. f[0] = [result |-> "ok", method |-> f[0].method, data |-> f[0].data]
    BY <1>4, <2>1
  <2>3. GroupBytes(f[0])
    BY <2>1, <2>2 DEF GroupBytes
  <2>4. HashesIn(library, list) \in Seq(DOMAIN FullSize)
    BY HashesTyped
  <2>5. SubSeq(HashesIn(library, list), 1, 0) = <<>>
    BY <2>4, WholePart
  <2>6. \A k \in 1..0 : FALSE
    OBVIOUS
  <2>7. NamedSoFar(library, f[0], list, 0)
    BY <2>1, <2>3, <2>5, <2>6, NamedNone DEF NamedSoFar
  <2>8. 0 \in 0..N
    BY <1>2
  <2> QED
    BY <2>7, <2>8
<1>6. \A n \in 0..(N - 1) : n \in T => n + 1 \in T
  <2>1. TAKE n \in 0..(N - 1)
  <2>2. SUFFICES ASSUME NamedSoFar(library, f[n], list, n) PROVE n + 1 \in T
    OBVIOUS
  <2>3. NamedSoFar(library, f[n + 1], list, n + 1)
    BY <1>1, <1>4, <2>2, PlaceNames
  <2>4. n + 1 \in 0..N
    BY <1>2
  <2> QED
    BY <2>3, <2>4
<1>7. N \in T
  <2> HIDE DEF T
  <2>1. 0..N \subseteq T
    BY <1>2, <1>5, <1>6, Induction
  <2>2. N \in 0..N
    BY <1>2
  <2> QED
    BY <2>1, <2>2
<1> QED
  BY <1>1, <1>3, <1>7

\* A chunk for a list of hashes: their code, or what compression made of it.
ChunkFor(hashes, chunk) ==
  \/ chunk = Named(hashes)
  \/ \E m \in Methods : chunk = Pack(Named(hashes), m) /\ Len(chunk) < Len(Named(hashes))

\* What is taken of the code is such a chunk.
LEMMA SmallestNamed ==
  ASSUME NEW hashes, NEW data, data = Named(hashes), NEW method \in Methods
  PROVE  ChunkFor(hashes, Smallest(data, method))
  BY DEF ChunkFor, Smallest

\* Compressed bytes name what was compressed.
LEMMA PackOf ==
  ASSUME NEW data \in Seq(AnyByte), NEW method, Pack(data, method) # <<>>
  PROVE  Pack(data, method)[1].of = OfList(data)
<1>1. PICK of : of = OfList(data)
  OBVIOUS
<1>2. PICK n : n = PackedOf(of)
  OBVIOUS
<1>3. PICK p : p = Pack(data, method)
  OBVIOUS
<1>4. p = [i \in 1..n |-> Byte(of, method, i)]
  BY <1>1, <1>2, <1>3, Zenon DEF Pack, OfList, OfEach, PackedOf
<1>5. n \in Nat
  <2>1. of \in Seq(DOMAIN FullSize)
    BY <1>1, OfJoined
  <2> QED
    BY <1>2, <2>1, PackedTyped
<1>6. n # 0
  <2>1. SUFFICES ASSUME n = 0 PROVE FALSE
    OBVIOUS
  <2>2. 1..n = {}
    BY <2>1
  <2>3. p = <<>>
    BY <1>4, <2>2
  <2> QED
    BY <1>3, <2>3
<1>7. 1 \in 1..n
  BY <1>5, <1>6
<1>8. p[1] = Byte(of, method, 1)
  BY <1>4, <1>7
<1> QED
  BY <1>1, <1>3, <1>8 DEF Byte

\* What can be read of such a chunk, at its size, is the code: of the chunk of another
\* library with the same name too.
LEMMA ChunkReads ==
  ASSUME NEW hashes \in Seq(DOMAIN FullSize), NEW chunk, ChunkFor(hashes, chunk),
         NEW full, full = Len(Named(hashes)), NEW packed, NEW known,
         NEW plain, plain = Plain(chunk, packed, known, full), plain.result = "ok",
         ~ (full > Len(plain.data))
  PROVE  plain.data = Named(hashes)
<1>1. PICK data : data = Named(hashes)
  OBVIOUS
<1>2. data \in Seq(AnyByte) /\ OfList(data) = hashes /\ NotPacked(data) /\ Len(data) \in Nat
  <2>1. data \in Seq(AnyByte) /\ OfList(data) = hashes /\ NotPacked(data)
    BY <1>1, NamedIs
  <2> QED
    BY <2>1
<1>3. /\ packed = full => plain.data = chunk
      /\ packed # full => chunk # <<>> /\ chunk[1].method # NoMethod /\ plain.data = Named(chunk[1].of)
  BY PlainIs
<1>4. CASE chunk = data
  <2>1. CASE packed = full
    BY <1>1, <1>3, <1>4, <2>1
  <2>2. CASE packed # full
    <3>1. data # <<>> /\ data[1].method # NoMethod
      BY <1>3, <1>4, <2>2
    <3>2. 1 \in 1..Len(data)
      <4>1. PICK B : B = AnyByte
        OBVIOUS
      <4>2. data \in Seq(B) /\ data # <<>>
        BY <1>2, <3>1, <4>1
      <4> QED
        BY <4>2
    <3> QED
      BY <1>2, <3>1, <3>2 DEF NotPacked
  <2> QED
    BY <2>1, <2>2
<1>5. ASSUME NEW m \in Methods, chunk = Pack(data, m), Len(chunk) < Len(data)
      PROVE  plain.data = data
  <2>1. packed # full
    <3>1. SUFFICES ASSUME packed = full PROVE FALSE
      OBVIOUS
    <3>2. Len(plain.data) = Len(chunk)
      BY <1>3, <3>1
    <3>3. Len(chunk) \in Nat
      <4>1. chunk \in Seq(AnyByte)
        BY <1>2, <1>5, PackTyped
      <4> QED
        BY <4>1
    <3> QED
      BY <1>1, <1>2, <1>5, <3>2, <3>3
  <2>2. chunk # <<>> /\ plain.data = Named(chunk[1].of)
    BY <1>3, <2>1
  <2>3. chunk[1].of = hashes
    BY <1>2, <1>5, <2>2, PackOf
  <2> QED
    BY <1>1, <2>2, <2>3
<1> QED
  BY <1>1, <1>4, <1>5 DEF ChunkFor

\* The shaders of a group have the size of the code that their hashes name.
Sized(library, group) ==
  \A k \in 1..Len(group) :
    library.shaders[group[k]].full = FullSize[library.shaders[group[k]].hash]

\* The chunks of the first n groups are for the hashes of these.
ChunksNamed(library, groups, archive, n) ==
  archive.result = "ok" =>
    \A k \in 1..n :
      ChunkFor(HashesIn(library, groups[k]), archive.chunks[k]) /\ Sized(library, groups[k])

\* One chunk more.
LEMMA WriteNames ==
  ASSUME NEW library, IsLibrary(library), NamesCode(library),
         NEW groups \in Seq(Seq(DOMAIN library.shaders)),
         NEW n \in 0..(Len(groups) - 1), NEW archive, ArchiveSoFar(library, groups, archive, n),
         ChunksNamed(library, groups, archive, n),
         NEW next, next = WriteGroup(library, archive, n + 1)
  PROVE  ChunksNamed(library, groups, next, n + 1)
<1>1. SUFFICES ASSUME next.result = "ok" PROVE ChunksNamed(library, groups, next, n + 1)
  BY DEF ChunksNamed
<1>2. PICK list : list = groups[n + 1]
  OBVIOUS
<1>3. list \in Seq(DOMAIN library.shaders)
  <2>1. PICK L : L = Seq(DOMAIN library.shaders)
    OBVIOUS
  <2>2. groups \in Seq(L) /\ n + 1 \in 1..Len(groups)
    BY <2>1
  <2> QED
    BY <1>2, <2>1, <2>2
<1>4. PICK group : group = BytesFrom(library, archive.header, archive.method, list)
  OBVIOUS
<1>5. WrittenBehind(archive, n + 1, group, next)
  BY <1>1, <1>2, <1>4, WriteIs
<1>6. PICK chunk : chunk = Smallest(group.data, group.method)
  OBVIOUS
<1>7. archive.result = "ok" /\ group.result = "ok" /\ GroupBytes(group)
  BY <1>5 DEF WrittenBehind
<1>8. next.chunks = Append(archive.chunks, chunk)
  <2>1. PICK cs : cs = Append(archive.chunks, chunk)
    OBVIOUS
  <2>2. PICK header : header = PackedHeader(archive.header, n + 1, Len(chunk))
    OBVIOUS
  <2>3. next = [result |-> "ok", method |-> group.method, header |-> header, chunks |-> cs]
    BY <1>5, <1>6, <2>1, <2>2 DEF WrittenBehind
  <2>4. next.chunks = cs
    BY <2>3
  <2> QED
    BY <2>1, <2>4
<1>9. archive.method \in Methods /\ archive.chunks \in Seq(Seq(AnyByte)) /\ Len(archive.chunks) = n
  BY <1>7 DEF ArchiveSoFar
<1>10. NamedSoFar(library, group, list, Len(list))
  BY <1>3, <1>4, <1>9, BytesNamed
<1>11. PICK hs : hs = HashesIn(library, list)
  OBVIOUS
<1>12. hs \in Seq(DOMAIN FullSize) /\ Len(hs) = Len(list) /\ SubSeq(hs, 1, Len(hs)) = hs
  <2>1. hs \in Seq(DOMAIN FullSize) /\ Len(hs) = Len(list)
    BY <1>3, <1>11, HashesTyped
  <2> QED
    BY <2>1, WholePart
<1>13. group.data = Named(hs)
  BY <1>7, <1>10, <1>11, <1>12 DEF NamedSoFar
<1>14. ChunkFor(hs, chunk)
  <2>1. group.method \in Methods
    BY <1>7 DEF GroupBytes
  <2> QED
    BY <1>6, <1>13, <2>1, SmallestNamed
<1>15. Sized(library, list)
  <2>1. ASSUME NEW k \in 1..Len(list)
        PROVE  library.shaders[list[k]].full = FullSize[library.shaders[list[k]].hash]
    <3>1. list[k] \in DOMAIN library.shaders
      BY <1>3
    <3>2. library.shaders[list[k]].offset + library.shaders[list[k]].size <= Len(library.code)
      BY <1>7, <1>10 DEF NamedSoFar
    <3> QED
      BY <3>1, <3>2, FullNamed
  <2> QED
    BY <2>1 DEF Sized
<1>16. \A k \in 1..n : ChunkFor(HashesIn(library, groups[k]), archive.chunks[k]) /\ Sized(library, groups[k])
  BY <1>7 DEF ChunksNamed
<1>17. next.chunks[n + 1] = chunk /\ \A k \in 1..n : next.chunks[k] = archive.chunks[k]
  <2>1. PICK B : B = Seq(AnyByte)
    OBVIOUS
  <2>2. PICK cs : cs = archive.chunks
    OBVIOUS
  <2>3. cs \in Seq(B) /\ Len(cs) = n /\ n \in Nat
    BY <1>9, <2>1, <2>2
  <2>4. chunk \in B
    <3>1. group.method \in Methods /\ group.data \in Seq(AnyByte)
      BY <1>7 DEF GroupBytes
    <3> QED
      BY <1>6, <2>1, <3>1, PackTyped
  <2>5. Append(cs, chunk)[n + 1] = chunk /\ \A k \in 1..n : Append(cs, chunk)[k] = cs[k]
    BY <2>3, <2>4
  <2> QED
    BY <1>8, <2>2, <2>5
<1>18. ASSUME NEW k \in 1..(n + 1)
       PROVE  ChunkFor(HashesIn(library, groups[k]), next.chunks[k]) /\ Sized(library, groups[k])
  <2>1. CASE k = n + 1
    BY <1>2, <1>11, <1>14, <1>15, <1>17, <2>1
  <2>2. CASE k # n + 1
    <3>1. k \in 1..n
      BY <2>2
    <3> QED
      BY <1>16, <1>17, <3>1
  <2> QED
    BY <2>1, <2>2
<1> QED
  BY <1>18 DEF ChunksNamed

\* All chunks.
LEMMA ArchiveNamed ==
  ASSUME NEW library, IsLibrary(library), NamesCode(library),
         NEW groups \in Seq(Seq(DOMAIN library.shaders)),
         NEW header, HeaderSoFar(library, groups, header, Len(groups))
  PROVE  ChunksNamed(library, groups, WriteGroups(library, header), Len(groups))
<1>1. CASE header.result # "ok"
  <2>1. WriteGroups(library, header) = header
    BY <1>1 DEF WriteGroups
  <2> QED
    BY <1>1, <2>1 DEF ChunksNamed
<1>2. CASE header.result = "ok"
  <2>1. PICK N : N = Len(groups)
    OBVIOUS
  <2>2. N \in Nat
    BY <2>1
  <2>3. PICK f : WritesTo(f, library, header, N) /\ WriteGroups(library, header) = f[N]
    BY <1>2, <2>1, <2>2, WritesGroups DEF WritesAll
  <2>4. /\ f[0] = NoChunks(header)
        /\ \A n \in 0..(N - 1) : f[n + 1] = WriteGroup(library, f[n], n + 1)
    BY <2>3 DEF WritesTo
  <2> DEFINE T == {n \in 0..N : ArchiveSoFar(library, groups, f[n], n)
                                 /\ ChunksNamed(library, groups, f[n], n)}
  <2>5. 0 \in T
    <3>1. f[0] = [result |-> "ok", method |-> NoMethod, header |-> header, chunks |-> <<>>]
      BY <2>4 DEF NoChunks
    <3>2. f[0].method = NoMethod /\ f[0].header = header /\ f[0].chunks = <<>>
      BY <3>1
    <3>3. NoMethod \in Methods
      BY DEF Methods
    <3>4. <<>> \in Seq(Seq(AnyByte)) /\ Len(<<>>) = 0
      OBVIOUS
    <3>5. ArchiveSoFar(library, groups, f[0], 0)
      BY <1>2, <3>1, <3>2, <3>3, <3>4 DEF ArchiveSoFar
    <3>6. ChunksNamed(library, groups, f[0], 0)
      <4>1. \A k \in 1..0 : FALSE
        OBVIOUS
      <4> QED
        BY <4>1 DEF ChunksNamed
    <3>7. 0 \in 0..N
      BY <2>2
    <3> QED
      BY <3>5, <3>6, <3>7
  <2>6. \A n \in 0..(N - 1) : n \in T => n + 1 \in T
    <3>1. TAKE n \in 0..(N - 1)
    <3>2. SUFFICES ASSUME ArchiveSoFar(library, groups, f[n], n), ChunksNamed(library, groups, f[n], n)
                   PROVE  n + 1 \in T
      OBVIOUS
    <3>3. n \in 0..(Len(groups) - 1) /\ f[n + 1] = WriteGroup(library, f[n], n + 1)
      BY <2>1, <2>4
    <3>4. ArchiveSoFar(library, groups, f[n + 1], n + 1)
      BY <3>2, <3>3, WriteKeeps
    <3>5. ChunksNamed(library, groups, f[n + 1], n + 1)
      BY <3>2, <3>3, WriteNames
    <3>6. n + 1 \in 0..N
      BY <2>2
    <3> QED
      BY <3>4, <3>5, <3>6
  <2>7. N \in T
    <3> HIDE DEF T
    <3>1. 0..N \subseteq T
      BY <2>2, <2>5, <2>6, Induction
    <3>2. N \in 0..N
      BY <2>2
    <3> QED
      BY <3>1, <3>2
  <2> QED
    BY <2>1, <2>3, <2>7
<1> QED
  BY <1>1, <1>2

-----------------------------------------------------------------------------
(* The code in the container.                                              *)

\* Every chunk is for the hashes of its name.
NamedChunk(map, id) == HashesOf(id) \in Seq(DOMAIN FullSize) /\ ChunkFor(HashesOf(id), map[id])
KnownChunks(map) == \A id \in DOMAIN map : NamedChunk(map, id)
AllSized(library, groups) == \A g \in 1..Len(groups) : Sized(library, groups[g])

\* One chunk more in the container.
LEMMA ChunkKnown ==
  ASSUME NEW map, KnownChunks(map), NEW id, NEW c, HashesOf(id) \in Seq(DOMAIN FullSize),
         ChunkFor(HashesOf(id), c), NEW next, next = WithKey(map, id, c)
  PROVE  KnownChunks(next)
<1>1. next = [z \in DOMAIN map \cup {id} |-> IF z = id THEN c ELSE map[z]]
  BY DEF WithKey
<1> SUFFICES ASSUME NEW z \in DOMAIN next PROVE NamedChunk(next, z)
  BY DEF KnownChunks
<1>2. z \in DOMAIN map \cup {id} /\ next[z] = IF z = id THEN c ELSE map[z]
  BY <1>1
<1>3. CASE z = id
  BY <1>2, <1>3 DEF NamedChunk
<1>4. CASE z # id
  <2>1. z \in DOMAIN map /\ next[z] = map[z]
    BY <1>2, <1>4
  <2>2. NamedChunk(map, z)
    BY <2>1 DEF KnownChunks
  <2> QED
    BY <2>1, <2>2 DEF NamedChunk
<1> QED
  BY <1>3, <1>4

\* The chunks of an archive.
LEMMA ArchiveKnown ==
  ASSUME NEW map, KnownChunks(map), NEW library, IsLibrary(library),
         NEW groups \in Seq(Seq(DOMAIN library.shaders)), NEW archive, archive.result = "ok",
         ArchiveSoFar(library, groups, archive, Len(groups)),
         ChunksNamed(library, groups, archive, Len(groups))
  PROVE  KnownChunks(WithChunks(map, archive))
<1>1. PICK N : N = Len(groups)
  OBVIOUS
<1>2. PICK R : R = Seq(DOMAIN library.shaders)
  OBVIOUS
<1>3. N \in Nat /\ \A g \in 1..N : groups[g] \in R
  <2>1. groups \in Seq(R)
    BY <1>2
  <2> QED
    BY <1>1, <2>1
<1>4. PICK cs : cs = archive.chunks
  OBVIOUS
<1>5. PICK header : header = archive.header
  OBVIOUS
<1>6. /\ header.result = "ok" /\ HeaderSoFar(library, groups, header, N)
      /\ cs \in Seq(Seq(AnyByte)) /\ Len(cs) = N
  BY <1>1, <1>4, <1>5 DEF ArchiveSoFar
<1>7. DOMAIN archive.chunks = 1..N
  <2>1. PICK B : B = Seq(AnyByte)
    OBVIOUS
  <2>2. cs \in Seq(B)
    BY <1>6, <2>1
  <2> QED
    BY <1>4, <1>6, <2>2
<1>8. PICK f : ContainsTo(f, map, archive, N) /\ WithChunks(map, archive) = f[N]
  BY <1>3, <1>7, ContainsChunks DEF ContainsAll
<1>9. /\ 0 \in 0..N /\ f[0] = map
      /\ \A n \in 0..(N - 1) : f[n + 1] = ChunkWith(archive, f[n], n + 1)
  BY <1>3, <1>8 DEF ContainsTo
<1> DEFINE I(n) == KnownChunks(f[n])
           T == {n \in 0..N : I(n)}
<1>10. ASSUME NEW n \in 0..(N - 1), I(n)
       PROVE  I(n + 1)
  <2>1. PICK k : k = n + 1
    OBVIOUS
  <2>2. k \in 1..N
    BY <1>3, <2>1
  <2>3. PICK id : id = header.groups[k].id
    OBVIOUS
  <2>4. PICK c : c = cs[k]
    OBVIOUS
  <2>5. f[n + 1] = WithKey(f[n], id, c)
    BY <1>4, <1>5, <1>9, <2>1, <2>3, <2>4 DEF ChunkWith
  <2>6. id = IdOf(library, groups[k])
    BY <1>6, <2>2, <2>3 DEF HeaderSoFar, EntryOf
  <2>7. groups[k] \in Seq(DOMAIN library.shaders)
    BY <1>2, <1>3, <2>2
  <2>8. HashesIn(library, groups[k]) \in Seq(DOMAIN FullSize) /\ HashesOf(id) = HashesIn(library, groups[k])
    BY <2>6, <2>7, HashesTyped
  <2>9. ChunkFor(HashesIn(library, groups[k]), c)
    BY <1>1, <1>4, <2>2, <2>4 DEF ChunksNamed
  <2> QED
    BY <1>10, <2>5, <2>8, <2>9, ChunkKnown
<1>11. I(N)
  <2> HIDE DEF I
  <2>1. 0 \in T
    <3>1. I(0)
      BY <1>9 DEF I
    <3> QED
      BY <1>9, <3>1
  <2>2. \A n \in 0..(N - 1) : n \in T => n + 1 \in T
    <3>1. \A n \in 0..(N - 1) : n + 1 \in 0..N
      BY <1>3
    <3> QED
      BY <1>10, <3>1
  <2> HIDE DEF T
  <2>3. 0..N \subseteq T
    BY <1>3, <2>1, <2>2, Induction
  <2>4. N \in 0..N
    BY <1>3
  <2>5. N \in T
    BY <2>3, <2>4
  <2> QED
    BY <2>5 DEF T
<1> QED
  BY <1>8, <1>11

\* The chunks of the container are code of their names, and a library whose archive is
\* there has shaders of the size of their code.
CodeKnown ==
  /\ KnownChunks(chunks)
  /\ \A name \in DOMAIN archives :
       AllSized(game.libraries[name], GroupsOf(game.libraries[name], game.format))

\* A library more.
LEMMA ConvertKnows == ASSUME Container, CodeKnown, ConvertLibrary PROVE CodeKnown'
<1>1. game' = game
  BY DEF ConvertLibrary
<1>2. PICK name : name = Head(toWrite)
  OBVIOUS
<1>3. PICK archive : archive = WrittenLibrary(name)
  OBVIOUS
<1>4. \/ archive.result # "ok" /\ UNCHANGED <<toWrite, container>>
      \/ /\ archive.result = "ok" /\ toWrite # <<>>
         /\ chunks' = WithChunks(chunks, archive)
         /\ archives' = WithKey(archives, name, archive.header)
  BY <1>2, <1>3 DEF ConvertLibrary
<1>5. CASE UNCHANGED <<toWrite, container>>
  BY <1>1, <1>5 DEF CodeKnown, container
<1>6. CASE /\ archive.result = "ok" /\ toWrite # <<>>
           /\ chunks' = WithChunks(chunks, archive)
           /\ archives' = WithKey(archives, name, archive.header)
  <2>1. PICK names : names = DOMAIN game.libraries \ {""}
    BY Zenon
  <2>2. toWrite \in Seq(names)
    BY <2>1, Zenon DEF Container
  <2>3. name \in names
    BY <1>2, <1>6, <2>2
  <2>4. PICK library : library = game.libraries[name]
    OBVIOUS
  <2>5. IsLibrary(library) /\ NamesCode(library)
    BY <2>1, <2>3, <2>4, GamesAssumption, CodeAssumption, Zenon DEF Container
  <2>6. PICK groups : groups = GroupsOf(library, game.format)
    OBVIOUS
  <2>7. archive = WriteLibrary(library, game.format, game.checked)
    BY <1>3, <2>4 DEF WrittenLibrary
  <2>8. ArchiveSoFar(library, groups, archive, Len(groups))
    BY <2>5, <2>6, <2>7, WrittenHasChunks
  <2>9. Grouped(library, groups)
    BY <2>5, <2>6, GroupsOfLibrary
  <2>10. groups \in Seq(Seq(DOMAIN library.shaders))
    BY <2>9 DEF Grouped, Splits
  <2>11. PICK header : header = HeaderOf(library, groups, game.checked)
    OBVIOUS
  <2>12. HeaderSoFar(library, groups, header, Len(groups))
    BY <2>5, <2>10, <2>11, HeaderHasGroups
  <2>13. archive = WriteGroups(library, header)
    BY <2>6, <2>7, <2>11 DEF WriteLibrary, ArchiveHeader
  <2>14. ChunksNamed(library, groups, archive, Len(groups))
    BY <2>5, <2>10, <2>12, <2>13, ArchiveNamed
  <2>15. KnownChunks(chunks')
    BY <1>6, <2>5, <2>8, <2>10, <2>14, ArchiveKnown DEF CodeKnown
  <2>16. AllSized(library, groups)
    BY <1>6, <2>14 DEF AllSized, ChunksNamed
  <2>17. archives' = [z \in DOMAIN archives \cup {name} |-> IF z = name THEN archive.header ELSE archives[z]]
    BY <1>6 DEF WithKey
  <2>18. ASSUME NEW n \in DOMAIN archives'
         PROVE  AllSized(game.libraries[n], GroupsOf(game.libraries[n], game.format))
    <3>1. CASE n = name
      BY <2>4, <2>6, <2>16, <3>1
    <3>2. CASE n # name
      <4>1. n \in DOMAIN archives
        BY <2>17, <3>2
      <4> QED
        BY <4>1 DEF CodeKnown
    <3> QED
      BY <3>1, <3>2
  <2> QED
    BY <1>1, <2>15, <2>18 DEF CodeKnown
<1> QED
  BY <1>4, <1>5, <1>6

\* The other steps leave the container alone.
LEMMA StepKnows == Container /\ CodeKnown /\ [Next]_vars => CodeKnown'
<1> SUFFICES ASSUME Container, CodeKnown, [Next]_vars PROVE CodeKnown'
  OBVIOUS
<1>1. CASE ConvertLibrary
  BY <1>1, ConvertKnows
<1>2. CASE UNCHANGED <<game, toWrite, container>>
  BY <1>2 DEF CodeKnown, container
<1>3. ConvertLibrary \/ UNCHANGED <<game, toWrite, container>>
  BY DEF Next, Rebuild, StartLibrary, Send, CloseChannel, Take, Work, Receive, EndLibrary,
         AllRebuilt, Ended, vars
<1> QED
  BY <1>1, <1>2, <1>3

\* At first there is no code.
LEMMA InitKnows == Init => CodeKnown
<1>1. DOMAIN NoMap = {}
  BY DEF NoMap
<1> QED
  BY <1>1 DEF Init, CodeKnown, KnownChunks

-----------------------------------------------------------------------------
(* The code that is read back.                                             *)

\* A list that is in order.
InOrder(list, before) ==
  \A i, j \in 1..Len(list) : <<list[i], list[j]>> \in before <=> i < j

\* It is sorted already.
LEMMA AlreadySorted ==
  ASSUME NEW S, NEW list \in Seq(S), NEW before, InOrder(list, before)
  PROVE  Sorted(list, before) = list
<1>1. PICK N : N = Len(list)
  OBVIOUS
<1>2. N \in Nat /\ N \in 0..N /\ 0 \in 0..N /\ DOMAIN list = 1..N
  BY <1>1
<1>3. PICK f : Inserts(f, before, list, N) /\ Sorted(list, before) = f[N]
  BY <1>1, <1>2, SortedInserts
<1> DEFINE I(n) == f[n] = SubSeq(list, 1, n)
           T == {n \in 0..N : I(n)}
<1>4. I(0)
  <2>1. f[0] = <<>>
    BY <1>2, <1>3 DEF Inserts
  <2> QED
    BY <2>1, WholePart
<1>5. ASSUME NEW n \in 0..(N - 1), I(n)
      PROVE  I(n + 1)
  <2>1. n \in Nat /\ n + 1 \in 0..N /\ n + 1 \in 1..N /\ n + 1 # 0 /\ (n + 1) - 1 = n
    BY <1>2
  <2>2. f[n + 1] = InsertNext(before, f[n], list[n + 1])
    BY <1>3, <2>1 DEF Inserts
  <2>3. PICK q : q = SubSeq(list, 1, n)
    OBVIOUS
  <2>4. PICK x : x = list[n + 1]
    OBVIOUS
  <2>5. /\ SubSeq(list, 1, n + 1) = Append(q, x) /\ x \in S
        /\ q \in Seq(S) /\ Len(q) = n
    BY <1>1, <2>1, <2>3, <2>4, NextPart
  <2>6. DOMAIN q = 1..n /\ \A k \in 1..n : q[k] = list[k]
    BY <1>1, <2>1, <2>3, <2>5
  <2>7. \A k \in 1..n : <<x, q[k]>> \notin before
    <3>1. TAKE k \in 1..n
    <3>2. k \in 1..N /\ ~ (n + 1 < k)
      BY <1>2, <2>1
    <3>3. <<list[n + 1], list[k]>> \notin before
      BY <1>1, <2>1, <3>2 DEF InOrder
    <3> QED
      BY <2>4, <2>6, <3>3
  <2>8. {k \in DOMAIN q : <<x, q[k]>> \notin before} = 1..n
    BY <2>6, <2>7
  <2>9. Cardinality(1..n) = n
    <3>1. Cardinality(1..n) = IF 1 > n THEN 0 ELSE n - 1 + 1
      BY <2>1, FS_Interval
    <3> QED
      BY <2>1, <3>1
  <2>10. Inserted(q, x, before) = InsertAt(q, n + 1, x)
    BY <2>8, <2>9 DEF Inserted
  <2>11. InsertAt(q, n + 1, x) = Append(q, x)
    BY <2>5, OneMore
  <2>12. InsertNext(before, q, x) = Inserted(q, x, before)
    BY DEF InsertNext, Let, Only
  <2> QED
    BY <1>5, <2>2, <2>3, <2>4, <2>5, <2>10, <2>11, <2>12
<1>6. I(N)
  <2> HIDE DEF I
  <2>1. 0 \in T
    BY <1>2, <1>4
  <2>2. \A n \in 0..(N - 1) : n \in T => n + 1 \in T
    <3>1. \A n \in 0..(N - 1) : n + 1 \in 0..N
      BY <1>2
    <3> QED
      BY <1>5, <3>1
  <2> HIDE DEF T
  <2>3. 0..N \subseteq T
    BY <1>2, <2>1, <2>2, Induction
  <2>4. N \in T
    BY <1>2, <2>3
  <2> QED
    BY <2>4 DEF T
<1>7. SubSeq(list, 1, N) = list
  BY <1>1, WholePart
<1> QED
  BY <1>3, <1>6, <1>7

\* The more shaders, the larger: none is empty.
LEMMA SizeGrows ==
  ASSUME NEW library, IsLibrary(library), NEW group \in Seq(DOMAIN library.shaders),
         NEW i \in 0..Len(group), NEW j \in 0..Len(group)
  PROVE  SizeOf(library, SubSeq(group, 1, i)) < SizeOf(library, SubSeq(group, 1, j)) <=> i < j
<1>1. ASSUME NEW a \in 0..Len(group), NEW b \in 0..Len(group), a < b
      PROVE  SizeOf(library, SubSeq(group, 1, a)) < SizeOf(library, SubSeq(group, 1, b))
  <2>1. PICK D : D = DOMAIN library.shaders
    OBVIOUS
  <2>2. PICK q : q = SubSeq(group, 1, b)
    OBVIOUS
  <2>3. /\ a + 1 \in 0..Len(group) /\ a < Len(group) /\ a + 1 \in 1..Len(group)
    BY <1>1
  <2>4. group \in Seq(D) /\ group[a + 1] \in D
    BY <2>1, <2>3
  <2>5. q \in Seq(D) /\ Len(q) = b
    BY <1>1, <2>2, <2>4
  <2>6. SubSeq(q, 1, a + 1) = SubSeq(group, 1, a + 1)
    <3>1. a + 1 <= b /\ b <= Len(group) /\ a + 1 \in Nat /\ b \in Nat
      BY <1>1
    <3> QED
      BY <2>2, <2>4, <3>1
  <2>7. a + 1 \in 0..Len(q)
    BY <1>1, <2>5
  <2>8. PICK x : x = SizeOf(library, SubSeq(group, 1, a))
    OBVIOUS
  <2>9. PICK y : y = SizeOf(library, SubSeq(group, 1, a + 1))
    OBVIOUS
  <2>10. PICK z : z = SizeOf(library, q)
    OBVIOUS
  <2>11. PICK e : e = library.shaders[group[a + 1]].full
    OBVIOUS
  <2>12. e \in Nat /\ e > 0
    BY <2>1, <2>4, <2>11, ShaderTypes
  <2>13. x \in Nat /\ y = x + e
    BY <2>3, <2>8, <2>9, <2>11, SizeOfPrefix
  <2>14. z \in Nat /\ y <= z
    <3>1. q \in Seq(DOMAIN library.shaders)
      BY <2>1, <2>5
    <3> QED
      BY <2>6, <2>7, <2>9, <2>10, <3>1, SizeOfPrefix
  <2>15. x < z
    BY <2>12, <2>13, <2>14
  <2> QED
    BY <2>2, <2>8, <2>10, <2>15
<1>2. PICK x : x = SizeOf(library, SubSeq(group, 1, i))
  OBVIOUS
<1>3. PICK y : y = SizeOf(library, SubSeq(group, 1, j))
  OBVIOUS
<1>4. x \in Nat /\ y \in Nat
  BY <1>2, <1>3, SizeOfPrefix
<1>5. i < j => x < y
  BY <1>1, <1>2, <1>3
<1>6. j < i => y < x
  BY <1>1, <1>2, <1>3
<1>7. i = j => x = y
  BY <1>2, <1>3
<1>8. i < j \/ j < i \/ i = j
  OBVIOUS
<1>9. x < y <=> i < j
  BY <1>4, <1>5, <1>6, <1>7, <1>8
<1> QED
  BY <1>2, <1>3, <1>9

\* The shaders of a group lie one behind the other.
InPlaces(library, header, group) ==
  \A k \in 1..Len(group) :
    header.shaders[group[k]].offset = SizeOf(library, SubSeq(group, 1, k - 1))

\* Then they are in the order of their places.
LEMMA ByOffsetSame ==
  ASSUME NEW library, IsLibrary(library), NEW group \in Seq(DOMAIN library.shaders),
         NEW header, InPlaces(library, header, group)
  PROVE  ByOffset(header, group) = group
<1>1. PICK D : D = DOMAIN library.shaders
  OBVIOUS
<1>2. PICK N : N = Len(group)
  OBVIOUS
<1>3. group \in Seq(D) /\ N \in Nat /\ ToSet(group) = {group[k] : k \in 1..N}
  BY <1>1, <1>2, SeqTypes
<1>4. PICK before : before = {x \in ToSet(group) \X ToSet(group) :
                                header.shaders[x[1]].offset < header.shaders[x[2]].offset}
  OBVIOUS
<1>5. InOrder(group, before)
  <2> SUFFICES ASSUME NEW i \in 1..N, NEW j \in 1..N
               PROVE  <<group[i], group[j]>> \in before <=> i < j
    BY <1>2 DEF InOrder
  <2>1. group[i] \in ToSet(group) /\ group[j] \in ToSet(group)
    BY <1>3
  <2>2. <<group[i], group[j]>> \in before
          <=> header.shaders[group[i]].offset < header.shaders[group[j]].offset
    BY <1>4, <2>1
  <2>3. /\ header.shaders[group[i]].offset = SizeOf(library, SubSeq(group, 1, i - 1))
        /\ header.shaders[group[j]].offset = SizeOf(library, SubSeq(group, 1, j - 1))
    BY <1>2 DEF InPlaces
  <2>4. i - 1 \in 0..Len(group) /\ j - 1 \in 0..Len(group) /\ (i - 1 < j - 1 <=> i < j)
    BY <1>2, <1>3
  <2>5. SizeOf(library, SubSeq(group, 1, i - 1)) < SizeOf(library, SubSeq(group, 1, j - 1)) <=> i < j
    BY <2>4, SizeGrows
  <2> QED
    BY <2>2, <2>3, <2>5
<1>6. Sorted(group, before) = group
  BY <1>3, <1>5, AlreadySorted
<1> QED
  BY <1>4, <1>6 DEF ByOffset

\* The first shaders of a group are as large as the code of the first hashes.
LEMMA PrefixNamed ==
  ASSUME NEW library, IsLibrary(library), NEW group \in Seq(DOMAIN library.shaders),
         Sized(library, group), NEW j \in 0..Len(group)
  PROVE  SizeOf(library, SubSeq(group, 1, j)) = Len(Named(SubSeq(HashesIn(library, group), 1, j)))
<1>1. PICK D : D = DOMAIN library.shaders
  OBVIOUS
<1>2. PICK N : N = Len(group)
  OBVIOUS
<1>3. PICK q : q = SubSeq(group, 1, j)
  OBVIOUS
<1>4. group \in Seq(D) /\ N \in Nat /\ j \in 0..N
  BY <1>1, <1>2
<1>5. q \in Seq(D) /\ Len(q) = j /\ \A k \in 1..j : q[k] = group[k] /\ k \in 1..N
  <2>1. j \in Nat /\ j <= Len(group) /\ Len(group) = N
    BY <1>2, <1>4
  <2>2. \A k \in 1..j : group[k] \in D
    BY <1>4, <2>1
  <2> QED
    BY <1>3, <1>4, <2>1, <2>2
<1>6. PICK hs : hs = HashesIn(library, group)
  OBVIOUS
<1>7. /\ hs \in Seq(DOMAIN FullSize) /\ Len(hs) = N
      /\ \A k \in 1..N : hs[k] = library.shaders[group[k]].hash
  BY <1>2, <1>6, HashesTyped
<1>8. PICK H : H = DOMAIN FullSize
  OBVIOUS
<1>9. PICK r : r = HashesIn(library, q)
  OBVIOUS
<1>10. r \in Seq(H) /\ Len(r) = j /\ \A k \in 1..j : r[k] = library.shaders[q[k]].hash
  BY <1>1, <1>5, <1>8, <1>9, HashesTyped
<1>11. PICK p : p = SubSeq(hs, 1, j)
  OBVIOUS
<1>12. Len(p) = j /\ p \in Seq(H) /\ \A k \in 1..j : p[k] = hs[k]
  <2>1. hs \in Seq(H) /\ j \in Nat /\ j <= Len(hs)
    BY <1>4, <1>7, <1>8
  <2>2. \A k \in 1..j : hs[k] \in H
    BY <2>1
  <2> QED
    BY <1>11, <2>1, <2>2
<1>13. r = p
  <2>1. r = [k \in 1..j |-> r[k]] /\ p = [k \in 1..j |-> p[k]]
    BY <1>10, <1>12
  <2>2. \A k \in 1..j : r[k] = p[k]
    BY <1>5, <1>7, <1>10, <1>12, ZenonT(60)
  <2>3. [k \in 1..j |-> r[k]] = [k \in 1..j |-> p[k]]
    BY <2>2
  <2> QED
    BY <2>1, <2>3
<1>14. \A k \in 1..Len(q) : library.shaders[q[k]].full = FullSize[library.shaders[q[k]].hash]
  BY <1>2, <1>5 DEF Sized
<1>15. SizeOf(library, q) = Len(Named(HashesIn(library, q)))
  BY <1>1, <1>5, <1>14, SizeNamed
<1> QED
  BY <1>3, <1>6, <1>9, <1>11, <1>13, <1>15

\* Cut where the shaders lie, the code of a group is the code of each of them.
LEMMA CodeCut ==
  ASSUME NEW library, IsLibrary(library), NEW group \in Seq(DOMAIN library.shaders),
         Distinct(group), Sized(library, group), NEW header, InPlaces(library, header, group),
         NEW full, full = SizeOf(library, group),
         NEW data, data = Named(HashesIn(library, group)),
         NEW k \in 1..Len(group)
  PROVE  CodeFrom(header, full, group, data, group[k]) = Code(library.shaders[group[k]].hash)
<1>1. PICK D : D = DOMAIN library.shaders
  OBVIOUS
<1>2. PICK N : N = Len(group)
  OBVIOUS
<1>3. group \in Seq(D) /\ N \in Nat /\ k \in 1..N /\ DOMAIN group = 1..N
  BY <1>1, <1>2
<1>4. PICK hs : hs = HashesIn(library, group)
  OBVIOUS
<1>5. hs \in Seq(DOMAIN FullSize) /\ Len(hs) = N /\ hs[k] = library.shaders[group[k]].hash
  BY <1>2, <1>3, <1>4, HashesTyped
<1>6. PICK from : from = Len(Named(SubSeq(hs, 1, k - 1)))
  OBVIOUS
<1>7. PICK to : to = Len(Named(SubSeq(hs, 1, k)))
  OBVIOUS
<1>8. SubSeq(data, from + 1, to) = Code(hs[k])
  <2>1. NamedBehind(hs, Named(hs), k)
    BY <1>3, <1>5, NamedPart
  <2> QED
    BY <1>4, <1>6, <1>7, <2>1 DEF NamedBehind
<1>9. k - 1 \in 0..Len(group) /\ k \in 0..Len(group) /\ (k # N => k + 1 \in 1..N /\ (k + 1) - 1 = k)
  BY <1>2, <1>3
<1>10. header.shaders[group[k]].offset = from
  <2>1. header.shaders[group[k]].offset = SizeOf(library, SubSeq(group, 1, k - 1))
    BY DEF InPlaces
  <2> QED
    BY <1>4, <1>6, <1>9, <2>1, PrefixNamed
<1>11. EndAt(header, full, group, k) = to
  <2>1. SizeOf(library, SubSeq(group, 1, k)) = to
    BY <1>4, <1>7, <1>9, PrefixNamed
  <2>2. CASE k = N
    <3>1. SubSeq(group, 1, N) = group
      BY <1>2, WholePart
    <3> QED
      BY <1>2, <2>1, <2>2, <3>1 DEF EndAt
  <2>3. CASE k # N
    <3>1. header.shaders[group[k + 1]].offset = SizeOf(library, SubSeq(group, 1, (k + 1) - 1))
      BY <1>2, <1>9, <2>3 DEF InPlaces
    <3> QED
      BY <1>2, <1>9, <2>1, <2>3, <3>1 DEF EndAt
  <2> QED
    BY <2>2, <2>3
<1>12. PlaceIn(group, group[k]) = k
  <2>1. PICK i : i = CHOOSE j \in DOMAIN group : group[j] = group[k]
    OBVIOUS
  <2>2. i \in 1..N /\ group[i] = group[k]
    BY <1>3, <2>1
  <2>3. i = k
    BY <1>2, <1>3, <2>2 DEF Distinct
  <2> QED
    BY <2>1, <2>3 DEF PlaceIn
<1> QED
  BY <1>5, <1>8, <1>10, <1>11, <1>12 DEF CodeFrom

\* A header of a library whose chunks are in the container and are code of their names.
Known(library, groups, header, map) ==
  /\ IsLibrary(library) /\ Grouped(library, groups) /\ AllSized(library, groups)
  /\ header.result = "ok" /\ HeaderSoFar(library, groups, header, Len(groups))
  /\ HasChunks(map, header, Len(groups)) /\ KnownChunks(map)

\* What is read of such a group is the code of its shaders, as its hashes name it.
LEMMA GroupReads ==
  ASSUME NEW library, NEW groups, NEW header, NEW map, Known(library, groups, header, map),
         NEW g \in 1..Len(groups), NEW archive,
         NEW next, next = ReadGroup(header, map, archive, g), next.result = "ok"
  PROVE  /\ archive.result = "ok"
         /\ \A s \in DOMAIN archive.code :
              next.code[s] = IF s \in ToSet(groups[g]) THEN Code(library.shaders[s].hash)
                             ELSE archive.code[s]
<1>1. PICK D : D = DOMAIN library.shaders
  OBVIOUS
<1>2. PICK group : group = groups[g]
  OBVIOUS
<1>3. /\ IsLibrary(library) /\ groups \in Seq(Seq(D)) /\ group \in Seq(D) /\ Distinct(group)
      /\ Sized(library, group)
  <2>1. PICK R : R = Seq(D)
    OBVIOUS
  <2>2. groups \in Seq(R) /\ Distinct(group)
    BY <1>1, <1>2, <2>1 DEF Known, Grouped, Splits
  <2>3. group \in R
    BY <1>2, <2>2
  <2> QED
    BY <1>2, <2>1, <2>2, <2>3 DEF Known, AllSized
<1>4. PICK list : list = RangeOf(header.indices, header.groups[g])
  OBVIOUS
<1>5. list = group
  BY <1>1, <1>2, <1>3, <1>4, GroupThere DEF Known
<1>6. PICK plain : plain = PlainChunk(header, map, archive.method, g)
  OBVIOUS
<1>7. PICK full : full = header.groups[g].full
  OBVIOUS
<1>8. /\ archive.result = "ok" /\ plain.result = "ok"
      /\ \A s \in ToSet(list) : header.shaders[s].group = g
      /\ ~ (full > Len(plain.data))
      /\ next = [result |-> "ok", method |-> plain.method,
                 code |-> [s \in DOMAIN archive.code |->
                   IF s \notin ToSet(list) THEN archive.code[s]
                   ELSE CodeFrom(header, full, ByOffset(header, list), plain.data, s)]]
  BY <1>4, <1>6, <1>7, ReadIs
<1>9. PICK id : id = header.groups[g].id
  OBVIOUS
<1>10. full = SizeOf(library, group) /\ id = IdOf(library, group)
  <2>1. EntryOf(library, header.indices, groups[g], header.groups[g])
    BY DEF Known, HeaderSoFar
  <2> QED
    BY <1>2, <1>7, <1>9, <2>1 DEF EntryOf
<1>11. PICK hs : hs = HashesIn(library, group)
  OBVIOUS
<1>12. hs \in Seq(DOMAIN FullSize) /\ HashesOf(id) = hs
  BY <1>1, <1>3, <1>10, <1>11, HashesTyped
<1>13. PICK chunk : chunk = map[id]
  OBVIOUS
<1>14. ChunkFor(hs, chunk)
  <2>1. id \in DOMAIN map
    BY <1>9 DEF Known, HasChunks
  <2>2. NamedChunk(map, id)
    BY <2>1 DEF Known, KnownChunks
  <2> QED
    BY <1>12, <1>13, <2>2 DEF NamedChunk
<1>15. full = Len(Named(hs))
  <2>1. \A k \in 1..Len(group) :
          library.shaders[group[k]].full = FullSize[library.shaders[group[k]].hash]
    BY <1>3 DEF Sized
  <2> QED
    BY <1>1, <1>3, <1>10, <1>11, <2>1, SizeNamed
<1>16. plain.data = Named(hs)
  <2>1. plain = Plain(chunk, header.groups[g].packed, archive.method, full)
    BY <1>6, <1>7, <1>9, <1>13 DEF PlainChunk
  <2> QED
    BY <1>8, <1>12, <1>14, <1>15, <2>1, ChunkReads
<1>17. header.shaders = NoGroups(library, groups).shaders
  <2>1. PICK sh : sh = NoGroups(library, groups).shaders
    OBVIOUS
  <2>2. header = [result |-> "ok", maps |-> library.maps, indices |-> header.indices,
                  groups |-> header.groups, shaders |-> sh]
    BY <2>1 DEF Known, HeaderSoFar
  <2> QED
    BY <2>1, <2>2
<1>18. /\ Len(group) \in Nat /\ ToSet(group) = {group[k] : k \in 1..Len(group)}
  BY <1>3, SeqTypes
<1>19. InPlaces(library, header, group)
  <2> SUFFICES ASSUME NEW k \in 1..Len(group)
               PROVE  header.shaders[group[k]].offset = SizeOf(library, SubSeq(group, 1, k - 1))
    BY DEF InPlaces
  <2>1. group[k] \in ToSet(group)
    BY <1>18
  <2>2. header.shaders[group[k]].group = g
    BY <1>5, <1>8, <2>1
  <2>3. PICK sh : sh = header.shaders
    OBVIOUS
  <2>4. sh = NoGroups(library, groups).shaders /\ sh[group[k]].group = g
    BY <1>17, <2>2, <2>3
  <2>5. LiesBehind(library, sh, group, k)
    BY <1>1, <1>2, <1>3, <2>4, OffsetIs
  <2> QED
    BY <2>3, <2>5 DEF LiesBehind
<1>20. ByOffset(header, group) = group
  BY <1>1, <1>3, <1>19, ByOffsetSame
<1>21. ASSUME NEW s \in ToSet(group)
       PROVE  CodeFrom(header, full, group, plain.data, s) = Code(library.shaders[s].hash)
  <2>1. PICK k \in 1..Len(group) : group[k] = s
    BY <1>18
  <2> QED
    BY <1>1, <1>3, <1>10, <1>11, <1>16, <1>19, <2>1, CodeCut
<1>22. PICK code : code = [s \in DOMAIN archive.code |->
                             IF s \notin ToSet(group) THEN archive.code[s]
                             ELSE CodeFrom(header, full, group, plain.data, s)]
  OBVIOUS
<1>23. next = [result |-> "ok", method |-> plain.method, code |-> code]
  BY <1>5, <1>8, <1>20, <1>22
<1>24. next.code = code
  BY <1>23
<1> QED
  BY <1>2, <1>8, <1>21, <1>22, <1>24

\* The code of the shaders of the first n groups, unless reading failed.
CodeSoFar(library, header, archive, n) ==
  archive.result = "ok" =>
    \A s \in DOMAIN library.shaders :
      header.shaders[s].group \in 1..n => archive.code[s] = Code(library.shaders[s].hash)

\* The group of a shader is one of the groups and has it.
LEMMA InItsGroup ==
  ASSUME NEW library, NEW groups, NEW header, NEW map, Known(library, groups, header, map),
         NEW s \in DOMAIN library.shaders
  PROVE  LET g == header.shaders[s].group IN g \in 1..Len(groups) /\ s \in ToSet(groups[g])
<1>1. PICK sh : sh = NoGroups(library, groups).shaders
  OBVIOUS
<1>2. header = [result |-> "ok", maps |-> library.maps, indices |-> header.indices,
                groups |-> header.groups, shaders |-> sh]
  BY <1>1 DEF Known, HeaderSoFar
<1>3. header.shaders = sh
  BY <1>2
<1>4. sh[s].group = GroupWith(groups, s)
  BY <1>1 DEF NoGroups
<1>5. PICK g \in 1..Len(groups) : s \in ToSet(groups[g])
  BY DEF Known, Grouped, Splits
<1>6. DOMAIN groups = 1..Len(groups)
  <2>1. PICK R : R = Seq(DOMAIN library.shaders)
    OBVIOUS
  <2>2. groups \in Seq(R)
    BY <2>1 DEF Known, Grouped, Splits
  <2> QED
    BY <2>2
<1>7. PICK h : h = CHOOSE i \in DOMAIN groups : s \in ToSet(groups[i])
  OBVIOUS
<1>8. h \in DOMAIN groups /\ s \in ToSet(groups[h])
  BY <1>5, <1>6, <1>7
<1>9. header.shaders[s].group = h
  BY <1>3, <1>4, <1>7 DEF GroupWith
<1> QED
  BY <1>6, <1>8, <1>9

\* What is read of an archive is the code that the hashes of its shaders name.
LEMMA ArchiveReads ==
  ASSUME NEW library, NEW groups, NEW header, NEW map, Known(library, groups, header, map),
         AllBytes(map), NEW archive, archive = CodeRead(header, map, Numbered(header.groups)),
         archive.result = "ok"
  PROVE  \A s \in DOMAIN library.shaders : archive.code[s] = Code(library.shaders[s].hash)
<1>1. PICK N : N = Len(groups)
  OBVIOUS
<1>2. N \in Nat /\ DOMAIN header.groups = 1..N
  <2>1. N \in Nat
    BY <1>1 DEF Known, Grouped, Splits
  <2>2. PICK hs : hs = header.groups
    OBVIOUS
  <2>3. hs \in Seq(AnyEntry) /\ Len(hs) = N
    BY <1>1, <2>2 DEF Known, HeaderSoFar
  <2> QED
    BY <2>1, <2>2, <2>3
<1>3. PICK f : ReadsTo(f, header, map, N) /\ CodeRead(header, map, Numbered(header.groups)) = f[N]
  <2>1. ReadsAll(header, map, N)
    BY <1>2, ReadsGroups
  <2> QED
    BY <2>1 DEF ReadsAll
<1> DEFINE I(n) == ReadSoFar(library, f[n]) /\ CodeSoFar(library, header, f[n], n)
           T == {n \in 0..N : I(n)}
<1>4. I(0)
  <2>1. DOMAIN header.shaders = DOMAIN library.shaders
    <3>1. PICK sh : sh = NoGroups(library, groups).shaders
      OBVIOUS
    <3>2. header = [result |-> "ok", maps |-> library.maps, indices |-> header.indices,
                    groups |-> header.groups, shaders |-> sh]
      BY <3>1 DEF Known, HeaderSoFar
    <3>3. header.shaders = sh
      BY <3>2
    <3>4. DOMAIN sh = DOMAIN library.shaders
      BY <3>1 DEF NoGroups
    <3> QED
      BY <3>3, <3>4
  <2>2. PICK code : code = [s \in DOMAIN library.shaders |-> <<>>]
    OBVIOUS
  <2>3. f[0] = [result |-> "ok", method |-> NoMethod, code |-> code]
    BY <1>3, <2>1, <2>2 DEF ReadsTo, NoCode
  <2>4. f[0].method = NoMethod /\ f[0].code = code
    BY <2>3
  <2>5. NoMethod \in Methods
    BY DEF Methods
  <2>6. code \in [DOMAIN library.shaders -> Seq(AnyByte)]
    <3>1. PICK B : B = Seq(AnyByte)
      OBVIOUS
    <3>2. <<>> \in B
      BY <3>1
    <3>3. code \in [DOMAIN library.shaders -> B]
      BY <2>2, <3>2
    <3> QED
      BY <3>1, <3>3
  <2>7. ReadSoFar(library, f[0])
    BY <2>3, <2>4, <2>5, <2>6 DEF ReadSoFar
  <2>8. 1..0 = {}
    OBVIOUS
  <2>9. CodeSoFar(library, header, f[0], 0)
    BY <2>8 DEF CodeSoFar
  <2> QED
    BY <2>7, <2>9
<1>5. ASSUME NEW n \in 0..(N - 1), I(n)
      PROVE  I(n + 1)
  <2>1. f[n + 1] = ReadGroup(header, map, f[n], n + 1)
    BY <1>3 DEF ReadsTo
  <2>2. n + 1 \in 1..Len(groups) /\ \A g \in 1..(n + 1) : g \in 1..n \/ g = n + 1
    BY <1>1, <1>2
  <2>3. ReadSoFar(library, f[n + 1])
    BY <1>5, <2>1, <2>2, ReadKeeps DEF Known
  <2>4. ASSUME f[n + 1].result = "ok", NEW s \in DOMAIN library.shaders,
               header.shaders[s].group \in 1..(n + 1)
        PROVE  f[n + 1].code[s] = Code(library.shaders[s].hash)
    <3>1. /\ f[n].result = "ok"
          /\ \A t \in DOMAIN f[n].code :
               f[n + 1].code[t] = IF t \in ToSet(groups[n + 1]) THEN Code(library.shaders[t].hash)
                                  ELSE f[n].code[t]
      BY <2>1, <2>2, <2>4, GroupReads
    <3>2. DOMAIN f[n].code = DOMAIN library.shaders
      BY <1>5, <3>1 DEF ReadSoFar
    <3>3. CASE s \in ToSet(groups[n + 1])
      BY <3>1, <3>2, <3>3
    <3>4. CASE s \notin ToSet(groups[n + 1])
      <4>1. PICK g : g = header.shaders[s].group
        OBVIOUS
      <4>2. s \in ToSet(groups[g])
        BY <4>1, InItsGroup
      <4>3. g # n + 1
        BY <3>4, <4>2
      <4>4. g \in 1..n
        BY <2>2, <2>4, <4>1, <4>3
      <4>5. f[n].code[s] = Code(library.shaders[s].hash)
        BY <1>5, <3>1, <4>1, <4>4 DEF CodeSoFar
      <4> QED
        BY <3>1, <3>2, <3>4, <4>5
    <3> QED
      BY <3>3, <3>4
  <2>5. CodeSoFar(library, header, f[n + 1], n + 1)
    BY <2>4 DEF CodeSoFar
  <2> QED
    BY <2>3, <2>5
<1>6. I(N)
  <2> HIDE DEF I
  <2>1. 0 \in T
    BY <1>2, <1>4
  <2>2. \A n \in 0..(N - 1) : n \in T => n + 1 \in T
    <3>1. \A n \in 0..(N - 1) : n + 1 \in 0..N
      BY <1>2
    <3> QED
      BY <1>5, <3>1
  <2> HIDE DEF T
  <2>3. 0..N \subseteq T
    BY <1>2, <2>1, <2>2, Induction
  <2>4. N \in 0..N
    BY <1>2
  <2>5. N \in T
    BY <2>3, <2>4
  <2> QED
    BY <2>5 DEF T
<1>7. \A s \in DOMAIN library.shaders : header.shaders[s].group \in 1..N
  BY <1>1, InItsGroup
<1> QED
  BY <1>3, <1>6, <1>7 DEF CodeSoFar

-----------------------------------------------------------------------------
(* The code of a rebuilt library.                                          *)

\* Compression makes something of the code of a shader.
LEMMA PackedSome == ASSUME NEW h \in DOMAIN FullSize PROVE PackedOf(<<h>>) \in Nat \ {0}
<1>1. PICK of : of = <<h>>
  OBVIOUS
<1>2. Len(of) = 1 /\ of[1] = h
  BY <1>1
<1>3. PICK f : PackedSums(f, of, 1) /\ PackedOf(of) = f[1]
  <2>1. Len(of) \in Nat
    BY <1>2
  <2>2. PICK g : PackedSums(g, of, Len(of)) /\ PackedOf(of) = g[Len(of)]
    BY <2>1, PackedSteps
  <2> QED
    BY <1>2, <2>2
<1>4. f[0] = 0 /\ f[1] = AddPacked(f[0], of[1])
  <2>1. 0 \in 0..1 /\ 1 \in 0..1 /\ 1 # 0 /\ 1 - 1 = 0
    OBVIOUS
  <2> QED
    BY <1>3, <2>1 DEF PackedSums
<1>5. AddPacked(0, h) = 0 + PackedSize[h]
  BY DEF AddPacked, Let, Only
<1>6. PackedSize[h] \in Nat \ {0}
  BY SizesAssumption
<1> QED
  BY <1>1, <1>2, <1>3, <1>4, <1>5, <1>6

\* The code of a shader comes back, compressed or not.
LEMMA SmallestReads ==
  ASSUME NEW h \in DOMAIN FullSize, NEW code, code = Code(h), NEW method \in Methods,
         NEW bytes, bytes = code \/ bytes = Smallest(code, method),
         NEW packed, packed = Len(bytes), NEW full, full = Len(code)
  PROVE  LET plain == Plain(bytes, packed, NoMethod, full)
         IN  plain.result = "ok" /\ plain.data = code
<1>1. CASE bytes = code
  <2>1. packed = full
    BY <1>1
  <2>2. PICK plain : plain = Plain(bytes, packed, NoMethod, full)
    OBVIOUS
  <2>3. plain = [result |-> "ok", method |-> NoMethod, data |-> bytes]
    BY <2>1, <2>2 DEF Plain
  <2>4. plain.result = "ok" /\ plain.data = bytes
    BY <2>3
  <2> QED
    BY <1>1, <2>2, <2>4
<1>2. CASE bytes # code
  <2>1. /\ bytes = Pack(code, method) /\ method # NoMethod /\ Len(bytes) < Len(code)
    BY <1>2 DEF Smallest
  <2>2. code \in Seq(AnyByte) /\ OfList(code) = <<h>>
    BY OfCode
  <2>3. PICK n : n = PackedOf(<<h>>)
    OBVIOUS
  <2>4. n \in Nat \ {0}
    BY <2>3, PackedSome
  <2>5. PICK of : of = OfList(code)
    OBVIOUS
  <2>6. bytes = [i \in 1..n |-> Byte(of, method, i)]
    BY <2>1, <2>2, <2>3, <2>5, Zenon DEF Pack, OfList, OfEach, PackedOf
  <2>7. 1 \in 1..n
    BY <2>4
  <2>8. bytes[1] = Byte(of, method, 1) /\ 1 \in DOMAIN bytes
    BY <2>6, <2>7
  <2>9. bytes # <<>>
    BY <2>8
  <2>10. bytes[1].of = <<h>> /\ bytes[1].method = method
    BY <2>2, <2>5, <2>8 DEF Byte
  <2>11. PICK data : data = FlattenSeq([k \in DOMAIN bytes[1].of |-> Code(bytes[1].of[k])])
    OBVIOUS
  <2>12. data = code
    <3>1. PICK none : none = <<>>
      OBVIOUS
    <3>2. none \in Seq(DOMAIN FullSize) /\ Append(none, h) = <<h>>
      BY <3>1
    <3>3. Named(<<h>>) = Named(none) \o Code(h)
      BY <3>2, NamedNext
    <3>4. Named(none) = <<>>
      BY <3>1, NamedNone
    <3>5. <<>> \o code = code
      BY <2>2, JoinSequences
    <3>6. data = Named(<<h>>)
      BY <2>10, <2>11 DEF Named
    <3> QED
      BY <3>3, <3>4, <3>5, <3>6
  <2>13. packed # full
    <3>1. Len(bytes) \in Nat /\ Len(code) \in Nat
      <4>1. Len(code) \in Nat
        BY <2>2
      <4>2. bytes \in Seq(AnyByte)
        BY <2>1, <2>2, PackTyped
      <4> QED
        BY <4>1, <4>2
    <3> QED
      BY <2>1, <3>1
  <2>14. PICK plain : plain = Plain(bytes, packed, NoMethod, full)
    OBVIOUS
  <2>15. plain = Unpack(bytes, NoMethod, full)
    BY <2>13, <2>14 DEF Plain
  <2>16. Len(data) = full /\ bytes = Pack(data, method)
    BY <2>1, <2>12
  <2>17. plain = IF bytes # <<>> /\ bytes[1].method # NoMethod
                      /\ NoMethod \in {NoMethod, bytes[1].method}
                      /\ Len(data) = full /\ bytes = Pack(data, bytes[1].method)
                 THEN [result |-> "ok", method |-> bytes[1].method, data |-> data] ELSE Failed
    BY <2>11, <2>15 DEF Unpack
  <2>18. plain = [result |-> "ok", method |-> method, data |-> data]
    BY <2>1, <2>9, <2>10, <2>16, <2>17
  <2>19. plain.result = "ok" /\ plain.data = data
    BY <2>18
  <2> QED
    BY <2>12, <2>14, <2>19
<1> QED
  BY <1>1, <1>2

\* The code of the library that is rebuilt is what its hashes name.
CurrentCoded ==
  current # NoArchive =>
    LET library == game.libraries[current.name]
    IN  \A s \in DOMAIN library.shaders : current.code[s] = Code(library.shaders[s].hash)

\* So it is when it starts, from the chunks of the container.
LEMMA StartCodes ==
  ASSUME Container, CodeKnown, NEW name \in DOMAIN archives, StartLibrary(name)
  PROVE  CurrentCoded' \/ UNCHANGED current
<1>1. PICK read : read = ReadFrom(archives[name], chunks)
  OBVIOUS
<1>2. CASE Started(name, read)
  <2>1. PICK header : header = archives[name]
    OBVIOUS
  <2>2. PICK library : library = game.libraries[name]
    OBVIOUS
  <2>3. PICK groups : groups = GroupsOf(library, game.format)
    OBVIOUS
  <2>4. IsLibrary(library)
    BY <2>2, GamesAssumption, Zenon DEF Container
  <2>5. Known(library, groups, header, chunks) /\ AllBytes(chunks)
    <3>1. /\ header.result = "ok" /\ HeaderSoFar(library, groups, header, Len(groups))
          /\ AllBytes(chunks) /\ HasChunks(chunks, header, Len(groups))
      BY <2>1, <2>2, <2>3, Zenon DEF Container, Archived
    <3>2. Grouped(library, groups)
      BY <2>3, <2>4, GroupsOfLibrary
    <3>3. AllSized(library, groups) /\ KnownChunks(chunks)
      BY <2>2, <2>3 DEF CodeKnown
    <3> QED
      BY <2>4, <3>1, <3>2, <3>3 DEF Known
  <2>6. read = CodeRead(header, chunks, Numbered(header.groups)) /\ read.result = "ok"
    BY <1>1, <1>2, <2>1 DEF ReadFrom, Started
  <2>7. \A s \in DOMAIN library.shaders : read.code[s] = Code(library.shaders[s].hash)
    BY <2>5, <2>6, ArchiveReads
  <2>8. current'.name = name /\ current'.code = read.code /\ game' = game
    BY <1>2 DEF Started
  <2> QED
    BY <2>2, <2>7, <2>8 DEF CurrentCoded
<1>3. CASE UNCHANGED current
  BY <1>3
<1> QED
  BY <1>1, <1>2, <1>3, StartIs

\* Every step keeps it so.
LEMMA StepCodes == Container /\ CodeKnown /\ CurrentRead /\ CurrentCoded /\ [Next]_vars => CurrentCoded'
<1> SUFFICES ASSUME Container, CodeKnown, CurrentRead, CurrentCoded, [Next]_vars PROVE CurrentCoded'
  OBVIOUS
<1>1. CASE UNCHANGED <<game, current>>
  BY <1>1 DEF CurrentCoded
<1>2. CASE ConvertLibrary
  BY <1>1, <1>2 DEF ConvertLibrary
<1>3. ASSUME NEW name \in DOMAIN archives, StartLibrary(name)
      PROVE  CurrentCoded'
  <2>1. CurrentCoded' \/ UNCHANGED current
    BY <1>3, StartCodes
  <2>2. UNCHANGED game
    BY <1>3 DEF StartLibrary
  <2> QED
    BY <1>1, <2>1, <2>2
<1>4. CASE EndLibrary
  <2>1. UNCHANGED game /\ (UNCHANGED current \/ current' = NoArchive)
    BY <1>4 DEF EndLibrary
  <2>2. CASE current' = NoArchive
    BY <2>2 DEF CurrentCoded
  <2> QED
    BY <1>1, <2>1, <2>2
<1>5. \/ UNCHANGED <<game, current>> \/ ConvertLibrary \/ EndLibrary
      \/ \E name \in DOMAIN archives : StartLibrary(name)
  BY DEF Next, Rebuild, Send, CloseChannel, Take, Work, Receive, AllRebuilt, Ended, vars
<1> QED
  BY <1>1, <1>2, <1>3, <1>4, <1>5

\* What survives of a library.
ShaderSurvives(before, after, s) ==
  /\ after.shaders[s].hash = before.shaders[s].hash
  /\ after.shaders[s].frequency = before.shaders[s].frequency
  /\ CodeIn(after, s).result = "ok"
  /\ CodeIn(after, s).data = Code(before.shaders[s].hash)
MapSurvives(before, after, m) ==
  /\ after.maps[m].hash = before.maps[m].hash
  /\ ShadersOf(after, m) = ShadersOf(before, m)
Survives(before, after) ==
  /\ Len(after.shaders) = Len(before.shaders)
  /\ \A s \in DOMAIN before.shaders : ShaderSurvives(before, after, s)
  /\ Len(after.maps) = Len(before.maps)
  /\ \A m \in DOMAIN before.maps : MapSurvives(before, after, m)

\* The shaders and the maps of a rebuilt library.
RebuiltShaders(header, written, code) ==
  [s \in DOMAIN header.shaders |->
    [hash |-> header.shaders[s].hash, frequency |-> header.shaders[s].frequency,
     offset |-> written.shaders[s].offset, size |-> written.shaders[s].size,
     full |-> Len(code[s])]]
RebuiltMap(header, m, first, number) ==
  [hash |-> header.maps[m].hash, first |-> header.maps[m].first, count |-> header.maps[m].count,
   firstPreload |-> first, preloads |-> number]
RebuiltMaps(header, written) ==
  LET preloads == [m \in DOMAIN header.maps |-> PreloadsOf(header, written, m)]
      Before(m) == Len(FlattenSeq(SubSeq(preloads, 1, m - 1)))
  IN  [m \in DOMAIN header.maps |-> RebuiltMap(header, m, Before(m), Len(preloads[m]))]

\* They are these, with the indices of the header and the code that is written.
LEMMA RebuiltIs ==
  ASSUME NEW archive, NEW written, NEW after, after = RebuiltLibrary(archive, written)
  PROVE  /\ after.shaders = RebuiltShaders(archive.header, written, archive.code)
         /\ after.maps = RebuiltMaps(archive.header, written)
         /\ after.indices = archive.header.indices /\ after.code = written.code
<1>1. PICK sh : sh = RebuiltShaders(archive.header, written, archive.code)
  OBVIOUS
<1>2. PICK mp : mp = RebuiltMaps(archive.header, written)
  OBVIOUS
<1>3. PICK pr : pr = FlattenSeq([m \in DOMAIN archive.header.maps |-> PreloadsOf(archive.header, written, m)])
  OBVIOUS
<1>4. after = [maps |-> mp, shaders |-> sh, preloads |-> pr, indices |-> archive.header.indices,
               code |-> written.code]
  BY <1>1, <1>2, <1>3 DEF RebuiltLibrary, RebuiltShaders, RebuiltMaps, RebuiltMap
<1> QED
  BY <1>1, <1>2, <1>4

\* A part of two sequences that begin in the same way.
LEMMA SamePart ==
  ASSUME NEW D, NEW a \in Seq(D), NEW b \in Seq(D), Len(a) <= Len(b),
         \A k \in 1..Len(a) : b[k] = a[k],
         NEW first \in Nat, NEW count \in Nat, first + count <= Len(a)
  PROVE  SubSeq(b, first + 1, first + count) = SubSeq(a, first + 1, first + count)
<1>1. PICK p : p = SubSeq(b, first + 1, first + count)
  OBVIOUS
<1>2. PICK q : q = SubSeq(a, first + 1, first + count)
  OBVIOUS
<1>3. \A i \in 1..count : first + i \in 1..Len(a) /\ first + i \in 1..Len(b) /\ (first + 1) + i - 1 = first + i
  OBVIOUS
<1>4. (first + count) - (first + 1) + 1 = count
  OBVIOUS
<1>5. p = [i \in 1..count |-> b[first + i]]
  BY <1>1, <1>3, <1>4
<1>6. q = [i \in 1..count |-> a[first + i]]
  BY <1>2, <1>3, <1>4
<1>7. \A i \in 1..count : a[first + i] = b[first + i]
  BY <1>3
<1> QED
  BY <1>1, <1>2, <1>5, <1>6, <1>7

\* Every map of a library that ends has its shaders.
LEMMA MapsRebuilt ==
  ASSUME Container, CurrentRead, current # NoArchive,
         NEW before, before = game.libraries[current.name],
         NEW after, after = RebuiltLibrary(current, layout)
  PROVE  /\ Len(after.maps) = Len(before.maps)
         /\ \A m \in DOMAIN before.maps : MapSurvives(before, after, m)
<1>1. PICK header : header = current.header
  OBVIOUS
<1>2. PICK D : D = DOMAIN before.shaders
  OBVIOUS
<1>3. IsLibrary(before) /\ header.maps = before.maps /\ Extends(D, before.indices, header.indices)
  BY <1>1, <1>2, CurrentHeader
<1>4. PICK mp : mp = RebuiltMaps(header, layout)
  BY SMTT(60)
<1>5. after.maps = mp /\ after.indices = header.indices
  BY <1>1, <1>4, RebuiltIs, SMTT(60)
<1>6. PICK M \in Nat : DOMAIN before.maps = 1..M /\ Len(before.maps) = M
  BY <1>3 DEF IsLibrary
<1>7. mp = [m \in 1..M |-> mp[m]]
  BY <1>3, <1>4, <1>6 DEF RebuiltMaps
<1>8. Len(mp) = M
  BY <1>6, <1>7, SMTT(60)
<1>9. ASSUME NEW m \in 1..M
      PROVE  MapSurvives(before, after, m)
  <2>1. PICK map : map = before.maps[m]
    OBVIOUS
  <2>2. PICK preloads, number : mp[m] = RebuiltMap(header, m, preloads, number)
    BY <1>3, <1>4, <1>6, ZenonT(60) DEF RebuiltMaps
  <2>3. mp[m].hash = map.hash /\ mp[m].first = map.first /\ mp[m].count = map.count
    BY <1>3, <2>1, <2>2, SMTT(60) DEF RebuiltMap
  <2>4. /\ map.first \in Nat /\ map.count \in Nat
        /\ map.first + map.count <= Len(before.indices) /\ before.indices \in Seq(D)
    BY <1>2, <1>3, <1>6, <2>1, Zenon DEF IsLibrary
  <2>5. /\ header.indices \in Seq(D) /\ Len(before.indices) <= Len(header.indices)
        /\ \A k \in 1..Len(before.indices) : header.indices[k] = before.indices[k]
    BY <1>3 DEF Extends
  <2>6. SubSeq(header.indices, map.first + 1, map.first + map.count)
          = SubSeq(before.indices, map.first + 1, map.first + map.count)
    <3>1. PICK a : a = before.indices
      OBVIOUS
    <3>2. PICK b : b = header.indices
      OBVIOUS
    <3>3. PICK first : first = map.first
      OBVIOUS
    <3>4. PICK count : count = map.count
      OBVIOUS
    <3>5. /\ a \in Seq(D) /\ b \in Seq(D) /\ Len(a) <= Len(b) /\ first \in Nat /\ count \in Nat
          /\ first + count <= Len(a)
      BY <2>4, <2>5, <3>1, <3>2, <3>3, <3>4
    <3>6. \A k \in 1..Len(a) : b[k] = a[k]
      BY <2>5, <3>1, <3>2
    <3>7. SubSeq(b, first + 1, first + count) = SubSeq(a, first + 1, first + count)
      BY <3>5, <3>6, SamePart, ZenonT(60)
    <3> QED
      BY <3>1, <3>2, <3>3, <3>4, <3>7
  <2>7. ShadersOf(after, m) = SubSeq(header.indices, map.first + 1, map.first + map.count)
    BY <1>5, <2>3 DEF ShadersOf, RangeOf
  <2>8. ShadersOf(before, m) = SubSeq(before.indices, map.first + 1, map.first + map.count)
    BY <2>1 DEF ShadersOf, RangeOf
  <2> QED
    BY <1>5, <2>1, <2>3, <2>6, <2>7, <2>8, ZenonT(60) DEF MapSurvives
<1> QED
  BY <1>5, <1>6, <1>8, <1>9

\* Every shader of a library that ends has its code.
LEMMA ShadersRebuilt ==
  ASSUME Container, CurrentRead, CurrentCoded, current # NoArchive,
         EveryShaderWritten, receiving, MayEnd,
         NEW before, before = game.libraries[current.name],
         NEW after, after = RebuiltLibrary(current, layout)
  PROVE  /\ Len(after.shaders) = Len(before.shaders)
         /\ \A s \in DOMAIN before.shaders : ShaderSurvives(before, after, s)
<1>1. PICK header : header = current.header
  OBVIOUS
<1>2. PICK D : D = DOMAIN before.shaders
  OBVIOUS
<1>3. PICK groups : groups = GroupsOf(before, game.format)
  OBVIOUS
<1>4. /\ IsLibrary(before) /\ DOMAIN header.shaders = D /\ header.result = "ok"
      /\ HeaderSoFar(before, groups, header, Len(groups))
  BY <1>1, <1>2, <1>3, CurrentHeader
<1>5. PICK N \in Nat : D = 1..N /\ Len(before.shaders) = N
  BY <1>2, <1>4, ShaderTypes
<1>6. PICK sh : sh = RebuiltShaders(header, layout, current.code)
  OBVIOUS
<1>7. after.shaders = sh /\ after.code = layout.code
  BY <1>1, <1>6, RebuiltIs
<1>8. sh = [s \in 1..N |-> [hash |-> header.shaders[s].hash, frequency |-> header.shaders[s].frequency,
                            offset |-> layout.shaders[s].offset, size |-> layout.shaders[s].size,
                            full |-> Len(current.code[s])]]
  BY <1>4, <1>5, <1>6 DEF RebuiltShaders
<1>9. Len(sh) = N
  BY <1>8
<1>10. current.method \in Methods /\ DOMAIN current.code = D
  BY <1>2, SMTT(60) DEF CurrentRead
<1>11. ASSUME NEW s \in D
       PROVE  ShaderSurvives(before, after, s)
  <2>1. PICK e : e = sh[s]
    OBVIOUS
  <2>2. e = [hash |-> header.shaders[s].hash, frequency |-> header.shaders[s].frequency,
             offset |-> layout.shaders[s].offset, size |-> layout.shaders[s].size,
             full |-> Len(current.code[s])]
    BY <1>5, <1>8, <2>1
  <2>3. PICK h : h = before.shaders[s].hash
    OBVIOUS
  <2>4. h \in DOMAIN FullSize
    BY <1>2, <1>4, <2>3, ShaderTypes
  <2>5. header.shaders[s].hash = h /\ header.shaders[s].frequency = before.shaders[s].frequency
    <3>1. PICK no : no = NoGroups(before, groups).shaders
      OBVIOUS
    <3>2. header = [result |-> "ok", maps |-> before.maps, indices |-> header.indices,
                    groups |-> header.groups, shaders |-> no]
      BY <1>4, <3>1, SMTT(60) DEF HeaderSoFar
    <3>3. header.shaders = no
      BY <3>2, SMTT(60)
    <3>4. no[s] = [hash |-> before.shaders[s].hash, frequency |-> before.shaders[s].frequency,
                   group |-> GroupWith(groups, s),
                   offset |-> OffsetIn(before, groups[GroupWith(groups, s)], s)]
      BY <1>2, <3>1, Zenon DEF NoGroups
    <3> QED
      BY <2>3, <3>3, <3>4
  <2>6. PICK code : code = current.code[s]
    OBVIOUS
  <2>7. code = Code(h)
    BY <1>2, <2>3, <2>6 DEF CurrentCoded
  <2>8. PICK bytes : bytes = Result(s)
    OBVIOUS
  <2>9. bytes = code \/ bytes = Smallest(code, current.method)
    BY <2>6, <2>8 DEF Result
  <2>10. /\ layout.shaders[s].size = Len(bytes)
         /\ SubSeq(layout.code, layout.shaders[s].offset + 1,
                   layout.shaders[s].offset + layout.shaders[s].size) = bytes
    BY <1>10, <2>8 DEF EveryShaderWritten
  <2>11. PICK packed : packed = Len(bytes)
    OBVIOUS
  <2>12. PICK full : full = Len(code)
    OBVIOUS
  <2>13. e.size = packed /\ e.full = full /\ SubSeq(after.code, e.offset + 1, e.offset + e.size) = bytes
    <3>1. e.offset = layout.shaders[s].offset /\ e.size = layout.shaders[s].size
          /\ e.full = Len(current.code[s])
      BY <2>2
    <3> QED
      BY <1>7, <2>6, <2>10, <2>11, <2>12, <3>1
  <2>14. PICK plain : plain = Plain(bytes, packed, NoMethod, full)
    OBVIOUS
  <2>15. plain.result = "ok" /\ plain.data = code
    BY <1>10, <2>4, <2>7, <2>9, <2>11, <2>12, <2>14, SmallestReads
  <2>16. CodeIn(after, s) = plain
    <3>1. after.shaders[s] = e
      BY <1>7, <2>1
    <3>2. CodeIn(after, s)
            = Plain(SubSeq(after.code, e.offset + 1, e.offset + e.size), e.size, NoMethod, e.full)
      BY <3>1 DEF CodeIn
    <3> QED
      BY <2>13, <2>14, <3>2
  <2>17. after.shaders[s].hash = h /\ after.shaders[s].frequency = before.shaders[s].frequency
    BY <1>7, <2>1, <2>2, <2>5
  <2> QED
    BY <2>3, <2>7, <2>15, <2>16, <2>17 DEF ShaderSurvives
<1> QED
  BY <1>2, <1>5, <1>7, <1>9, <1>11

\* What has been rebuilt survived.
AllSurvive == \A name \in DOMAIN rebuilt : Survives(game.libraries[name], rebuilt[name].library)

\* A library that ends survives.
LEMMA EndSurvives ==
  ASSUME Container, CurrentRead, CurrentCoded, IInv, WellFormed, AllSurvive, EndLibrary
  PROVE  AllSurvive'
<1>1. game' = game /\ current # NoArchive /\ MayEnd
  BY DEF EndLibrary
<1>2. PICK after : after = RebuiltLibrary(current, layout)
  OBVIOUS
<1>3. PICK info : info = AssetInfo(current.header)
  OBVIOUS
<1>4. \/ UNCHANGED rebuilt
      \/ receiving /\ rebuilt' = WithKey(rebuilt, current.name, [library |-> after, info |-> info])
  BY <1>2, <1>3 DEF EndLibrary
<1>5. CASE UNCHANGED rebuilt
  BY <1>1, <1>5 DEF AllSurvive
<1>6. CASE receiving /\ rebuilt' = WithKey(rebuilt, current.name, [library |-> after, info |-> info])
  <2>1. PICK before : before = game.libraries[current.name]
    OBVIOUS
  <2>2. EveryShaderWritten
    BY AllWritten
  <2>3. /\ Len(after.shaders) = Len(before.shaders)
        /\ \A s \in DOMAIN before.shaders : ShaderSurvives(before, after, s)
    BY <1>1, <1>2, <1>6, <2>1, <2>2, ShadersRebuilt
  <2>4. /\ Len(after.maps) = Len(before.maps)
        /\ \A m \in DOMAIN before.maps : MapSurvives(before, after, m)
    BY <1>1, <1>2, <2>1, MapsRebuilt
  <2>5. Survives(before, after)
    BY <2>3, <2>4 DEF Survives
  <2>6. PICK name : name = current.name
    OBVIOUS
  <2>7. PICK entry : entry = [library |-> after, info |-> info]
    OBVIOUS
  <2>8. entry.library = after
    BY <2>7
  <2>9. rebuilt' = [z \in DOMAIN rebuilt \cup {name} |-> IF z = name THEN entry ELSE rebuilt[z]]
    BY <1>6, <2>6, <2>7 DEF WithKey
  <2>10. ASSUME NEW z \in DOMAIN rebuilt'
         PROVE  Survives(game.libraries[z], rebuilt'[z].library)
    <3>1. CASE z = name
      BY <2>1, <2>5, <2>6, <2>8, <2>9, <3>1
    <3>2. CASE z # name
      <4>1. z \in DOMAIN rebuilt /\ rebuilt'[z] = rebuilt[z]
        BY <2>9, <3>2
      <4>2. Survives(game.libraries[z], rebuilt[z].library)
        BY <4>1 DEF AllSurvive
      <4> QED
        BY <4>1, <4>2
    <3> QED
      BY <3>1, <3>2
  <2> QED
    BY <1>1, <2>10 DEF AllSurvive
<1> QED
  BY <1>4, <1>5, <1>6

\* Every step keeps what survived.
LEMMA StepSurvives ==
  Container /\ CurrentRead /\ CurrentCoded /\ IInv /\ WellFormed /\ AllSurvive /\ [Next]_vars
    => AllSurvive'
<1> SUFFICES ASSUME Container, CurrentRead, CurrentCoded, IInv, WellFormed, AllSurvive, [Next]_vars
             PROVE  AllSurvive'
  OBVIOUS
<1>1. CASE EndLibrary
  BY <1>1, EndSurvives
<1>2. CASE UNCHANGED <<game, rebuilt>>
  BY <1>2 DEF AllSurvive
<1>3. EndLibrary \/ UNCHANGED <<game, rebuilt>>
  BY DEF Next, Rebuild, ConvertLibrary, StartLibrary, Send, CloseChannel, Take, Work, Receive,
         AllRebuilt, Ended, vars
<1> QED
  BY <1>1, <1>2, <1>3

\* A library that comes back has every shader with the code that its hash names and
\* every map with its shaders: for any libraries of a game whose hashes name their
\* code, however grouping, compression and another library that writes a chunk of the
\* same name change what lies in the container, in whatever order the threads end.
THEOREM CodeAlwaysSurvives == Spec => []CodeSurvives
<1>1. Init => CodeKnown /\ CurrentRead /\ CurrentCoded /\ AllSurvive
  <2>1. DOMAIN NoMap = {}
    BY DEF NoMap
  <2> QED
    BY <2>1, InitKnows DEF Init, CurrentRead, CurrentCoded, AllSurvive
<1>2. AllSurvive => CodeSurvives
  BY DEF AllSurvive, Survives, ShaderSurvives, MapSurvives, CodeSurvives, BetweenLibraries
<1> QED
  BY <1>1, <1>2, ContainerSafety, PipelineSafety, EachSentOnce, StepKnows, StepReads, StepCodes,
     StepSurvives, PTL DEF Spec

-----------------------------------------------------------------------------
(* The packages that use the maps.                                         *)

\* A package refers to a map, in the references and in an asset info.
Refers(refs, h, p) == p \in DOMAIN refs /\ h \in ToSet(refs[p])
Informs(info, h, p) == \E entry \in ToSet(info) : entry.hash = h /\ p \in ToSet(entry.packages)
AreReferences(refs) == \A p \in DOMAIN refs : IsList(refs[p])

\* One element more of a list.
LEMMA AppendedList ==
  ASSUME NEW list, IsList(list), NEW x
  PROVE  IsList(Append(list, x)) /\ ToSet(Append(list, x)) = ToSet(list) \cup {x}
<1>1. PICK S : S = ToSet(list) \cup {x}
  OBVIOUS
<1>2. list \in Seq(S) /\ x \in S
  <2>1. PICK R : R = ToSet(list)
    OBVIOUS
  <2>2. list \in Seq(R) /\ R \subseteq S
    BY <1>1, <2>1 DEF IsList
  <2> QED
    BY <1>1, <2>2
<1>3. PICK N \in Nat : N = Len(list) /\ DOMAIN list = 1..N
  BY <1>2
<1>4. PICK more : more = Append(list, x)
  OBVIOUS
<1>5. /\ more \in Seq(S) /\ Len(more) = N + 1 /\ DOMAIN more = 1..(N + 1) /\ more[N + 1] = x
      /\ \A k \in 1..N : more[k] = list[k]
  BY <1>2, <1>3, <1>4
<1>6. \A k \in 1..(N + 1) : k \in 1..N \/ k = N + 1
  OBVIOUS
<1>7. \A k \in 1..N : k \in 1..(N + 1)
  OBVIOUS
<1>8. N + 1 \in 1..(N + 1)
  BY <1>3
<1>9. ToSet(more) = {more[k] : k \in 1..(N + 1)} /\ ToSet(list) = {list[k] : k \in 1..N}
  BY <1>3, <1>5 DEF ToSet
<1>10. ToSet(more) = S
  BY <1>1, <1>5, <1>6, <1>7, <1>8, <1>9
<1> QED
  BY <1>1, <1>4, <1>5, <1>10 DEF IsList

\* A package that is listed refers to one map more.
Pushed(map, p, h) == WithKey(map, p, Append(IF p \in DOMAIN map THEN map[p] ELSE <<>>, h))

\* After it, p refers to h as well, and all else as before.
LEMMA PushedRefers ==
  ASSUME NEW map, AreReferences(map), NEW p, NEW h
  PROVE  /\ AreReferences(Pushed(map, p, h))
         /\ \A i, q : Refers(Pushed(map, p, h), i, q) <=> Refers(map, i, q) \/ (i = h /\ q = p)
<1>1. PICK old : old = IF p \in DOMAIN map THEN map[p] ELSE <<>>
  OBVIOUS
<1>2. PICK new : new = Append(old, h)
  OBVIOUS
<1>3. IsList(old)
  <2>1. CASE p \in DOMAIN map
    BY <1>1, <2>1 DEF AreReferences
  <2>2. CASE p \notin DOMAIN map
    <3>1. old = <<>>
      BY <1>1, <2>2
    <3>2. <<>> \in Seq(ToSet(<<>>))
      OBVIOUS
    <3> QED
      BY <3>1, <3>2 DEF IsList
  <2> QED
    BY <2>1, <2>2
<1>4. IsList(new) /\ ToSet(new) = ToSet(old) \cup {h}
  BY <1>2, <1>3, AppendedList
<1>5. PICK refs : refs = Pushed(map, p, h)
  OBVIOUS
<1>6. refs = [z \in DOMAIN map \cup {p} |-> IF z = p THEN new ELSE map[z]]
  BY <1>1, <1>2, <1>5 DEF Pushed, WithKey
<1>7. AreReferences(refs)
  BY <1>4, <1>6 DEF AreReferences
<1>8. ASSUME NEW i, NEW q
      PROVE  Refers(refs, i, q) <=> Refers(map, i, q) \/ (i = h /\ q = p)
  <2>1. CASE q # p
    <3>1. q \in DOMAIN refs <=> q \in DOMAIN map
      BY <1>6, <2>1
    <3>2. q \in DOMAIN map => refs[q] = map[q]
      BY <1>6, <2>1
    <3> QED
      BY <2>1, <3>1, <3>2 DEF Refers
  <2>2. CASE q = p
    <3>1. q \in DOMAIN refs /\ refs[q] = new
      BY <1>6, <2>2
    <3>2. i \in ToSet(old) <=> Refers(map, i, q)
      <4>1. CASE p \in DOMAIN map
        BY <1>1, <2>2, <4>1 DEF Refers
      <4>2. CASE p \notin DOMAIN map
        <5>1. old = <<>>
          BY <1>1, <4>2
        <5>2. ToSet(<<>>) = {}
          BY DEF ToSet
        <5> QED
          BY <2>2, <4>2, <5>1, <5>2 DEF Refers
      <4> QED
        BY <4>1, <4>2
    <3>3. Refers(refs, i, q) <=> i \in ToSet(old) \cup {h}
      BY <1>4, <3>1 DEF Refers
    <3> QED
      BY <2>2, <3>2, <3>3
  <2> QED
    BY <2>1, <2>2
<1> QED
  BY <1>5, <1>7, <1>8

\* The packages of an entry, a step at a time.
AddPackage(hash, map, p) == Let(<<map, p>>, LAMBDA pair : Pushed(pair[1], pair[2], hash))
PushedAll(hash, map, list) == Fold(LAMBDA m, p : Pushed(m, p, hash), map, list)
Pushes(f, hash, map, list, n) ==
  f = [k \in 0..n |-> IF k = 0 THEN map ELSE AddPackage(hash, f[k - 1], list[k])]

\* There are such references, and the last are the result.
LEMMA PushedAllSteps ==
  ASSUME NEW hash, NEW map, NEW list, Len(list) \in Nat
  PROVE  \E f : Pushes(f, hash, map, list, Len(list)) /\ PushedAll(hash, map, list) = f[Len(list)]
<1> DEFINE T == {n \in 0..Len(list) : \E g : Pushes(g, hash, map, list, n)}
<1>1. 0 \in T
  <2>1. Pushes([k \in 0..0 |-> map], hash, map, list, 0)
    BY DEF Pushes
  <2> QED
    BY <2>1
<1>2. ASSUME NEW n \in 0..(Len(list) - 1), n \in T
      PROVE  n + 1 \in T
  <2>1. PICK g : Pushes(g, hash, map, list, n)
    BY <1>2
  <2>2. PICK h : h = [k \in 0..(n + 1) |->
                        IF k = n + 1 THEN AddPackage(hash, g[n], list[n + 1]) ELSE g[k]]
    OBVIOUS
  <2>3. Pushes(h, hash, map, list, n + 1)
    <3>1. \A k \in 0..(n + 1) : k = n + 1 \/ k \in 0..n
      OBVIOUS
    <3>2. \A k \in 0..n : k # n + 1 /\ k \in 0..(n + 1) /\ (k # 0 => k - 1 \in 0..n)
      OBVIOUS
    <3>3. \A k \in 0..n : h[k] = g[k]
      BY <2>2, <3>2
    <3>4. ASSUME NEW k \in 0..n
          PROVE  h[k] = IF k = 0 THEN map ELSE AddPackage(hash, h[k - 1], list[k])
      BY <2>1, <3>2, <3>3 DEF Pushes
    <3>5. h[n + 1] = AddPackage(hash, h[n], list[n + 1]) /\ n + 1 # 0 /\ (n + 1) - 1 = n
      BY <2>2, <3>2, <3>3
    <3>6. \A k \in 0..(n + 1) :
            h[k] = IF k = 0 THEN map ELSE AddPackage(hash, h[k - 1], list[k])
      BY <3>1, <3>4, <3>5
    <3> QED
      BY <2>2, <3>6 DEF Pushes
  <2>4. n + 1 \in 0..Len(list)
    OBVIOUS
  <2> QED
    BY <2>3, <2>4
<1>3. Len(list) \in T
  <2> HIDE DEF T
  <2>1. 0..Len(list) \subseteq T
    BY <1>1, <1>2, Induction
  <2> QED
    BY <2>1
<1>4. \E f : Pushes(f, hash, map, list, Len(list))
  BY <1>3
<1>5. PushedAll(hash, map, list) = (CHOOSE f : Pushes(f, hash, map, list, Len(list)))[Len(list)]
  BY DEF Pushes, PushedAll, Fold, AddPackage
<1> QED
  BY <1>4, <1>5

\* So the packages of an entry refer to its map.
LEMMA PackagesRefer ==
  ASSUME NEW h, NEW map, AreReferences(map), NEW list, IsList(list)
  PROVE  /\ AreReferences(PushedAll(h, map, list))
         /\ \A i, q : Refers(PushedAll(h, map, list), i, q)
                        <=> Refers(map, i, q) \/ (i = h /\ q \in ToSet(list))
<1>1. PICK N \in Nat : N = Len(list) /\ DOMAIN list = 1..N
  <2>1. PICK R : R = ToSet(list)
    OBVIOUS
  <2>2. list \in Seq(R)
    BY <2>1 DEF IsList
  <2> QED
    BY <2>2
<1>2. PICK f : Pushes(f, h, map, list, N) /\ PushedAll(h, map, list) = f[N]
  BY <1>1, PushedAllSteps
<1>3. f[0] = map
  <2>1. 0 \in 0..N
    OBVIOUS
  <2> QED
    BY <1>2, <2>1 DEF Pushes
<1>4. \A n \in 0..(N - 1) : f[n + 1] = Pushed(f[n], list[n + 1], h)
  <2>1. \A n \in 0..(N - 1) : n + 1 \in 0..N /\ n + 1 # 0 /\ (n + 1) - 1 = n
    OBVIOUS
  <2>2. \A n \in 0..(N - 1) : f[n + 1] = AddPackage(h, f[n], list[n + 1])
    BY <1>2, <2>1 DEF Pushes
  <2>3. \A m, p : AddPackage(h, m, p) = Pushed(m, p, h)
    BY DEF AddPackage, Let, Only
  <2> QED
    BY <2>2, <2>3
<1> DEFINE I(n) == /\ AreReferences(f[n])
                   /\ \A i, q : Refers(f[n], i, q)
                                  <=> Refers(map, i, q) \/ (i = h /\ \E k \in 1..n : q = list[k])
           T == {n \in 0..N : I(n)}
<1>5. I(0)
  <2>1. \A k \in 1..0 : FALSE
    OBVIOUS
  <2> QED
    BY <1>3, <2>1
<1>6. ASSUME NEW n \in 0..(N - 1), I(n)
      PROVE  I(n + 1)
  <2>1. PICK p : p = list[n + 1]
    OBVIOUS
  <2>2. PICK m : m = f[n]
    OBVIOUS
  <2>3. PICK l : l = f[n + 1]
    OBVIOUS
  <2>4. l = Pushed(m, p, h) /\ AreReferences(m)
    BY <1>4, <1>6, <2>1, <2>2, <2>3
  <2>5. /\ AreReferences(l)
        /\ \A i, q : Refers(l, i, q) <=> Refers(m, i, q) \/ (i = h /\ q = p)
    BY <2>4, PushedRefers
  <2>6. \A k : k \in 1..(n + 1) <=> k \in 1..n \/ k = n + 1
    OBVIOUS
  <2>7. \A q : (\E k \in 1..(n + 1) : q = list[k]) <=> (\E k \in 1..n : q = list[k]) \/ q = p
    BY <2>1, <2>6
  <2>8. \A i, q : Refers(m, i, q)
                    <=> Refers(map, i, q) \/ (i = h /\ \E k \in 1..n : q = list[k])
    BY <1>6, <2>2
  <2>9. \A i, q : Refers(l, i, q)
                    <=> Refers(map, i, q) \/ (i = h /\ \E k \in 1..(n + 1) : q = list[k])
    BY <2>5, <2>7, <2>8
  <2> QED
    BY <2>3, <2>5, <2>9
<1>7. I(N)
  <2> HIDE DEF I
  <2>1. 0 \in T
    BY <1>5
  <2>2. \A n \in 0..(N - 1) : n \in T => n + 1 \in T
    <3>1. \A n \in 0..(N - 1) : n + 1 \in 0..N
      OBVIOUS
    <3> QED
      BY <1>6, <3>1
  <2> HIDE DEF T
  <2>3. 0..N \subseteq T
    BY <2>1, <2>2, Induction
  <2>4. N \in 0..N
    OBVIOUS
  <2>5. N \in T
    BY <2>3, <2>4
  <2> QED
    BY <2>5 DEF T
<1>8. \A q : q \in ToSet(list) <=> \E k \in 1..N : q = list[k]
  BY <1>1 DEF ToSet
<1> QED
  BY <1>2, <1>7, <1>8

\* The entries of an asset info, a step at a time.
WithInfoEntry(map, entry) == PushedAll(entry.hash, map, entry.packages)
AddInfoEntry(map, entry) == Let(<<map, entry>>, LAMBDA pair : WithInfoEntry(pair[1], pair[2]))
InfoAdded(map, list) == Fold(LAMBDA m, entry : WithInfoEntry(m, entry), map, list)
Infos(f, map, list, n) ==
  f = [k \in 0..n |-> IF k = 0 THEN map ELSE AddInfoEntry(f[k - 1], list[k])]

\* There are such references, and the last are the result.
LEMMA InfoAddedSteps ==
  ASSUME NEW map, NEW list, Len(list) \in Nat
  PROVE  \E f : Infos(f, map, list, Len(list)) /\ InfoAdded(map, list) = f[Len(list)]
<1> DEFINE T == {n \in 0..Len(list) : \E g : Infos(g, map, list, n)}
<1>1. 0 \in T
  <2>1. Infos([k \in 0..0 |-> map], map, list, 0)
    BY DEF Infos
  <2> QED
    BY <2>1
<1>2. ASSUME NEW n \in 0..(Len(list) - 1), n \in T
      PROVE  n + 1 \in T
  <2>1. PICK g : Infos(g, map, list, n)
    BY <1>2
  <2>2. PICK h : h = [k \in 0..(n + 1) |->
                        IF k = n + 1 THEN AddInfoEntry(g[n], list[n + 1]) ELSE g[k]]
    OBVIOUS
  <2>3. Infos(h, map, list, n + 1)
    <3>1. \A k \in 0..(n + 1) : k = n + 1 \/ k \in 0..n
      OBVIOUS
    <3>2. \A k \in 0..n : k # n + 1 /\ k \in 0..(n + 1) /\ (k # 0 => k - 1 \in 0..n)
      OBVIOUS
    <3>3. \A k \in 0..n : h[k] = g[k]
      BY <2>2, <3>2
    <3>4. ASSUME NEW k \in 0..n
          PROVE  h[k] = IF k = 0 THEN map ELSE AddInfoEntry(h[k - 1], list[k])
      BY <2>1, <3>2, <3>3 DEF Infos
    <3>5. h[n + 1] = AddInfoEntry(h[n], list[n + 1]) /\ n + 1 # 0 /\ (n + 1) - 1 = n
      BY <2>2, <3>2, <3>3
    <3>6. \A k \in 0..(n + 1) :
            h[k] = IF k = 0 THEN map ELSE AddInfoEntry(h[k - 1], list[k])
      BY <3>1, <3>4, <3>5
    <3> QED
      BY <2>2, <3>6 DEF Infos
  <2>4. n + 1 \in 0..Len(list)
    OBVIOUS
  <2> QED
    BY <2>3, <2>4
<1>3. Len(list) \in T
  <2> HIDE DEF T
  <2>1. 0..Len(list) \subseteq T
    BY <1>1, <1>2, Induction
  <2> QED
    BY <2>1
<1>4. \E f : Infos(f, map, list, Len(list))
  BY <1>3
<1>5. InfoAdded(map, list) = (CHOOSE f : Infos(f, map, list, Len(list)))[Len(list)]
  BY DEF Infos, InfoAdded, Fold, AddInfoEntry
<1> QED
  BY <1>4, <1>5

\* It is what the conversion does with an asset info.
LEMMA InfoIs == ASSUME NEW refs, NEW info PROVE WithInfo(refs, info) = InfoAdded(refs, info)
  BY DEF WithInfo, Informed, InfoAdded, WithInfoEntry, PushedAll, Pushed

\* So a package refers to the maps that it did and to those of the info.
LEMMA InfoRefers ==
  ASSUME NEW map, AreReferences(map), NEW list, IsInfo(list)
  PROVE  /\ AreReferences(WithInfo(map, list))
         /\ \A i, q : Refers(WithInfo(map, list), i, q) <=> Refers(map, i, q) \/ Informs(list, i, q)
<1>1. PICK N \in Nat : N = Len(list) /\ DOMAIN list = 1..N
  <2>1. PICK R : R = ToSet(list)
    OBVIOUS
  <2>2. list \in Seq(R)
    BY <2>1 DEF IsInfo, IsList
  <2> QED
    BY <2>2
<1>2. PICK f : Infos(f, map, list, N) /\ InfoAdded(map, list) = f[N]
  BY <1>1, InfoAddedSteps
<1>3. f[0] = map
  <2>1. 0 \in 0..N
    OBVIOUS
  <2> QED
    BY <1>2, <2>1 DEF Infos
<1>4. \A n \in 0..(N - 1) : f[n + 1] = WithInfoEntry(f[n], list[n + 1])
  <2>1. \A n \in 0..(N - 1) : n + 1 \in 0..N /\ n + 1 # 0 /\ (n + 1) - 1 = n
    OBVIOUS
  <2>2. \A n \in 0..(N - 1) : f[n + 1] = AddInfoEntry(f[n], list[n + 1])
    BY <1>2, <2>1 DEF Infos
  <2>3. \A m, p : AddInfoEntry(m, p) = WithInfoEntry(m, p)
    BY DEF AddInfoEntry, Let, Only
  <2> QED
    BY <2>2, <2>3
<1> DEFINE L(k, i, q) == i = list[k].hash /\ q \in ToSet(list[k].packages)
           I(n) == /\ AreReferences(f[n])
                   /\ \A i, q : Refers(f[n], i, q) <=> Refers(map, i, q) \/ \E k \in 1..n : L(k, i, q)
           T == {n \in 0..N : I(n)}
<1>5. I(0)
  <2> HIDE DEF L
  <2>1. \A k \in 1..0 : FALSE
    OBVIOUS
  <2> QED
    BY <1>3, <2>1
<1>6. ASSUME NEW n \in 0..(N - 1), I(n)
      PROVE  I(n + 1)
  <2>1. PICK e : e = list[n + 1]
    OBVIOUS
  <2>2. PICK m : m = f[n]
    OBVIOUS
  <2>3. PICK l : l = f[n + 1]
    OBVIOUS
  <2>4. l = PushedAll(e.hash, m, e.packages) /\ AreReferences(m)
    BY <1>4, <1>6, <2>1, <2>2, <2>3 DEF WithInfoEntry
  <2>5. IsList(e.packages)
    <3>1. n + 1 \in 1..N
      OBVIOUS
    <3>2. e \in ToSet(list)
      BY <1>1, <2>1, <3>1 DEF ToSet
    <3> QED
      BY <3>2 DEF IsInfo
  <2>6. /\ AreReferences(l)
        /\ \A i, q : Refers(l, i, q) <=> Refers(m, i, q) \/ (i = e.hash /\ q \in ToSet(e.packages))
    BY <2>4, <2>5, PackagesRefer
  <2>7. \A i, q : L(n + 1, i, q) <=> (i = e.hash /\ q \in ToSet(e.packages))
    BY <2>1
  <2> HIDE DEF L
  <2>8. \A k : k \in 1..(n + 1) <=> k \in 1..n \/ k = n + 1
    OBVIOUS
  <2>9. \A i, q : (\E k \in 1..(n + 1) : L(k, i, q)) <=> (\E k \in 1..n : L(k, i, q)) \/ L(n + 1, i, q)
    BY <2>8
  <2>10. \A i, q : Refers(m, i, q) <=> Refers(map, i, q) \/ \E k \in 1..n : L(k, i, q)
    BY <1>6, <2>2
  <2>11. \A i, q : Refers(l, i, q) <=> Refers(map, i, q) \/ \E k \in 1..(n + 1) : L(k, i, q)
    BY <2>6, <2>7, <2>9, <2>10
  <2> QED
    BY <2>3, <2>6, <2>11
<1>7. I(N)
  <2> HIDE DEF I
  <2>1. 0 \in T
    BY <1>5
  <2>2. \A n \in 0..(N - 1) : n \in T => n + 1 \in T
    <3>1. \A n \in 0..(N - 1) : n + 1 \in 0..N
      OBVIOUS
    <3> QED
      BY <1>6, <3>1
  <2> HIDE DEF T
  <2>3. 0..N \subseteq T
    BY <2>1, <2>2, Induction
  <2>4. N \in 0..N
    OBVIOUS
  <2>5. N \in T
    BY <2>3, <2>4
  <2> QED
    BY <2>5 DEF T
<1>8. \A i, q : Informs(list, i, q) <=> \E k \in 1..N : L(k, i, q)
  BY <1>1 DEF ToSet, Informs
<1> QED
  BY <1>2, <1>7, <1>8, InfoIs

\* The references are those of the infos of the libraries that are converted.
InfoOf(name, h, p) == Informs(game.infos[name], h, p)
Informing ==
  /\ AreReferences(references) /\ toWrite \in Seq(DOMAIN game.libraries \ {""}) /\ game \in Games
  /\ \A h, p : Refers(references, h, p) => \E name \in DOMAIN game.infos : InfoOf(name, h, p)
  /\ ToSet(toWrite) \subseteq DOMAIN game.infos
  /\ \A name \in DOMAIN game.infos \ ToSet(toWrite) :
       \A h, p : InfoOf(name, h, p) => Refers(references, h, p)

\* At first there are none.
LEMMA InitInforms == Init => Informing
<1> SUFFICES ASSUME Init PROVE Informing
  OBVIOUS
<1>1. game \in Games /\ toWrite = game.order /\ references = NoMap
  BY DEF Init
<1>2. toWrite \in Seq(DOMAIN game.libraries \ {""}) /\ ToSet(toWrite) = DOMAIN game.infos
  BY <1>1, GamesAssumption, Zenon
<1>3. DOMAIN NoMap = {}
  BY DEF NoMap
<1>4. AreReferences(references) /\ \A h, p : ~Refers(references, h, p)
  BY <1>1, <1>3 DEF AreReferences, Refers
<1> QED
  BY <1>1, <1>2, <1>4, Zenon DEF Informing

\* A library more adds those of its info.
LEMMA ConvertInforms == ASSUME Informing, ConvertLibrary PROVE Informing'
<1>1. game' = game
  BY DEF ConvertLibrary
<1>2. PICK name : name = Head(toWrite)
  OBVIOUS
<1>3. \/ UNCHANGED <<toWrite, container>>
      \/ /\ toWrite # <<>> /\ toWrite' = Tail(toWrite)
         /\ references' = WithInfo(references, game.infos[name])
  BY <1>2 DEF ConvertLibrary
<1>4. CASE UNCHANGED <<toWrite, container>>
  BY <1>1, <1>4, Zenon DEF Informing, InfoOf, container
<1>5. CASE /\ toWrite # <<>> /\ toWrite' = Tail(toWrite)
           /\ references' = WithInfo(references, game.infos[name])
  <2>1. PICK names : names = DOMAIN game.libraries \ {""}
    BY Zenon
  <2>2. toWrite \in Seq(names)
    BY <2>1, Zenon DEF Informing
  <2>3. /\ toWrite' \in Seq(names) /\ ToSet(toWrite) = {name} \cup ToSet(toWrite')
    <3>1. PICK N \in Nat : N = Len(toWrite) /\ DOMAIN toWrite = 1..N /\ N > 0
      BY <1>5, <2>2
    <3>2. PICK rest : rest = Tail(toWrite)
      OBVIOUS
    <3>3. /\ rest \in Seq(names) /\ DOMAIN rest = 1..(N - 1)
          /\ \A k \in 1..(N - 1) : rest[k] = toWrite[k + 1]
      BY <1>5, <2>2, <3>1, <3>2
    <3>4. ToSet(toWrite) = {toWrite[k] : k \in 1..N} /\ ToSet(rest) = {rest[k] : k \in 1..(N - 1)}
      BY <3>1, <3>3 DEF ToSet
    <3>5. name = toWrite[1] /\ 1 \in 1..N
      BY <1>2, <1>5, <2>2, <3>1
    <3>6. \A k \in 1..N : k = 1 \/ (k - 1 \in 1..(N - 1) /\ (k - 1) + 1 = k)
      OBVIOUS
    <3>7. \A k \in 1..(N - 1) : k + 1 \in 1..N
      OBVIOUS
    <3>8. ToSet(toWrite) \subseteq {name} \cup ToSet(rest)
      <4>1. ASSUME NEW k \in 1..N
            PROVE  toWrite[k] \in {name} \cup ToSet(rest)
        <5>1. CASE k = 1
          BY <3>5, <5>1
        <5>2. CASE k # 1
          <6>1. PICK l : l = k - 1
            OBVIOUS
          <6>2. l \in 1..(N - 1) /\ l + 1 = k
            BY <3>6, <5>2, <6>1
          <6>3. rest[l] = toWrite[k] /\ rest[l] \in ToSet(rest)
            BY <3>3, <3>4, <6>2
          <6> QED
            BY <6>3
        <5> QED
          BY <5>1, <5>2
      <4> QED
        BY <3>4, <4>1
    <3>9. {name} \cup ToSet(rest) \subseteq ToSet(toWrite)
      BY <3>3, <3>4, <3>5, <3>7
    <3> QED
      BY <1>5, <3>2, <3>3, <3>8, <3>9
  <2>4. ToSet(toWrite') \subseteq DOMAIN game.infos /\ name \in DOMAIN game.infos
    BY <2>3, Zenon DEF Informing
  <2>5. PICK info : info = game.infos[name]
    OBVIOUS
  <2>6. IsInfo(info)
    BY <2>4, <2>5, GamesAssumption, Zenon DEF Informing
  <2>7. AreReferences(references)
    BY Zenon DEF Informing
  <2>8. /\ AreReferences(references')
        /\ \A h, p : Refers(references', h, p) <=> Refers(references, h, p) \/ Informs(info, h, p)
    BY <1>5, <2>5, <2>6, <2>7, InfoRefers
  <2>9. \A h, p : InfoOf(name, h, p) <=> Informs(info, h, p)
    BY <2>5 DEF InfoOf
  <2>10. \A h, p : Refers(references', h, p) => \E n \in DOMAIN game.infos : InfoOf(n, h, p)
    BY <2>4, <2>8, <2>9, Zenon DEF Informing
  <2>11. \A n \in DOMAIN game.infos \ ToSet(toWrite') :
           \A h, p : InfoOf(n, h, p) => Refers(references', h, p)
    <3>1. ASSUME NEW n \in DOMAIN game.infos \ ToSet(toWrite'), NEW h, NEW p, InfoOf(n, h, p)
          PROVE  Refers(references', h, p)
      <4>1. CASE n = name
        BY <2>8, <2>9, <3>1, <4>1
      <4>2. CASE n # name
        BY <2>3, <2>8, <3>1, <4>2, Zenon DEF Informing
      <4> QED
        BY <4>1, <4>2
    <3> QED
      BY <3>1
  <2>12. \A n, h, p : InfoOf(n, h, p)' <=> Informs(game.infos[n], h, p)
    BY <1>1 DEF InfoOf
  <2>13. \A h, p : Refers(references', h, p) => \E n \in DOMAIN game.infos : Informs(game.infos[n], h, p)
    BY <2>10 DEF InfoOf
  <2>14. \A n \in DOMAIN game.infos \ ToSet(toWrite') :
           \A h, p : Informs(game.infos[n], h, p) => Refers(references', h, p)
    BY <2>11 DEF InfoOf
  <2>15. game \in Games
    BY Zenon DEF Informing
  <2> QED
    BY <1>1, <2>1, <2>3, <2>4, <2>8, <2>13, <2>14, <2>15, Zenon DEF Informing, InfoOf
<1> QED
  BY <1>3, <1>4, <1>5

\* The other steps leave the references alone.
LEMMA StepInforms == Informing /\ [Next]_vars => Informing'
<1> SUFFICES ASSUME Informing, [Next]_vars PROVE Informing'
  OBVIOUS
<1>1. CASE ConvertLibrary
  BY <1>1, ConvertInforms
<1>2. CASE UNCHANGED <<game, toWrite, container>>
  BY <1>2, Zenon DEF Informing, InfoOf, container
<1>3. ConvertLibrary \/ UNCHANGED <<game, toWrite, container>>
  BY DEF Next, Rebuild, StartLibrary, Send, CloseChannel, Take, Work, Receive, EndLibrary,
         AllRebuilt, Ended, vars
<1> QED
  BY <1>1, <1>2, <1>3

\* The packages that are in the asset info of a rebuilt library.
ReadPackages == IF game.keepsHashes THEN game.converted \ game.unreadable ELSE {}
MapHashes(maps) == {maps[m].hash : m \in DOMAIN maps}
AllInfos == UNION {ToSet(game.infos[n]) : n \in DOMAIN game.infos}
Listed(info) == UNION {{<<h, p>> : p \in info[h]} : h \in DOMAIN info}
UsersOf(maps) ==
  {x \in MapHashes(maps) \X ReadPackages :
     \E e \in AllInfos : e.hash = x[1] /\ x[2] \in ToSet(e.packages)}

\* Once all libraries are converted, a package refers to the maps of all infos.
LEMMA AllInformed ==
  ASSUME Informing, toWrite = <<>>, NEW h, NEW p
  PROVE  Refers(references, h, p) <=> \E e \in AllInfos : e.hash = h /\ p \in ToSet(e.packages)
<1>1. ToSet(toWrite) = {}
  BY DEF ToSet
<1>2. Refers(references, h, p) <=> \E n \in DOMAIN game.infos : InfoOf(n, h, p)
  BY <1>1 DEF Informing
<1>3. (\E n \in DOMAIN game.infos : InfoOf(n, h, p))
        <=> \E e \in AllInfos : e.hash = h /\ p \in ToSet(e.packages)
  BY DEF InfoOf, Informs, AllInfos
<1> QED
  BY <1>2, <1>3

\* So the asset info of a library has the packages of all infos.
LEMMA InfoComplete ==
  ASSUME Informing, toWrite = <<>>, NEW header
  PROVE  Listed(AssetInfo(header)) = UsersOf(header.maps)
<1>1. PICK info : info = AssetInfo(header)
  OBVIOUS
<1>2. PICK hashes : hashes = MapHashes(header.maps)
  OBVIOUS
<1>3. PICK packages : packages = IF game.keepsHashes
                                 THEN (DOMAIN references \cap game.converted) \ game.unreadable ELSE {}
  OBVIOUS
<1> DEFINE U(h) == {p \in packages : h \in ToSet(references[p])}
<1>4. info = [h \in {h \in hashes : U(h) # {}} |-> U(h)]
  BY <1>1, <1>2, <1>3 DEF AssetInfo, MapHashes
<1>5. \A h, p : p \in U(h) <=> p \in ReadPackages /\ Refers(references, h, p)
  BY <1>3 DEF ReadPackages, Refers
<1> HIDE DEF U
<1>6. DOMAIN info = {h \in hashes : U(h) # {}} /\ \A h \in DOMAIN info : info[h] = U(h)
  BY <1>4
<1>7. \A h, p : (h \in DOMAIN info /\ p \in info[h]) <=> h \in hashes /\ p \in U(h)
  BY <1>6
<1>8. \A h, p : (h \in DOMAIN info /\ p \in info[h])
                  <=> /\ h \in hashes /\ p \in ReadPackages
                      /\ \E e \in AllInfos : e.hash = h /\ p \in ToSet(e.packages)
  BY <1>5, <1>7, AllInformed
<1>9. \A x : x \in Listed(info) <=> \E h \in DOMAIN info : \E p \in info[h] : x = <<h, p>>
  BY DEF Listed
<1>10. \A x : x \in UsersOf(header.maps)
                <=> \E h \in hashes : \E p \in ReadPackages :
                      x = <<h, p>> /\ \E e \in AllInfos : e.hash = h /\ p \in ToSet(e.packages)
  BY <1>2 DEF UsersOf
<1>11. \A x : x \in Listed(info) <=> x \in UsersOf(header.maps)
  BY <1>8, <1>9, <1>10, SMTT(60)
<1>12. Listed(info) \subseteq UsersOf(header.maps) /\ UsersOf(header.maps) \subseteq Listed(info)
  BY <1>11
<1> QED
  BY <1>1, <1>12

\* What has been rebuilt has them.
AllListed == \A name \in DOMAIN rebuilt : Listed(rebuilt[name].info) = UsersOf(game.libraries[name].maps)

\* A library that ends does.
LEMMA EndLists ==
  ASSUME Container, CurrentRead, Informing, AllListed, EndLibrary
  PROVE  AllListed'
<1>1. game' = game /\ current # NoArchive
  BY DEF EndLibrary
<1>2. PICK after : after = RebuiltLibrary(current, layout)
  OBVIOUS
<1>3. PICK info : info = AssetInfo(current.header)
  OBVIOUS
<1>4. \/ UNCHANGED rebuilt
      \/ rebuilt' = WithKey(rebuilt, current.name, [library |-> after, info |-> info])
  BY <1>2, <1>3 DEF EndLibrary
<1>5. CASE UNCHANGED rebuilt
  BY <1>1, <1>5 DEF AllListed, UsersOf, ReadPackages, AllInfos, Listed
<1>6. CASE rebuilt' = WithKey(rebuilt, current.name, [library |-> after, info |-> info])
  <2>1. PICK library : library = game.libraries[current.name]
    OBVIOUS
  <2>2. current.header.maps = library.maps /\ toWrite = <<>>
    BY <1>1, <2>1, CurrentHeader DEF CurrentRead
  <2>3. Listed(info) = UsersOf(library.maps)
    BY <1>3, <2>2, InfoComplete
  <2>4. PICK name : name = current.name
    OBVIOUS
  <2>5. PICK entry : entry = [library |-> after, info |-> info]
    OBVIOUS
  <2>6. entry.info = info
    BY <2>5
  <2>7. rebuilt' = [z \in DOMAIN rebuilt \cup {name} |-> IF z = name THEN entry ELSE rebuilt[z]]
    BY <1>6, <2>4, <2>5 DEF WithKey
  <2>8. ASSUME NEW z \in DOMAIN rebuilt'
        PROVE  Listed(rebuilt'[z].info) = UsersOf(game.libraries[z].maps)
    <3>1. CASE z = name
      BY <2>1, <2>3, <2>4, <2>6, <2>7, <3>1
    <3>2. CASE z # name
      BY <2>7, <3>2 DEF AllListed
    <3> QED
      BY <3>1, <3>2
  <2> QED
    BY <1>1, <2>8 DEF AllListed, UsersOf, ReadPackages, AllInfos, Listed
<1> QED
  BY <1>4, <1>5, <1>6

\* Every step keeps it so.
LEMMA StepLists == Container /\ CurrentRead /\ Informing /\ AllListed /\ [Next]_vars => AllListed'
<1> SUFFICES ASSUME Container, CurrentRead, Informing, AllListed, [Next]_vars PROVE AllListed'
  OBVIOUS
<1>1. CASE EndLibrary
  BY <1>1, EndLists
<1>2. CASE UNCHANGED <<game, rebuilt>>
  BY <1>2 DEF AllListed, UsersOf, ReadPackages, AllInfos, Listed
<1>3. EndLibrary \/ UNCHANGED <<game, rebuilt>>
  BY DEF Next, Rebuild, ConvertLibrary, StartLibrary, Send, CloseChannel, Take, Work, Receive,
         AllRebuilt, Ended, vars
<1> QED
  BY <1>1, <1>2, <1>3

\* The asset info of a rebuilt library has every package that the infos of the game
\* list for a map of it, and nothing else but those that are not converted, cannot
\* be read, or have no hashes in the first version of the container's header: for any
\* games, however many libraries share a map.
THEOREM AssetsAlwaysSurvive == Spec => []AssetsSurvive
<1>1. Init => AllListed
  <2>1. DOMAIN NoMap = {}
    BY DEF NoMap
  <2> QED
    BY <2>1 DEF Init, AllListed
<1>2. Init => CurrentRead
  BY DEF Init, CurrentRead
<1>3. AllListed => AssetsSurvive
  BY DEF AllListed, AssetsSurvive, BetweenLibraries, Listed, UsersOf, MapHashes, ReadPackages, AllInfos
<1> QED
  BY <1>1, <1>2, <1>3, ContainerSafety, StepReads, InitInforms, StepInforms, StepLists, PTL DEF Spec

-----------------------------------------------------------------------------
(* Why a conversion to the container fails.                                *)

\* A group that is not longer than the indices gets a place.
LEMMA EntrySucceeds ==
  ASSUME NEW library, IsLibrary(library), NEW groups, NEW checked, NEW n \in Nat,
         NEW group, Len(group) \in Nat, Len(group) <= Len(library.indices),
         NEW header, HeaderSoFar(library, groups, header, n), header.result = "ok"
  PROVE  WithEntry(library, checked, header, group).result = "ok"
<1>1. PICK indices : indices = header.indices
  OBVIOUS
<1>2. Len(library.indices) \in Nat /\ Len(indices) \in Nat /\ Len(library.indices) <= Len(indices)
  <2>1. PICK D : D = DOMAIN library.shaders
    OBVIOUS
  <2>2. library.indices \in Seq(D)
    BY <2>1 DEF IsLibrary
  <2>3. indices \in Seq(D) /\ Len(library.indices) <= Len(indices)
    BY <1>1, <2>1 DEF HeaderSoFar, Extends
  <2> QED
    BY <2>2, <2>3
<1>3. PICK places : places = Len(indices) - Len(group) + 1
  OBVIOUS
<1>4. places \in Int /\ ~ (places < 0) /\ places # 0
  BY <1>2, <1>3
<1>5. PICK place : place = PlaceOf(indices, group, checked)
  OBVIOUS
<1>6. place.result = "ok"
  <2>1. PICK found : found = {k \in 1..places : \A i \in 1..Len(group) : indices[k + i - 1] = group[i]}
    OBVIOUS
  <2>2. place = IF places < 0 \/ (checked /\ places = 0) THEN Panicked
                ELSE IF found # {} THEN [result |-> "ok", first |-> Min(found) - 1, indices |-> indices]
                ELSE [result |-> "ok", first |-> Len(indices), indices |-> indices \o group]
    BY <1>3, <1>5, <2>1 DEF PlaceOf, Placed
  <2>3. \/ place = [result |-> "ok", first |-> Min(found) - 1, indices |-> indices]
        \/ place = [result |-> "ok", first |-> Len(indices), indices |-> indices \o group]
    BY <1>4, <2>2
  <2> QED
    BY <2>3
<1>7. PICK e : e = [first |-> place.first, count |-> Len(group), full |-> SizeOf(library, group),
                    packed |-> 0, id |-> IdOf(library, group)]
  OBVIOUS
<1>8. PICK es : es = Append(header.groups, e)
  OBVIOUS
<1>9. PICK ix : ix = place.indices
  OBVIOUS
<1>10. WithEntry(library, checked, header, group) = [header EXCEPT !.indices = ix, !.groups = es]
  BY <1>1, <1>5, <1>6, <1>7, <1>8, <1>9 DEF WithEntry
<1>11. PICK sh : sh = NoGroups(library, groups).shaders
  OBVIOUS
<1>12. header = [result |-> "ok", maps |-> library.maps, indices |-> indices, groups |-> header.groups,
                 shaders |-> sh]
  BY <1>1, <1>11 DEF HeaderSoFar
<1>13. PICK mp : mp = library.maps
  OBVIOUS
<1>14. PICK gs : gs = header.groups
  OBVIOUS
<1>15. header = [result |-> "ok", maps |-> mp, indices |-> indices, groups |-> gs, shaders |-> sh]
  BY <1>12, <1>13, <1>14
<1>16. PICK next : next = [header EXCEPT !.indices = ix, !.groups = es]
  OBVIOUS
<1>17. next.result = "ok"
  BY <1>15, <1>16
<1> QED
  BY <1>10, <1>16, <1>17

\* So the header of a library without such a group has all groups.
LEMMA HeaderSucceeds ==
  ASSUME NEW library, IsLibrary(library), NEW groups \in Seq(Seq(DOMAIN library.shaders)), NEW checked,
         \A g \in 1..Len(groups) : Len(groups[g]) <= Len(library.indices)
  PROVE  HeaderOf(library, groups, checked).result = "ok"
<1>1. PICK N : N = Len(groups)
  OBVIOUS
<1>2. N \in Nat /\ \A g \in 1..N : Len(groups[g]) \in Nat
  <2>1. PICK R : R = Seq(DOMAIN library.shaders)
    OBVIOUS
  <2>2. groups \in Seq(R) /\ \A r \in R : Len(r) \in Nat
    BY <2>1
  <2> QED
    BY <1>1, <2>2
<1>3. PICK f : Headers(f, library, groups, checked, N) /\ HeaderOf(library, groups, checked) = f[N]
  BY <1>1, <1>2, HeaderSteps
<1>4. /\ 0 \in 0..N /\ f[0] = NoGroups(library, groups)
      /\ \A n \in 0..(N - 1) : f[n + 1] = WithEntry(library, checked, f[n], groups[n + 1])
  <2>1. 0 \in 0..N /\ f[0] = NoGroups(library, groups)
    BY <1>2, <1>3 DEF Headers
  <2>2. \A n \in 0..(N - 1) : n + 1 \in 0..N /\ n + 1 # 0 /\ (n + 1) - 1 = n
    BY <1>2
  <2>3. \A n \in 0..(N - 1) : f[n + 1] = AddEntry(library, checked, f[n], groups[n + 1])
    BY <1>3, <2>2 DEF Headers
  <2> QED
    BY <2>1, <2>3, EntryAdded
<1> DEFINE I(n) == HeaderSoFar(library, groups, f[n], n) /\ f[n].result = "ok"
           T == {n \in 0..N : I(n)}
<1>5. I(0)
  <2>1. PICK sh : sh = NoGroups(library, groups).shaders
    OBVIOUS
  <2>2. f[0] = [result |-> "ok", maps |-> library.maps, indices |-> library.indices,
                groups |-> <<>>, shaders |-> sh]
    BY <1>4, <2>1 DEF NoGroups
  <2>3. f[0].indices = library.indices /\ f[0].groups = <<>>
    BY <2>2
  <2>4. library.indices \in Seq(DOMAIN library.shaders)
    BY DEF IsLibrary
  <2>5. Extends(DOMAIN library.shaders, library.indices, library.indices)
    BY <2>4 DEF Extends
  <2>6. <<>> \in Seq(AnyEntry) /\ Len(<<>>) = 0 /\ \A g \in 1..0 : FALSE
    OBVIOUS
  <2> QED
    BY <2>1, <2>2, <2>3, <2>5, <2>6 DEF HeaderSoFar
<1>6. ASSUME NEW n \in 0..(N - 1), I(n)
      PROVE  I(n + 1)
  <2>1. n \in 0..(Len(groups) - 1) /\ n \in Nat
    BY <1>1
  <2>2. HeaderSoFar(library, groups, f[n], n) /\ f[n].result = "ok"
    BY <1>6
  <2>3. f[n + 1] = WithEntry(library, checked, f[n], groups[n + 1])
    BY <1>4
  <2>4. HeaderSoFar(library, groups, f[n + 1], n + 1)
    BY <2>1, <2>2, <2>3, EntryKeeps
  <2>5. PICK group : group = groups[n + 1]
    OBVIOUS
  <2>6. n + 1 \in 1..N
    BY <1>2
  <2>7. Len(group) \in Nat /\ Len(group) <= Len(library.indices)
    BY <1>1, <1>2, <2>5, <2>6
  <2>8. f[n + 1].result = "ok"
    BY <2>1, <2>2, <2>3, <2>5, <2>7, EntrySucceeds
  <2> QED
    BY <2>4, <2>8
<1>7. I(N)
  <2> HIDE DEF I
  <2>1. 0 \in T
    BY <1>4, <1>5
  <2>2. \A n \in 0..(N - 1) : n \in T => n + 1 \in T
    <3>1. \A n \in 0..(N - 1) : n + 1 \in 0..N
      BY <1>2
    <3> QED
      BY <1>6, <3>1
  <2> HIDE DEF T
  <2>3. 0..N \subseteq T
    BY <1>2, <2>1, <2>2, Induction
  <2>4. N \in 0..N
    BY <1>2
  <2>5. N \in T
    BY <2>3, <2>4
  <2> QED
    BY <2>5 DEF T
<1> QED
  BY <1>3, <1>7

\* A method that code of some libraries is compressed by, and one that may be known
\* while they are converted.
Uses(libraries, m) ==
  m # NoMethod /\ \E l \in libraries : \E s \in DOMAIN l.shaders : CodeIn(l, s).method = m
MayKnow(libraries, m) == m = NoMethod \/ Uses(libraries, m)

\* It is one, unless two methods are mixed.
LEMMA OneMethod ==
  ASSUME NEW libraries, ~Mixed(libraries), NEW m, Uses(libraries, m), NEW n, Uses(libraries, n)
  PROVE  m = n
  BY DEF Mixed, Uses

\* What the bytes of a shader become when a method is known.
LEMMA PlainUses ==
  ASSUME NEW libraries, NEW library \in libraries, NamesCode(library),
         NEW s \in DOMAIN library.shaders, NEW known, MayKnow(libraries, known),
         NEW plain, plain = PlainAt(library, s, known)
  PROVE  /\ plain.result = "ok" => MayKnow(libraries, plain.method)
         /\ ~Mixed(libraries) => plain.result = "ok"
<1>1. PICK bytes : bytes = BytesAt(library, s)
  OBVIOUS
<1>2. PICK packed : packed = library.shaders[s].size
  OBVIOUS
<1>3. PICK full : full = library.shaders[s].full
  OBVIOUS
<1>4. plain = Plain(bytes, packed, known, full)
  BY <1>1, <1>2, <1>3 DEF PlainAt
<1>5. PICK code : code = Plain(bytes, packed, NoMethod, full)
  OBVIOUS
<1>6. CodeIn(library, s) = code /\ code.result = "ok"
  <2>1. CodeIn(library, s) = code
    BY <1>1, <1>2, <1>3, <1>5 DEF CodeIn, BytesAt
  <2> QED
    BY <2>1 DEF NamesCode
<1>7. CASE packed = full
  <2>1. plain = [result |-> "ok", method |-> known, data |-> bytes]
    BY <1>4, <1>7 DEF Plain
  <2>2. plain.result = "ok" /\ plain.method = known
    BY <2>1
  <2> QED
    BY <2>2
<1>8. CASE packed # full
  <2>1. PICK data : data = FlattenSeq([k \in DOMAIN bytes[1].of |-> Code(bytes[1].of[k])])
    OBVIOUS
  <2>2. PICK method : method = bytes[1].method
    OBVIOUS
  <2>3. PICK good \in BOOLEAN :
          good = (bytes # <<>> /\ method # NoMethod /\ Len(data) = full /\ bytes = Pack(data, method))
    OBVIOUS
  <2>4. \A k : Plain(bytes, packed, k, full)
                 = IF good /\ k \in {NoMethod, method}
                   THEN [result |-> "ok", method |-> method, data |-> data] ELSE Failed
    BY <1>8, <2>1, <2>2, <2>3, Zenon DEF Plain, Unpack
  <2>5. Failed.result # "ok"
    BY DEF Failed
  <2>6. good /\ code = [result |-> "ok", method |-> method, data |-> data]
    BY <1>5, <1>6, <2>4, <2>5
  <2>7. code.method = method
    BY <2>6
  <2>8. Uses(libraries, method)
    BY <1>6, <2>3, <2>6, <2>7 DEF Uses
  <2>9. plain = IF known \in {NoMethod, method}
                THEN [result |-> "ok", method |-> method, data |-> data] ELSE Failed
    BY <1>4, <2>4, <2>6
  <2>10. ~Mixed(libraries) => known \in {NoMethod, method}
    BY <2>8, OneMethod DEF MayKnow
  <2>11. known \in {NoMethod, method} => plain.result = "ok" /\ plain.method = method
    BY <2>9
  <2> QED
    BY <2>5, <2>8, <2>9, <2>10, <2>11 DEF MayKnow
<1> QED
  BY <1>7, <1>8

\* The bytes of a shader that is placed where its header says.
LEMMA PlaceSucceeds ==
  ASSUME NEW libraries, ~Mixed(libraries), NEW library \in libraries, IsLibrary(library), NamesCode(library),
         NEW header, NEW s \in DOMAIN library.shaders, NEW group, GroupBytes(group), group.result = "ok",
         MayKnow(libraries, group.method), header.shaders[s].offset = Len(group.data)
  PROVE  PlaceShader(library, header, group, s).result = "ok"
<1>1. PICK e : e = library.shaders[s]
  OBVIOUS
<1>2. PICK bytes : bytes = BytesAt(library, s)
  OBVIOUS
<1>3. bytes = SubSeq(library.code, e.offset + 1, e.offset + e.size)
  BY <1>1, <1>2 DEF BytesAt
<1>4. PICK plain : plain = PlainAt(library, s, group.method)
  OBVIOUS
<1>5. plain = Plain(bytes, e.size, group.method, e.full)
  BY <1>1, <1>2, <1>4 DEF PlainAt
<1>6. PICK fails : fails = (group.result = "ok"
                              /\ (\/ e.offset + e.size > Len(library.code)
                                  \/ header.shaders[s].offset # Len(group.data)))
  OBVIOUS
<1>7. PICK next : next = PlaceShader(library, header, group, s)
  OBVIOUS
<1>8. next = IF fails THEN Failed ELSE Behind(group, plain)
  BY <1>1, <1>3, <1>5, <1>6, <1>7 DEF PlaceShader
<1>9. e.offset \in Nat /\ e.size \in Nat /\ library.code \in Seq(AnyByte)
  BY <1>1, ShaderTypes DEF IsLibrary
<1>10. e.offset + e.size <= Len(library.code)
  BY <1>1 DEF NamesCode
<1>11. ~fails
  <2>1. Len(library.code) \in Nat
    BY <1>9
  <2>2. ~ (e.offset + e.size > Len(library.code))
    BY <1>9, <1>10, <2>1
  <2> QED
    BY <1>6, <2>2
<1>12. plain.result = "ok"
  BY <1>4, PlainUses
<1>13. bytes \in Seq(AnyByte)
  <2>1. e.offset + e.size \in Nat
    BY <1>9
  <2> QED
    BY <1>3, <1>9, <1>10, <2>1, PartTyped
<1>14. plain = [result |-> "ok", method |-> plain.method, data |-> plain.data]
  <2>1. group.method \in Methods
    BY DEF GroupBytes
  <2> QED
    BY <1>5, <1>12, <1>13, <2>1, PlainTyped
<1>15. PICK m : m = plain.method
  OBVIOUS
<1>16. PICK d : d = plain.data
  OBVIOUS
<1>17. PICK all : all = group.data \o plain.data
  OBVIOUS
<1>18. next = [plain EXCEPT !.data = all]
  BY <1>8, <1>11, <1>12, <1>17 DEF Behind
<1>19. plain = [result |-> "ok", method |-> m, data |-> d]
  BY <1>14, <1>15, <1>16
<1>20. next.result = "ok"
  BY <1>18, <1>19
<1> QED
  BY <1>7, <1>20

\* The bytes of all shaders of a group.
LEMMA BytesSucceed ==
  ASSUME NEW libraries, NEW library \in libraries, IsLibrary(library), NamesCode(library), NEW header,
         NEW method \in Methods, MayKnow(libraries, method), NEW list \in Seq(DOMAIN library.shaders),
         NEW group, group = BytesFrom(library, header, method, list)
  PROVE  /\ group.result = "ok" => MayKnow(libraries, group.method)
         /\ ~Mixed(libraries) /\ InPlaces(library, header, list) => group.result = "ok"
<1>1. PICK N : N = Len(list)
  OBVIOUS
<1>2. N \in Nat /\ \A k \in 1..N : list[k] \in DOMAIN library.shaders
  BY <1>1
<1>3. PICK f : BytesTo(f, library, header, method, list) /\ group = f[N]
  BY <1>1, <1>2, PlacesShaders DEF BytesAll
<1>4. /\ f[0] = [result |-> "ok", method |-> method, data |-> <<>>]
      /\ \A n \in 0..(N - 1) : f[n + 1] = PlaceShader(library, header, f[n], list[n + 1])
  BY <1>1, <1>3 DEF BytesTo
<1>5. Sized(library, list)
  <2>1. ASSUME NEW k \in 1..N
        PROVE  library.shaders[list[k]].full = FullSize[library.shaders[list[k]].hash]
    <3>1. library.shaders[list[k]].offset + library.shaders[list[k]].size <= Len(library.code)
      BY <1>2 DEF NamesCode
    <3> QED
      BY <1>2, <3>1, FullNamed
  <2> QED
    BY <1>1, <2>1 DEF Sized
<1>6. PICK good \in BOOLEAN : good = (~Mixed(libraries) /\ InPlaces(library, header, list))
  OBVIOUS
<1> DEFINE I(n) == /\ NamedSoFar(library, f[n], list, n)
                   /\ f[n].result = "ok" => MayKnow(libraries, f[n].method)
                   /\ good => f[n].result = "ok"
           T == {n \in 0..N : I(n)}
<1>7. I(0)
  <2>1. f[0].method = method /\ f[0].data = <<>> /\ f[0].result = "ok"
    BY <1>4
  <2>2. f[0] = [result |-> "ok", method |-> f[0].method, data |-> f[0].data]
    BY <1>4, <2>1
  <2>3. GroupBytes(f[0])
    BY <2>1, <2>2 DEF GroupBytes
  <2>4. HashesIn(library, list) \in Seq(DOMAIN FullSize)
    BY HashesTyped
  <2>5. SubSeq(HashesIn(library, list), 1, 0) = <<>>
    BY <2>4, WholePart
  <2>6. \A k \in 1..0 : FALSE
    OBVIOUS
  <2>7. NamedSoFar(library, f[0], list, 0)
    BY <2>1, <2>3, <2>5, <2>6, NamedNone DEF NamedSoFar
  <2> QED
    BY <2>1, <2>7
<1>8. ASSUME NEW n \in 0..(N - 1), I(n)
      PROVE  I(n + 1)
  <2>1. PICK s : s = list[n + 1]
    OBVIOUS
  <2>2. n + 1 \in 1..N /\ s \in DOMAIN library.shaders
    BY <1>2, <2>1
  <2>3. PICK old : old = f[n]
    OBVIOUS
  <2>4. PICK next : next = f[n + 1]
    OBVIOUS
  <2>5. next = PlaceShader(library, header, old, s)
    BY <1>4, <2>1, <2>3, <2>4
  <2>6. /\ NamedSoFar(library, old, list, n) /\ GroupBytes(old)
        /\ old.result = "ok" => MayKnow(libraries, old.method)
        /\ good => old.result = "ok"
    BY <1>8, <2>3 DEF NamedSoFar
  <2>7. NamedSoFar(library, next, list, n + 1)
    BY <1>1, <2>1, <2>5, <2>6, PlaceNames
  <2>8. ASSUME next.result = "ok"
        PROVE  MayKnow(libraries, next.method)
    <3>1. PICK plain : plain = PlainAt(library, s, old.method)
      OBVIOUS
    <3>2. PlacedBehind(library, s, old, plain, next)
      BY <2>2, <2>5, <2>6, <2>8, <3>1, PlaceIs
    <3>3. old.result = "ok" /\ plain.result = "ok"
      BY <3>2 DEF PlacedBehind
    <3>4. MayKnow(libraries, plain.method)
      BY <2>2, <2>6, <3>1, <3>3, PlainUses
    <3>5. PICK all : all = old.data \o plain.data
      OBVIOUS
    <3>6. PICK m : m = plain.method
      OBVIOUS
    <3>7. next = [result |-> "ok", method |-> m, data |-> all]
      BY <3>2, <3>5, <3>6 DEF PlacedBehind
    <3>8. next.method = m
      BY <3>7
    <3> QED
      BY <3>4, <3>6, <3>8
  <2>9. ASSUME good
        PROVE  next.result = "ok"
    <3>1. old.result = "ok" /\ MayKnow(libraries, old.method) /\ ~Mixed(libraries)
          /\ InPlaces(library, header, list)
      BY <1>6, <2>6, <2>9
    <3>2. header.shaders[s].offset = SizeOf(library, SubSeq(list, 1, n))
      <4>1. (n + 1) - 1 = n
        OBVIOUS
      <4>2. header.shaders[list[n + 1]].offset = SizeOf(library, SubSeq(list, 1, (n + 1) - 1))
        BY <1>1, <2>2, <3>1 DEF InPlaces
      <4> QED
        BY <2>1, <4>1, <4>2
    <3>3. SizeOf(library, SubSeq(list, 1, n)) = Len(Named(SubSeq(HashesIn(library, list), 1, n)))
      <4>1. n \in 0..Len(list)
        BY <1>1
      <4> QED
        BY <1>5, <4>1, PrefixNamed
    <3>4. old.data = Named(SubSeq(HashesIn(library, list), 1, n))
      BY <2>6, <3>1 DEF NamedSoFar
    <3>5. header.shaders[s].offset = Len(old.data)
      BY <3>2, <3>3, <3>4
    <3> QED
      BY <2>2, <2>5, <2>6, <3>1, <3>5, PlaceSucceeds
  <2> QED
    BY <2>4, <2>7, <2>8, <2>9
<1>9. I(N)
  <2> HIDE DEF I
  <2>1. 0 \in T
    BY <1>2, <1>7
  <2>2. \A n \in 0..(N - 1) : n \in T => n + 1 \in T
    <3>1. \A n \in 0..(N - 1) : n + 1 \in 0..N
      BY <1>2
    <3> QED
      BY <1>8, <3>1
  <2> HIDE DEF T
  <2>3. 0..N \subseteq T
    BY <1>2, <2>1, <2>2, Induction
  <2>4. N \in 0..N
    BY <1>2
  <2>5. N \in T
    BY <2>3, <2>4
  <2> QED
    BY <2>5 DEF T
<1> QED
  BY <1>3, <1>6, <1>9

\* The shaders of a group have its number and lie one behind the other.
LEMMA GroupInPlaces ==
  ASSUME NEW library, IsLibrary(library), NEW groups, Grouped(library, groups),
         NEW header, header.result = "ok", HeaderSoFar(library, groups, header, Len(groups)),
         NEW g \in 1..Len(groups)
  PROVE  /\ InPlaces(library, header, groups[g])
         /\ \A s \in ToSet(groups[g]) : header.shaders[s].group = g
<1>1. PICK D : D = DOMAIN library.shaders
  OBVIOUS
<1>2. PICK group : group = groups[g]
  OBVIOUS
<1>3. PICK N : N = Len(groups)
  OBVIOUS
<1>4. /\ groups \in Seq(Seq(D)) /\ Distinct(group) /\ ToSet(group) \subseteq D
      /\ \A h, i \in 1..N : \A s \in D : s \in ToSet(groups[h]) /\ s \in ToSet(groups[i]) => h = i
  BY <1>1, <1>2, <1>3 DEF Grouped, Splits
<1>5. group \in Seq(D) /\ DOMAIN groups = 1..N
  <2>1. PICK R : R = Seq(D)
    OBVIOUS
  <2>2. groups \in Seq(R)
    BY <1>4, <2>1
  <2> QED
    BY <1>2, <1>3, <2>1, <2>2
<1>6. PICK sh : sh = NoGroups(library, groups).shaders
  OBVIOUS
<1>7. header.shaders = sh
  <2>1. header = [result |-> "ok", maps |-> library.maps, indices |-> header.indices,
                  groups |-> header.groups, shaders |-> sh]
    BY <1>6 DEF HeaderSoFar
  <2> QED
    BY <2>1
<1>8. ASSUME NEW s \in ToSet(group)
      PROVE  sh[s].group = g
  <2>1. s \in D
    BY <1>4
  <2>2. sh[s] = [hash |-> library.shaders[s].hash, frequency |-> library.shaders[s].frequency,
                 group |-> GroupWith(groups, s),
                 offset |-> OffsetIn(library, groups[GroupWith(groups, s)], s)]
    BY <1>1, <1>6, <2>1, Zenon DEF NoGroups
  <2>3. sh[s].group = GroupWith(groups, s)
    BY <2>2
  <2>4. g \in 1..N /\ s \in ToSet(groups[g])
    BY <1>2, <1>3
  <2>5. GroupWith(groups, s) \in 1..N /\ s \in ToSet(groups[GroupWith(groups, s)])
    BY <1>5, <2>4 DEF GroupWith
  <2> QED
    BY <1>4, <2>1, <2>3, <2>4, <2>5
<1>9. ASSUME NEW k \in 1..Len(group)
      PROVE  sh[group[k]].offset = SizeOf(library, SubSeq(group, 1, k - 1))
  <2>1. group[k] \in ToSet(group)
    BY <1>5, SeqTypes
  <2>2. sh[group[k]].group = g
    BY <1>8, <2>1
  <2>3. LiesBehind(library, sh, group, k)
    BY <1>1, <1>2, <1>4, <1>6, <2>2, OffsetIs
  <2> QED
    BY <2>3 DEF LiesBehind
<1> QED
  BY <1>2, <1>7, <1>8, <1>9 DEF InPlaces

\* A chunk that libraries make for a list of hashes.
MadeBy(libraries, hashes, chunk) ==
  \/ chunk = Named(hashes)
  \/ \E m \in Methods : /\ Uses(libraries, m) /\ chunk = Pack(Named(hashes), m)
                        /\ Len(chunk) < Len(Named(hashes))

\* What is taken of the code is such a chunk.
LEMMA SmallestMade ==
  ASSUME NEW libraries, NEW hashes, NEW data, data = Named(hashes), NEW method \in Methods,
         MayKnow(libraries, method)
  PROVE  MadeBy(libraries, hashes, Smallest(data, method))
  BY DEF MadeBy, Smallest, MayKnow

\* The chunks of the first n groups are, and the header has their sizes.
MadeSoFar(libraries, library, groups, archive, n) ==
  archive.result = "ok" =>
    /\ MayKnow(libraries, archive.method)
    /\ \A k \in 1..n : /\ MadeBy(libraries, HashesIn(library, groups[k]), archive.chunks[k])
                       /\ archive.header.groups[k].packed = Len(archive.chunks[k])

\* One chunk more.
LEMMA WriteMakes ==
  ASSUME NEW libraries, NEW library \in libraries, IsLibrary(library), NamesCode(library),
         NEW groups \in Seq(Seq(DOMAIN library.shaders)),
         NEW n \in 0..(Len(groups) - 1), NEW archive, ArchiveSoFar(library, groups, archive, n),
         MadeSoFar(libraries, library, groups, archive, n),
         NEW next, next = WriteGroup(library, archive, n + 1)
  PROVE  MadeSoFar(libraries, library, groups, next, n + 1)
<1>1. SUFFICES ASSUME next.result = "ok" PROVE MadeSoFar(libraries, library, groups, next, n + 1)
  BY DEF MadeSoFar
<1>2. PICK list : list = groups[n + 1]
  OBVIOUS
<1>3. list \in Seq(DOMAIN library.shaders)
  <2>1. PICK L : L = Seq(DOMAIN library.shaders)
    OBVIOUS
  <2>2. groups \in Seq(L) /\ n + 1 \in 1..Len(groups)
    BY <2>1
  <2> QED
    BY <1>2, <2>1, <2>2
<1>4. PICK group : group = BytesFrom(library, archive.header, archive.method, list)
  OBVIOUS
<1>5. WrittenBehind(archive, n + 1, group, next)
  BY <1>1, <1>2, <1>4, WriteIs
<1>6. PICK chunk : chunk = Smallest(group.data, group.method)
  OBVIOUS
<1>7. archive.result = "ok" /\ group.result = "ok" /\ GroupBytes(group)
  BY <1>5 DEF WrittenBehind
<1>8. PICK header : header = PackedHeader(archive.header, n + 1, Len(chunk))
  OBVIOUS
<1>9. /\ next.chunks = Append(archive.chunks, chunk) /\ next.method = group.method
      /\ next.header = header
  <2>1. PICK cs : cs = Append(archive.chunks, chunk)
    OBVIOUS
  <2>2. next = [result |-> "ok", method |-> group.method, header |-> header, chunks |-> cs]
    BY <1>5, <1>6, <1>8, <2>1 DEF WrittenBehind
  <2>3. next.chunks = cs /\ next.method = group.method /\ next.header = header
    BY <2>2
  <2> QED
    BY <2>1, <2>3
<1>10. /\ archive.method \in Methods /\ archive.chunks \in Seq(Seq(AnyByte)) /\ Len(archive.chunks) = n
       /\ archive.header.result = "ok" /\ HeaderSoFar(library, groups, archive.header, Len(groups))
  BY <1>7 DEF ArchiveSoFar
<1>11. MayKnow(libraries, archive.method)
  BY <1>7 DEF MadeSoFar
<1>12. MayKnow(libraries, group.method)
  BY <1>3, <1>4, <1>7, <1>10, <1>11, BytesSucceed
<1>13. NamedSoFar(library, group, list, Len(list))
  BY <1>3, <1>4, <1>10, BytesNamed
<1>14. PICK hs : hs = HashesIn(library, list)
  OBVIOUS
<1>15. Len(hs) = Len(list) /\ SubSeq(hs, 1, Len(hs)) = hs
  <2>1. hs \in Seq(DOMAIN FullSize) /\ Len(hs) = Len(list)
    BY <1>3, <1>14, HashesTyped
  <2> QED
    BY <2>1, WholePart
<1>16. group.data = Named(hs)
  BY <1>7, <1>13, <1>14, <1>15 DEF NamedSoFar
<1>17. MadeBy(libraries, hs, chunk)
  <2>1. group.method \in Methods
    BY <1>7 DEF GroupBytes
  <2> QED
    BY <1>6, <1>12, <1>16, <2>1, SmallestMade
<1>18. next.chunks[n + 1] = chunk /\ \A k \in 1..n : next.chunks[k] = archive.chunks[k]
  <2>1. PICK B : B = Seq(AnyByte)
    OBVIOUS
  <2>2. PICK cs : cs = archive.chunks
    OBVIOUS
  <2>3. cs \in Seq(B) /\ Len(cs) = n /\ n \in Nat
    BY <1>10, <2>1, <2>2
  <2>4. chunk \in B
    <3>1. group.method \in Methods /\ group.data \in Seq(AnyByte)
      BY <1>7 DEF GroupBytes
    <3> QED
      BY <1>6, <2>1, <3>1, PackTyped
  <2>5. Append(cs, chunk)[n + 1] = chunk /\ \A k \in 1..n : Append(cs, chunk)[k] = cs[k]
    BY <2>3, <2>4
  <2> QED
    BY <1>9, <2>2, <2>5
<1>19. /\ next.header.groups[n + 1].packed = Len(chunk)
       /\ \A k \in 1..n : next.header.groups[k] = archive.header.groups[k]
  <2>1. PICK gs : gs = archive.header.groups
    OBVIOUS
  <2>2. PICK N : N = Len(groups)
    OBVIOUS
  <2>3. gs \in Seq(AnyEntry) /\ Len(gs) = N /\ N \in Nat /\ n + 1 \in 1..N /\ \A k \in 1..n : k \in 1..N /\ k # n + 1
    BY <1>10, <2>1, <2>2 DEF HeaderSoFar
  <2>4. PICK e : e = [gs[n + 1] EXCEPT !.packed = Len(chunk)]
    OBVIOUS
  <2>5. e.packed = Len(chunk)
    <3>1. gs[n + 1] \in AnyEntry
      BY <2>3
    <3> QED
      BY <2>4, <3>1 DEF AnyEntry
  <2>6. PICK more : more = [gs EXCEPT ![n + 1] = e]
    OBVIOUS
  <2>7. more[n + 1] = e /\ \A k \in 1..n : more[k] = gs[k]
    BY <2>3, <2>6
  <2>8. header = [archive.header EXCEPT !.groups = more]
    BY <1>8, <2>1, <2>4, <2>6 DEF PackedHeader
  <2>9. header.groups = more
    <3>1. PICK old : old = archive.header
      OBVIOUS
    <3>2. PICK sh : sh = NoGroups(library, groups).shaders
      OBVIOUS
    <3>3. PICK ix : ix = old.indices
      OBVIOUS
    <3>4. PICK mp : mp = library.maps
      OBVIOUS
    <3>5. old = [result |-> "ok", maps |-> mp, indices |-> ix, groups |-> gs, shaders |-> sh]
      BY <1>10, <2>1, <3>1, <3>2, <3>3, <3>4 DEF HeaderSoFar
    <3>6. header = [old EXCEPT !.groups = more]
      BY <2>8, <3>1
    <3> QED
      BY <3>5, <3>6
  <2> QED
    BY <1>9, <2>1, <2>5, <2>7, <2>9
<1>20. \A k \in 1..n : /\ MadeBy(libraries, HashesIn(library, groups[k]), archive.chunks[k])
                       /\ archive.header.groups[k].packed = Len(archive.chunks[k])
  BY <1>7 DEF MadeSoFar
<1>21. ASSUME NEW k \in 1..(n + 1)
       PROVE  /\ MadeBy(libraries, HashesIn(library, groups[k]), next.chunks[k])
              /\ next.header.groups[k].packed = Len(next.chunks[k])
  <2>1. CASE k = n + 1
    BY <1>2, <1>14, <1>17, <1>18, <1>19, <2>1
  <2>2. CASE k # n + 1
    <3>1. k \in 1..n
      BY <2>2
    <3> QED
      BY <1>18, <1>19, <1>20, <3>1
  <2> QED
    BY <2>1, <2>2
<1> QED
  BY <1>9, <1>12, <1>21 DEF MadeSoFar

\* It is made, when the code has one method.
LEMMA WriteSucceeds ==
  ASSUME NEW libraries, ~Mixed(libraries), NEW library \in libraries, IsLibrary(library), NamesCode(library),
         NEW groups, Grouped(library, groups),
         NEW n \in 0..(Len(groups) - 1), NEW archive, ArchiveSoFar(library, groups, archive, n),
         archive.result = "ok", MayKnow(libraries, archive.method)
  PROVE  WriteGroup(library, archive, n + 1).result = "ok"
<1>1. PICK g : g = n + 1
  OBVIOUS
<1>2. PICK D : D = DOMAIN library.shaders
  OBVIOUS
<1>3. PICK list : list = groups[g]
  OBVIOUS
<1>4. groups \in Seq(Seq(D))
  BY <1>2 DEF Grouped, Splits
<1>5. g \in 1..Len(groups) /\ list \in Seq(D)
  <2>1. PICK R : R = Seq(D)
    OBVIOUS
  <2>2. groups \in Seq(R)
    BY <1>4, <2>1
  <2> QED
    BY <1>1, <1>3, <2>1, <2>2
<1>6. PICK header : header = archive.header
  OBVIOUS
<1>7. archive.method \in Methods /\ header.result = "ok" /\ HeaderSoFar(library, groups, header, Len(groups))
  BY <1>6 DEF ArchiveSoFar
<1>8. RangeOf(header.indices, header.groups[g]) = list
  BY <1>2, <1>3, <1>4, <1>5, <1>7, GroupThere
<1>9. PICK group : group = BytesFrom(library, header, archive.method, list)
  OBVIOUS
<1>10. InPlaces(library, header, list)
  BY <1>3, <1>5, <1>7, GroupInPlaces
<1>11. group.result = "ok"
  BY <1>2, <1>5, <1>7, <1>9, <1>10, BytesSucceed
<1>12. NamedSoFar(library, group, list, Len(list))
  BY <1>2, <1>5, <1>7, <1>9, BytesNamed
<1>13. PICK hs : hs = HashesIn(library, list)
  OBVIOUS
<1>14. Len(hs) = Len(list) /\ SubSeq(hs, 1, Len(hs)) = hs
  <2>1. hs \in Seq(DOMAIN FullSize) /\ Len(hs) = Len(list)
    BY <1>2, <1>5, <1>13, HashesTyped
  <2> QED
    BY <2>1, WholePart
<1>15. group.data = Named(hs)
  BY <1>11, <1>12, <1>13, <1>14 DEF NamedSoFar
<1>16. header.groups[g].full = SizeOf(library, list)
  <2>1. EntryOf(library, header.indices, groups[g], header.groups[g])
    BY <1>5, <1>7 DEF HeaderSoFar
  <2> QED
    BY <1>3, <2>1 DEF EntryOf
<1>17. SizeOf(library, list) = Len(Named(hs))
  <2>1. ASSUME NEW k \in 1..Len(list)
        PROVE  library.shaders[list[k]].full = FullSize[library.shaders[list[k]].hash]
    <3>1. list[k] \in DOMAIN library.shaders
      BY <1>2, <1>5
    <3>2. library.shaders[list[k]].offset + library.shaders[list[k]].size <= Len(library.code)
      BY <3>1 DEF NamesCode
    <3> QED
      BY <3>1, <3>2, FullNamed
  <2> QED
    BY <1>2, <1>5, <1>13, <2>1, SizeNamed
<1>18. Len(group.data) = header.groups[g].full
  BY <1>15, <1>16, <1>17
<1>19. PICK next : next = WithGroup(archive, g, group)
  OBVIOUS
<1>20. WriteGroup(library, archive, g) = next
  <2>1. WriteGroup(library, archive, g) =
          IF archive.result # "ok" THEN archive
          ELSE WithGroup(archive, g,
                 BytesFrom(library, archive.header, archive.method,
                           RangeOf(archive.header.indices, archive.header.groups[g])))
    BY Zenon DEF WriteGroup, BytesFrom
  <2> QED
    BY <1>6, <1>8, <1>9, <1>19, <2>1
<1>21. PICK chunk : chunk = Smallest(group.data, group.method)
  OBVIOUS
<1>22. PICK h : h = PackedHeader(header, g, Len(chunk))
  OBVIOUS
<1>23. PICK cs : cs = Append(archive.chunks, chunk)
  OBVIOUS
<1>24. next = [result |-> "ok", method |-> group.method, header |-> h, chunks |-> cs]
  BY <1>6, <1>11, <1>18, <1>19, <1>21, <1>22, <1>23 DEF WithGroup, PackedHeader
<1>25. next.result = "ok"
  BY <1>24
<1> QED
  BY <1>1, <1>20, <1>25

\* All chunks of a library: they are made, and without a group that is too long and
\* with one method the conversion succeeds.
LEMMA ConversionMakes ==
  ASSUME NEW libraries, NEW library \in libraries, IsLibrary(library), NamesCode(library),
         NEW format, NEW checked, NEW groups, groups = GroupsOf(library, format),
         NEW archive, archive = WriteLibrary(library, format, checked)
  PROVE  /\ MadeSoFar(libraries, library, groups, archive, Len(groups))
         /\ ~Mixed(libraries) /\ (\A g \in 1..Len(groups) : Len(groups[g]) <= Len(library.indices))
              => archive.result = "ok"
<1>1. Grouped(library, groups)
  BY GroupsOfLibrary
<1>2. groups \in Seq(Seq(DOMAIN library.shaders))
  BY <1>1 DEF Grouped, Splits
<1>3. PICK N : N = Len(groups)
  OBVIOUS
<1>4. N \in Nat
  BY <1>2, <1>3
<1>5. PICK header : header = HeaderOf(library, groups, checked)
  OBVIOUS
<1>6. HeaderSoFar(library, groups, header, N)
  BY <1>2, <1>3, <1>5, HeaderHasGroups
<1>7. archive = WriteGroups(library, header)
  BY <1>5 DEF WriteLibrary, ArchiveHeader
<1>8. PICK good \in BOOLEAN :
        good = (~Mixed(libraries) /\ (\A g \in 1..N : Len(groups[g]) <= Len(library.indices)))
  OBVIOUS
<1>9. good => header.result = "ok"
  BY <1>2, <1>3, <1>5, <1>8, HeaderSucceeds
<1>10. CASE header.result # "ok"
  <2>1. archive = header
    BY <1>7, <1>10 DEF WriteGroups
  <2> QED
    BY <1>3, <1>8, <1>9, <1>10, <2>1 DEF MadeSoFar
<1>11. CASE header.result = "ok"
  <2>1. PICK f : WritesTo(f, library, header, N) /\ archive = f[N]
    BY <1>3, <1>4, <1>6, <1>7, <1>11, WritesGroups DEF WritesAll
  <2>2. /\ f[0] = NoChunks(header)
        /\ \A n \in 0..(N - 1) : f[n + 1] = WriteGroup(library, f[n], n + 1)
    BY <2>1 DEF WritesTo
  <2> DEFINE I(n) == /\ ArchiveSoFar(library, groups, f[n], n)
                     /\ MadeSoFar(libraries, library, groups, f[n], n)
                     /\ good => f[n].result = "ok"
             T == {n \in 0..N : I(n)}
  <2>3. I(0)
    <3>1. f[0] = [result |-> "ok", method |-> NoMethod, header |-> header, chunks |-> <<>>]
      BY <2>2 DEF NoChunks
    <3>2. f[0].method = NoMethod /\ f[0].header = header /\ f[0].chunks = <<>> /\ f[0].result = "ok"
      BY <3>1
    <3>3. NoMethod \in Methods
      BY DEF Methods
    <3>4. <<>> \in Seq(Seq(AnyByte)) /\ Len(<<>>) = 0
      OBVIOUS
    <3>5. ArchiveSoFar(library, groups, f[0], 0)
      BY <1>3, <1>6, <1>11, <3>1, <3>2, <3>3, <3>4 DEF ArchiveSoFar
    <3>6. MadeSoFar(libraries, library, groups, f[0], 0)
      <4>1. \A k \in 1..0 : FALSE
        OBVIOUS
      <4> QED
        BY <3>2, <4>1 DEF MadeSoFar, MayKnow
    <3> QED
      BY <3>2, <3>5, <3>6
  <2>4. ASSUME NEW n \in 0..(N - 1), I(n)
        PROVE  I(n + 1)
    <3>1. n \in 0..(Len(groups) - 1) /\ f[n + 1] = WriteGroup(library, f[n], n + 1)
      BY <1>3, <2>2
    <3>2. ArchiveSoFar(library, groups, f[n], n) /\ MadeSoFar(libraries, library, groups, f[n], n)
      BY <2>4
    <3>3. ArchiveSoFar(library, groups, f[n + 1], n + 1)
      BY <1>2, <3>1, <3>2, WriteKeeps
    <3>4. MadeSoFar(libraries, library, groups, f[n + 1], n + 1)
      BY <1>2, <3>1, <3>2, WriteMakes
    <3>5. ASSUME good
          PROVE  f[n + 1].result = "ok"
      <4>1. f[n].result = "ok" /\ ~Mixed(libraries)
        BY <1>8, <2>4, <3>5
      <4>2. MayKnow(libraries, f[n].method)
        BY <3>2, <4>1 DEF MadeSoFar
      <4> QED
        BY <1>1, <3>1, <3>2, <4>1, <4>2, WriteSucceeds
    <3> QED
      BY <3>3, <3>4, <3>5
  <2>5. I(N)
    <3> HIDE DEF I
    <3>1. 0 \in T
      BY <1>4, <2>3
    <3>2. \A n \in 0..(N - 1) : n \in T => n + 1 \in T
      <4>1. \A n \in 0..(N - 1) : n + 1 \in 0..N
        BY <1>4
      <4> QED
        BY <2>4, <4>1
    <3> HIDE DEF T
    <3>3. 0..N \subseteq T
      BY <1>4, <3>1, <3>2, Induction
    <3>4. N \in 0..N
      BY <1>4
    <3>5. N \in T
      BY <3>3, <3>4
    <3> QED
      BY <3>5 DEF T
  <2> QED
    BY <1>3, <1>8, <2>1, <2>5
<1> QED
  BY <1>10, <1>11

\* The libraries of the game.
Libraries == Range(game.libraries)

\* Every archive is that of its library, and every chunk is one of an archive: of the
\* libraries that have a chunk of this name, the last that was converted.
ChunkOf(name, id) ==
  LET archive == WrittenLibrary(name)
  IN  \E g \in 1..Len(archive.chunks) : archive.header.groups[g].id = id /\ chunks[id] = archive.chunks[g]
Origins ==
  /\ \A name \in DOMAIN archives :
       WrittenLibrary(name).result = "ok" /\ archives[name] = WrittenLibrary(name).header
  /\ \A id \in DOMAIN chunks : \E name \in DOMAIN archives : ChunkOf(name, id)

\* A chunk was there, or comes from an archive.
ChunkFrom(map, archive, id, chunk) ==
  \/ id \in DOMAIN map /\ chunk = map[id]
  \/ \E g \in 1..Len(archive.chunks) :
       archive.header.groups[g].id = id /\ chunk = archive.chunks[g]

\* So does every one, when the archive is added.
LEMMA ChunksFrom ==
  ASSUME NEW map, NEW archive, archive.chunks \in Seq(Seq(AnyByte)),
         NEW next, next = WithChunks(map, archive), NEW id \in DOMAIN next
  PROVE  ChunkFrom(map, archive, id, next[id])
<1>1. PICK N : N = Len(archive.chunks)
  OBVIOUS
<1>2. N \in Nat /\ DOMAIN archive.chunks = 1..N
  <2>1. PICK B : B = Seq(AnyByte)
    OBVIOUS
  <2>2. archive.chunks \in Seq(B)
    BY <2>1
  <2> QED
    BY <1>1, <2>2
<1>3. PICK f : ContainsTo(f, map, archive, N) /\ next = f[N]
  BY <1>2, ContainsChunks DEF ContainsAll
<1>4. /\ 0 \in 0..N /\ f[0] = map
      /\ \A n \in 0..(N - 1) : f[n + 1] = ChunkWith(archive, f[n], n + 1)
  BY <1>2, <1>3 DEF ContainsTo
<1> DEFINE New(n, i) == \E g \in 1..n : archive.header.groups[g].id = i /\ f[n][i] = archive.chunks[g]
           I(n) == \A i \in DOMAIN f[n] : (i \in DOMAIN map /\ f[n][i] = map[i]) \/ New(n, i)
           T == {n \in 0..N : I(n)}
<1>5. I(0)
  BY <1>4
<1>6. ASSUME NEW n \in 0..(N - 1), I(n)
      PROVE  I(n + 1)
  <2>1. PICK j : j = archive.header.groups[n + 1].id
    OBVIOUS
  <2>2. PICK c : c = archive.chunks[n + 1]
    OBVIOUS
  <2>3. f[n + 1] = [z \in DOMAIN f[n] \cup {j} |-> IF z = j THEN c ELSE f[n][z]]
    BY <1>4, <2>1, <2>2 DEF ChunkWith, WithKey
  <2>4. n + 1 \in 1..(n + 1) /\ \A g \in 1..n : g \in 1..(n + 1)
    OBVIOUS
  <2>5. ASSUME NEW i \in DOMAIN f[n + 1]
        PROVE  (i \in DOMAIN map /\ f[n + 1][i] = map[i]) \/ New(n + 1, i)
    <3>1. CASE i = j
      <4>1. f[n + 1][i] = c
        BY <2>3, <3>1
      <4> QED
        BY <2>1, <2>2, <2>4, <3>1, <4>1
    <3>2. CASE i # j
      <4>1. i \in DOMAIN f[n] /\ f[n + 1][i] = f[n][i]
        BY <2>3, <3>2
      <4>2. (i \in DOMAIN map /\ f[n][i] = map[i]) \/ New(n, i)
        BY <1>6, <4>1
      <4> QED
        BY <2>4, <4>1, <4>2
    <3> QED
      BY <3>1, <3>2
  <2> QED
    BY <2>5
<1>7. I(N)
  <2> HIDE DEF I
  <2>1. 0 \in T
    BY <1>4, <1>5
  <2>2. \A n \in 0..(N - 1) : n \in T => n + 1 \in T
    <3>1. \A n \in 0..(N - 1) : n + 1 \in 0..N
      BY <1>2
    <3> QED
      BY <1>6, <3>1
  <2> HIDE DEF T
  <2>3. 0..N \subseteq T
    BY <1>2, <2>1, <2>2, Induction
  <2>4. N \in 0..N
    BY <1>2
  <2>5. N \in T
    BY <2>3, <2>4
  <2> QED
    BY <2>5 DEF T
<1> QED
  BY <1>1, <1>3, <1>7 DEF ChunkFrom

\* A library more.
LEMMA ConvertOrigins == ASSUME Container, Origins, ConvertLibrary PROVE Origins'
<1>1. game' = game
  BY DEF ConvertLibrary
<1>2. PICK name : name = Head(toWrite)
  OBVIOUS
<1>3. PICK archive : archive = WrittenLibrary(name)
  OBVIOUS
<1>4. \/ archive.result # "ok" /\ UNCHANGED <<toWrite, container>>
      \/ /\ archive.result = "ok" /\ toWrite # <<>>
         /\ chunks' = WithChunks(chunks, archive)
         /\ archives' = WithKey(archives, name, archive.header)
  BY <1>2, <1>3 DEF ConvertLibrary
<1>5. \A n : WrittenLibrary(n)' = WrittenLibrary(n)
  BY <1>1 DEF WrittenLibrary
<1>6. CASE UNCHANGED <<toWrite, container>>
  BY <1>1, <1>5, <1>6 DEF Origins, ChunkOf, WrittenLibrary, container
<1>7. CASE /\ archive.result = "ok" /\ toWrite # <<>>
           /\ chunks' = WithChunks(chunks, archive)
           /\ archives' = WithKey(archives, name, archive.header)
  <2>1. PICK names : names = DOMAIN game.libraries \ {""}
    BY Zenon
  <2>2. toWrite \in Seq(names)
    BY <2>1, Zenon DEF Container
  <2>3. name \in names
    BY <1>2, <1>7, <2>2
  <2>4. PICK library : library = game.libraries[name]
    OBVIOUS
  <2>5. IsLibrary(library)
    BY <2>1, <2>3, <2>4, GamesAssumption, Zenon DEF Container
  <2>6. PICK groups : groups = GroupsOf(library, game.format)
    OBVIOUS
  <2>7. archive = WriteLibrary(library, game.format, game.checked)
    BY <1>3, <2>4 DEF WrittenLibrary
  <2>8. archive.chunks \in Seq(Seq(AnyByte))
    BY <1>7, <2>5, <2>6, <2>7, WrittenHasChunks DEF ArchiveSoFar
  <2>9. archives' = [z \in DOMAIN archives \cup {name} |-> IF z = name THEN archive.header ELSE archives[z]]
    BY <1>7 DEF WithKey
  <2>10. ASSUME NEW n \in DOMAIN archives'
         PROVE  WrittenLibrary(n).result = "ok" /\ archives'[n] = WrittenLibrary(n).header
    <3>1. CASE n = name
      BY <1>3, <1>7, <2>9, <3>1
    <3>2. CASE n # name
      BY <2>9, <3>2 DEF Origins
    <3> QED
      BY <3>1, <3>2
  <2>11. ASSUME NEW id \in DOMAIN chunks'
         PROVE  \E n \in DOMAIN archives' :
                  LET a == WrittenLibrary(n)
                  IN  \E g \in 1..Len(a.chunks) : a.header.groups[g].id = id /\ chunks'[id] = a.chunks[g]
    <3>1. \/ id \in DOMAIN chunks /\ chunks'[id] = chunks[id]
          \/ \E g \in 1..Len(archive.chunks) :
               archive.header.groups[g].id = id /\ chunks'[id] = archive.chunks[g]
      <4>1. PICK next : next = WithChunks(chunks, archive)
        OBVIOUS
      <4>2. chunks' = next /\ id \in DOMAIN next
        BY <1>7, <2>11, <4>1, SMTT(60)
      <4>3. ChunkFrom(chunks, archive, id, next[id])
        BY <2>8, <4>1, <4>2, ChunksFrom, Zenon
      <4> QED
        BY <4>2, <4>3 DEF ChunkFrom
    <3>2. CASE id \in DOMAIN chunks /\ chunks'[id] = chunks[id]
      <4>1. PICK n \in DOMAIN archives : ChunkOf(n, id)
        BY <3>2 DEF Origins
      <4>2. n \in DOMAIN archives'
        BY <2>9
      <4> QED
        BY <3>2, <4>1, <4>2 DEF ChunkOf
    <3>3. CASE \E g \in 1..Len(archive.chunks) :
                 archive.header.groups[g].id = id /\ chunks'[id] = archive.chunks[g]
      <4>1. name \in DOMAIN archives'
        BY <2>9
      <4> QED
        BY <1>3, <3>3, <4>1
    <3> QED
      BY <3>1, <3>2, <3>3
  <2>12. \A n : WrittenLibrary(n) = WriteLibrary(game.libraries[n], game.format, game.checked)
    BY DEF WrittenLibrary
  <2> QED
    BY <1>1, <2>10, <2>11, <2>12 DEF Origins, ChunkOf, WrittenLibrary
<1> QED
  BY <1>4, <1>6, <1>7

\* The other steps leave the container alone.
LEMMA StepOrigins == Container /\ Origins /\ [Next]_vars => Origins'
<1> SUFFICES ASSUME Container, Origins, [Next]_vars PROVE Origins'
  OBVIOUS
<1>1. CASE ConvertLibrary
  BY <1>1, ConvertOrigins
<1>2. CASE UNCHANGED <<game, toWrite, container>>
  BY <1>2 DEF Origins, ChunkOf, WrittenLibrary, container
<1>3. ConvertLibrary \/ UNCHANGED <<game, toWrite, container>>
  BY DEF Next, Rebuild, StartLibrary, Send, CloseChannel, Take, Work, Receive, EndLibrary,
         AllRebuilt, Ended, vars
<1> QED
  BY <1>1, <1>2, <1>3

\* At first there is nothing.
LEMMA InitOrigins == Init => Origins
<1>1. DOMAIN NoMap = {}
  BY DEF NoMap
<1> QED
  BY <1>1 DEF Init, Origins

-----------------------------------------------------------------------------
(* Why reading an archive fails.                                           *)

\* Compression makes something of a list of hashes.
LEMMA PackedAny == ASSUME NEW of \in Seq(DOMAIN FullSize), of # <<>> PROVE PackedOf(of) \in Nat \ {0}
<1>1. PICK N : N = Len(of)
  OBVIOUS
<1>2. N \in Nat /\ N # 0 /\ \A n \in 1..N : of[n] \in DOMAIN FullSize
  BY <1>1
<1>3. PICK f : PackedSums(f, of, N) /\ PackedOf(of) = f[N]
  BY <1>1, <1>2, PackedSteps
<1>4. \A n, h : AddPacked(n, h) = n + PackedSize[h]
  BY DEF AddPacked, Let, Only
<1>5. /\ 0 \in 0..N /\ f[0] = 0
      /\ \A n \in 0..(N - 1) : n + 1 \in 1..N /\ f[n + 1] = f[n] + PackedSize[of[n + 1]]
  <2>1. 0 \in 0..N /\ f[0] = 0
    BY <1>2, <1>3 DEF PackedSums
  <2>2. \A n \in 0..(N - 1) : n + 1 \in 0..N /\ n + 1 \in 1..N /\ n + 1 # 0 /\ (n + 1) - 1 = n
    BY <1>2
  <2>3. \A n \in 0..(N - 1) : f[n + 1] = AddPacked(f[n], of[n + 1])
    BY <1>3, <2>2 DEF PackedSums
  <2> QED
    BY <1>4, <2>1, <2>2, <2>3
<1> DEFINE T == {n \in 0..N : f[n] \in Nat /\ (n # 0 => f[n] # 0)}
<1>6. 0 \in T
  BY <1>5
<1>7. \A n \in 0..(N - 1) : n \in T => n + 1 \in T
  <2>1. TAKE n \in 0..(N - 1)
  <2>2. SUFFICES ASSUME f[n] \in Nat PROVE n + 1 \in T
    OBVIOUS
  <2>3. PackedSize[of[n + 1]] \in Nat \ {0}
    BY <1>2, <1>5, SizesAssumption
  <2>4. n + 1 \in 0..N
    BY <1>2
  <2> QED
    BY <1>5, <2>2, <2>3, <2>4
<1>8. N \in T
  <2> HIDE DEF T
  <2>1. 0..N \subseteq T
    BY <1>2, <1>6, <1>7, Induction
  <2>2. N \in 0..N
    BY <1>2
  <2> QED
    BY <2>1, <2>2
<1> QED
  BY <1>2, <1>3, <1>8

\* A chunk of the libraries of one method can be read, at its size.
LEMMA MadeReads ==
  ASSUME NEW libraries, ~Mixed(libraries), NEW hashes \in Seq(DOMAIN FullSize),
         NEW chunk, MadeBy(libraries, hashes, chunk), NEW known, MayKnow(libraries, known),
         NEW full, full = Len(Named(hashes)), NEW packed, packed = Len(chunk),
         NEW plain, plain = Plain(chunk, packed, known, full)
  PROVE  plain.result = "ok" /\ MayKnow(libraries, plain.method) /\ Len(plain.data) = full
<1>1. PICK code : code = Named(hashes)
  OBVIOUS
<1>2. code \in Seq(AnyByte) /\ OfList(code) = hashes /\ Len(code) \in Nat
  <2>1. code \in Seq(AnyByte) /\ OfList(code) = hashes
    BY <1>1, NamedIs
  <2> QED
    BY <2>1
<1>3. CASE chunk = code
  <2>1. plain = [result |-> "ok", method |-> known, data |-> chunk]
    BY <1>1, <1>3 DEF Plain
  <2>2. plain.result = "ok" /\ plain.method = known /\ plain.data = chunk
    BY <2>1
  <2> QED
    BY <1>1, <1>3, <2>2
<1>4. ASSUME NEW m \in Methods, Uses(libraries, m), chunk = Pack(code, m), Len(chunk) < Len(code)
      PROVE  plain.result = "ok" /\ MayKnow(libraries, plain.method) /\ Len(plain.data) = full
  <2>1. Len(chunk) \in Nat
    <3>1. chunk \in Seq(AnyByte)
      BY <1>2, <1>4, PackTyped
    <3> QED
      BY <3>1
  <2>2. packed # full
    BY <1>1, <1>2, <1>4, <2>1
  <2>3. hashes # <<>>
    <3>1. Len(<<>>) = 0
      OBVIOUS
    <3>2. Named(<<>>) = <<>>
      BY NamedNone
    <3> QED
      BY <1>1, <1>4, <2>1, <3>1, <3>2
  <2>4. PICK n : n = PackedOf(hashes)
    OBVIOUS
  <2>5. n \in Nat /\ n # 0
    BY <2>3, <2>4, PackedAny
  <2>6. chunk = [i \in 1..n |-> Byte(hashes, m, i)]
    BY <1>2, <1>4, <2>4, Zenon DEF Pack, OfList, OfEach, PackedOf
  <2>7. 1 \in 1..n
    BY <2>5
  <2>8. chunk[1] = Byte(hashes, m, 1) /\ 1 \in DOMAIN chunk
    BY <2>6, <2>7
  <2>9. chunk # <<>>
    BY <2>8
  <2>10. chunk[1].of = hashes /\ chunk[1].method = m
    BY <2>8 DEF Byte
  <2>11. PICK data : data = FlattenSeq([k \in DOMAIN chunk[1].of |-> Code(chunk[1].of[k])])
    OBVIOUS
  <2>12. data = code
    BY <1>1, <2>10, <2>11 DEF Named
  <2>13. m # NoMethod /\ known \in {NoMethod, m}
    <3>1. m # NoMethod
      BY <1>4 DEF Uses
    <3>2. known = NoMethod \/ known = m
      BY <1>4, OneMethod DEF MayKnow
    <3> QED
      BY <3>1, <3>2
  <2>14. Len(data) = full /\ chunk = Pack(data, m)
    BY <1>1, <1>4, <2>12
  <2>15. plain = Unpack(chunk, known, full)
    BY <2>2 DEF Plain
  <2>16. plain = [result |-> "ok", method |-> m, data |-> data]
    <3>1. plain = IF chunk # <<>> /\ chunk[1].method # NoMethod
                       /\ known \in {NoMethod, chunk[1].method}
                       /\ Len(data) = full /\ chunk = Pack(data, chunk[1].method)
                  THEN [result |-> "ok", method |-> chunk[1].method, data |-> data] ELSE Failed
      BY <2>11, <2>15 DEF Unpack
    <3> QED
      BY <2>9, <2>10, <2>13, <2>14, <3>1
  <2>17. plain.result = "ok" /\ plain.method = m /\ plain.data = data
    BY <2>16
  <2> QED
    BY <1>4, <2>14, <2>17 DEF MayKnow
<1> QED
  BY <1>1, <1>3, <1>4 DEF MadeBy

\* A chunk that an archive names is made for its hashes, and where no two archives
\* clash it has the size that the header says.
LEMMA ChunkMade ==
  ASSUME Container, Origins, ~Clash, NEW name \in DOMAIN archives,
         NEW library, library = game.libraries[name],
         NEW groups, groups = GroupsOf(library, game.format),
         NEW header, header = archives[name], NEW g \in 1..Len(groups),
         NEW id, id = header.groups[g].id
  PROVE  MadeBy(Libraries, HashesOf(id), chunks[id]) /\ header.groups[g].packed = Len(chunks[id])
<1>1. IsLibrary(library) /\ header.result = "ok" /\ HeaderSoFar(library, groups, header, Len(groups))
      /\ HasChunks(chunks, header, Len(groups))
  <2>1. Archived(library, game.format, header, chunks)
    BY Zenon DEF Container
  <2> QED
    BY <2>1, GamesAssumption, Zenon DEF Container, Archived
<1>2. id \in DOMAIN chunks
  BY <1>1 DEF HasChunks
<1>3. PICK n \in DOMAIN archives : ChunkOf(n, id)
  BY <1>2 DEF Origins
<1>4. PICK other : other = WrittenLibrary(n)
  OBVIOUS
<1>5. other.result = "ok" /\ archives[n] = other.header
  BY <1>4 DEF Origins
<1>6. PICK h \in 1..Len(other.chunks) : other.header.groups[h].id = id /\ chunks[id] = other.chunks[h]
  BY <1>3, <1>4 DEF ChunkOf
<1>7. PICK libn : libn = game.libraries[n]
  OBVIOUS
<1>8. n \in DOMAIN game.libraries /\ game \in Games
  BY Zenon DEF Container
<1>9. IsLibrary(libn) /\ NamesCode(libn)
  BY <1>7, <1>8, GamesAssumption, CodeAssumption, Zenon
<1>10. libn \in Libraries
  BY <1>7, <1>8, Zenon DEF Libraries, Range
<1>11. PICK groupsn : groupsn = GroupsOf(libn, game.format)
  OBVIOUS
<1>12. other = WriteLibrary(libn, game.format, game.checked)
  BY <1>4, <1>7 DEF WrittenLibrary
<1>13. ArchiveSoFar(libn, groupsn, other, Len(groupsn))
  BY <1>9, <1>11, <1>12, WrittenHasChunks
<1>14. /\ HeaderSoFar(libn, groupsn, other.header, Len(groupsn)) /\ other.header.result = "ok"
       /\ Len(other.chunks) = Len(groupsn)
  BY <1>5, <1>13 DEF ArchiveSoFar
<1>15. MadeSoFar(Libraries, libn, groupsn, other, Len(groupsn))
  BY <1>9, <1>10, <1>11, <1>12, ConversionMakes
<1>16. /\ MadeBy(Libraries, HashesIn(libn, groupsn[h]), other.chunks[h])
       /\ other.header.groups[h].packed = Len(other.chunks[h])
  BY <1>5, <1>6, <1>14, <1>15 DEF MadeSoFar
<1>17. HashesOf(id) = HashesIn(libn, groupsn[h])
  <2>1. id = IdOf(libn, groupsn[h])
    BY <1>6, <1>14 DEF HeaderSoFar, EntryOf
  <2>2. PICK R : R = Seq(DOMAIN libn.shaders)
    OBVIOUS
  <2>3. groupsn \in Seq(R)
    BY <1>9, <1>11, <2>2, GroupsOfLibrary DEF Grouped, Splits
  <2>4. groupsn[h] \in Seq(DOMAIN libn.shaders)
    BY <1>6, <1>14, <2>2, <2>3
  <2> QED
    BY <1>9, <2>1, <2>4, HashesTyped
<1>18. header.groups[g].packed = other.header.groups[h].packed
  <2>1. g \in DOMAIN header.groups
    <3>1. PICK hs : hs = header.groups
      OBVIOUS
    <3>2. hs \in Seq(AnyEntry) /\ Len(hs) = Len(groups)
      BY <1>1, <3>1 DEF HeaderSoFar
    <3> QED
      BY <3>1, <3>2
  <2>2. h \in DOMAIN archives[n].groups
    <3>1. PICK hs : hs = other.header.groups
      OBVIOUS
    <3>2. hs \in Seq(AnyEntry) /\ Len(hs) = Len(groupsn)
      BY <1>14, <3>1 DEF HeaderSoFar
    <3> QED
      BY <1>5, <1>6, <1>14, <3>1, <3>2
  <2> QED
    BY <1>5, <1>6, <2>1, <2>2 DEF Clash
<1> QED
  BY <1>6, <1>16, <1>17, <1>18

\* So a group of the archive can be read.
LEMMA GroupSucceeds ==
  ASSUME Container, CodeKnown, Origins, ~Clash, ~Mixed(Libraries), NEW name \in DOMAIN archives,
         NEW library, library = game.libraries[name],
         NEW groups, groups = GroupsOf(library, game.format),
         NEW header, header = archives[name], NEW g \in 1..Len(groups),
         NEW archive, archive.result = "ok", MayKnow(Libraries, archive.method),
         NEW next, next = ReadGroup(header, chunks, archive, g)
  PROVE  next.result = "ok" /\ MayKnow(Libraries, next.method)
<1>1. IsLibrary(library) /\ header.result = "ok" /\ HeaderSoFar(library, groups, header, Len(groups))
  <2>1. Archived(library, game.format, header, chunks)
    BY Zenon DEF Container
  <2> QED
    BY <2>1, GamesAssumption, Zenon DEF Container, Archived
<1>2. PICK D : D = DOMAIN library.shaders
  OBVIOUS
<1>3. PICK group : group = groups[g]
  OBVIOUS
<1>4. Grouped(library, groups)
  BY <1>1, GroupsOfLibrary
<1>5. groups \in Seq(Seq(D)) /\ group \in Seq(D) /\ Sized(library, group)
  <2>1. PICK R : R = Seq(D)
    OBVIOUS
  <2>2. groups \in Seq(R)
    BY <1>2, <1>4, <2>1 DEF Grouped, Splits
  <2>3. group \in R
    BY <1>3, <2>2
  <2>4. AllSized(library, groups)
    BY DEF CodeKnown
  <2> QED
    BY <1>3, <2>1, <2>2, <2>3, <2>4 DEF AllSized
<1>6. PICK shaders : shaders = RangeOf(header.indices, header.groups[g])
  OBVIOUS
<1>7. shaders = group
  BY <1>1, <1>2, <1>3, <1>5, <1>6, GroupThere
<1>8. PICK id : id = header.groups[g].id
  OBVIOUS
<1>9. PICK full : full = header.groups[g].full
  OBVIOUS
<1>10. PICK packed : packed = header.groups[g].packed
  OBVIOUS
<1>11. PICK chunk : chunk = chunks[id]
  OBVIOUS
<1>12. PICK hs : hs = HashesIn(library, group)
  OBVIOUS
<1>13. full = SizeOf(library, group) /\ id = IdOf(library, group)
  <2>1. EntryOf(library, header.indices, groups[g], header.groups[g])
    BY <1>1 DEF HeaderSoFar
  <2> QED
    BY <1>3, <1>8, <1>9, <2>1 DEF EntryOf
<1>14. hs \in Seq(DOMAIN FullSize) /\ HashesOf(id) = hs
  BY <1>1, <1>2, <1>5, <1>12, <1>13, HashesTyped, SMTT(60)
<1>15. full = Len(Named(hs))
  <2>1. \A k \in 1..Len(group) :
          library.shaders[group[k]].full = FullSize[library.shaders[group[k]].hash]
    BY <1>5 DEF Sized
  <2> QED
    BY <1>1, <1>2, <1>5, <1>12, <1>13, <2>1, SizeNamed
<1>16. MadeBy(Libraries, hs, chunk) /\ packed = Len(chunk)
  BY <1>8, <1>10, <1>11, <1>14, ChunkMade
<1>17. PICK known : known = archive.method
  OBVIOUS
<1>18. PICK plain : plain = Plain(chunk, packed, known, full)
  OBVIOUS
<1>19. plain.result = "ok" /\ MayKnow(Libraries, plain.method) /\ Len(plain.data) = full
  <2>1. MayKnow(Libraries, known)
    BY <1>17
  <2>2. PICK libs : libs = Libraries
    OBVIOUS
  <2>3. plain.result = "ok" /\ MayKnow(libs, plain.method) /\ Len(plain.data) = full
    BY <1>14, <1>15, <1>16, <1>18, <2>1, <2>2, MadeReads
  <2> QED
    BY <2>2, <2>3
<1>20. plain = PlainChunk(header, chunks, archive.method, g)
  BY <1>8, <1>9, <1>10, <1>11, <1>17, <1>18 DEF PlainChunk
<1>21. \A s \in ToSet(shaders) : header.shaders[s].group = g
  BY <1>1, <1>3, <1>4, <1>7, GroupInPlaces
<1>22. next = ReadOf(header, archive, g, shaders, plain)
  <2>1. ReadGroup(header, chunks, archive, g) =
          ReadOf(header, archive, g, RangeOf(header.indices, header.groups[g]),
                 PlainChunk(header, chunks, archive.method, g))
    BY Zenon DEF ReadGroup, ReadOf, PlainChunk, ByOffset, EndAt, PlaceIn, CodeFrom
  <2> QED
    BY <1>6, <1>20, <2>1
<1>23. ~ (full > Len(plain.data))
  <2>1. PICK code : code = Named(hs)
    OBVIOUS
  <2>2. code \in Seq(AnyByte)
    BY <1>14, <2>1, NamedIs
  <2>3. full \in Nat
    BY <1>15, <2>1, <2>2
  <2> QED
    BY <1>19, <2>3
<1>24. PICK code : code = [s \in DOMAIN archive.code |->
                    IF s \notin ToSet(shaders) THEN archive.code[s]
                    ELSE CodeFrom(header, header.groups[g].full, ByOffset(header, shaders),
                                  plain.data, s)]
  OBVIOUS
<1>25. next = [result |-> "ok", method |-> plain.method, code |-> code]
  BY <1>9, <1>19, <1>21, <1>22, <1>23, <1>24, Zenon DEF ReadOf
<1>26. next.result = "ok" /\ next.method = plain.method
  BY <1>25
<1> QED
  BY <1>19, <1>26

\* And so can the archive: every shader has code.
LEMMA ReadSucceeds ==
  ASSUME Container, CodeKnown, Origins, ~Clash, ~Mixed(Libraries), NEW name \in DOMAIN archives
  PROVE  ReadArchive(archives[name], chunks).result = "ok"
<1>1. PICK library : library = game.libraries[name]
  OBVIOUS
<1>2. PICK groups : groups = GroupsOf(library, game.format)
  OBVIOUS
<1>3. PICK header : header = archives[name]
  OBVIOUS
<1>4. /\ IsLibrary(library) /\ header.result = "ok" /\ HeaderSoFar(library, groups, header, Len(groups))
      /\ HasChunks(chunks, header, Len(groups)) /\ AllBytes(chunks)
  <2>1. Archived(library, game.format, header, chunks)
    BY <1>1, <1>3, Zenon DEF Container
  <2> QED
    BY <1>1, <1>2, <2>1, GamesAssumption, Zenon DEF Container, Archived
<1>5. Grouped(library, groups)
  BY <1>2, <1>4, GroupsOfLibrary
<1>6. PICK N : N = Len(groups)
  OBVIOUS
<1>7. N \in Nat /\ DOMAIN header.groups = 1..N
  <2>1. N \in Nat
    BY <1>5, <1>6 DEF Grouped, Splits
  <2>2. PICK hs : hs = header.groups
    OBVIOUS
  <2>3. hs \in Seq(AnyEntry) /\ Len(hs) = N
    BY <1>4, <1>6, <2>2 DEF HeaderSoFar
  <2> QED
    BY <2>1, <2>2, <2>3
<1>8. PICK read : read = CodeRead(header, chunks, Numbered(header.groups))
  OBVIOUS
<1>9. PICK f : ReadsTo(f, header, chunks, N) /\ read = f[N]
  <2>1. ReadsAll(header, chunks, N)
    BY <1>7, ReadsGroups
  <2> QED
    BY <1>8, <2>1 DEF ReadsAll
<1> DEFINE I(n) == f[n].result = "ok" /\ MayKnow(Libraries, f[n].method)
           T == {n \in 0..N : I(n)}
<1>10. I(0)
  <2>1. f[0].result = "ok" /\ f[0].method = NoMethod
    BY <1>9 DEF ReadsTo, NoCode
  <2> QED
    BY <2>1 DEF MayKnow
<1>11. ASSUME NEW n \in 0..(N - 1), I(n)
       PROVE  I(n + 1)
  <2>1. f[n + 1] = ReadGroup(header, chunks, f[n], n + 1)
    BY <1>9 DEF ReadsTo
  <2>2. PICK g : g = n + 1
    OBVIOUS
  <2>3. g \in 1..Len(groups)
    BY <1>6, <1>7, <2>2
  <2>4. PICK archive : archive = f[n]
    OBVIOUS
  <2>5. archive.result = "ok" /\ MayKnow(Libraries, archive.method)
    BY <1>11, <2>4
  <2>6. PICK next : next = ReadGroup(header, chunks, archive, g)
    OBVIOUS
  <2>7. next.result = "ok" /\ MayKnow(Libraries, next.method)
    BY <1>1, <1>2, <1>3, <2>3, <2>5, <2>6, GroupSucceeds
  <2>8. f[n + 1] = next
    BY <2>1, <2>2, <2>4, <2>6
  <2> QED
    BY <2>7, <2>8
<1>12. read.result = "ok"
  <2> HIDE DEF I
  <2>1. 0 \in T
    BY <1>7, <1>10
  <2>2. \A n \in 0..(N - 1) : n \in T => n + 1 \in T
    <3>1. \A n \in 0..(N - 1) : n + 1 \in 0..N
      BY <1>7
    <3> QED
      BY <1>11, <3>1
  <2> HIDE DEF T
  <2>3. 0..N \subseteq T
    BY <1>7, <2>1, <2>2, Induction
  <2>4. N \in 0..N
    BY <1>7
  <2>5. N \in T
    BY <2>3, <2>4
  <2> QED
    BY <1>9, <2>5 DEF T, I
<1>13. DOMAIN read.code = DOMAIN library.shaders
  <2>1. ReadSoFar(library, read)
    BY <1>4, <1>5, <1>8, ArchiveIsRead
  <2> QED
    BY <1>12, <2>1 DEF ReadSoFar
<1>14. \A s \in DOMAIN library.shaders : read.code[s] = Code(library.shaders[s].hash)
  <2>1. Known(library, groups, header, chunks)
    BY <1>1, <1>2, <1>4, <1>5 DEF Known, CodeKnown
  <2> QED
    BY <1>4, <1>8, <1>12, <2>1, ArchiveReads
<1>15. <<>> \notin ToSet(read.code)
  <2> SUFFICES ASSUME <<>> \in ToSet(read.code) PROVE FALSE
    OBVIOUS
  <2>1. PICK code : code = read.code
    OBVIOUS
  <2>2. PICK s \in DOMAIN library.shaders : code[s] = <<>>
    BY <1>13, <2>1 DEF ToSet
  <2>3. PICK h : h = library.shaders[s].hash
    OBVIOUS
  <2>4. h \in DOMAIN FullSize
    BY <1>4, <2>3, ShaderTypes
  <2>5. PICK N1 : N1 = FullSize[h]
    OBVIOUS
  <2>6. N1 \in Nat \ {0}
    BY <2>4, <2>5, SizesAssumption
  <2>7. Code(h) = [i \in 1..N1 |-> Byte(<<h>>, NoMethod, i)]
    BY <2>5 DEF Code
  <2>8. Len(Code(h)) = N1
    BY <2>6, <2>7
  <2>9. Code(h) = <<>> /\ Len(<<>>) = 0
    BY <1>14, <2>1, <2>2, <2>3
  <2> QED
    BY <2>6, <2>8, <2>9
<1>16. ReadArchive(header, chunks) =
         LET r == CodeRead(header, chunks, Numbered(header.groups))
         IN  IF r.result # "ok" THEN r ELSE IF <<>> \in ToSet(r.code) THEN Failed
             ELSE [result |-> "ok", header |-> header, method |-> r.method, code |-> r.code]
  BY DEF ReadArchive, CodeRead, NoCode, Numbered
<1>17. ReadArchive(header, chunks) =
         [result |-> "ok", header |-> header, method |-> read.method, code |-> read.code]
  BY <1>8, <1>12, <1>15, <1>16
<1>18. PICK all : all = ReadArchive(header, chunks)
  OBVIOUS
<1>19. all.result = "ok"
  BY <1>17, <1>18
<1> QED
  BY <1>3, <1>18, <1>19

\* The conversion of a library fails for the reasons that are named.
LEMMA ConversionFails ==
  ASSUME Container, toWrite # <<>>, NEW library, library = game.libraries[Head(toWrite)],
         WrittenLibrary(Head(toWrite)).result # "ok"
  PROVE  Overlong(library) \/ Mixed({library})
<1>1. PICK name : name = Head(toWrite)
  OBVIOUS
<1>2. PICK names : names = DOMAIN game.libraries \ {""}
  BY Zenon
<1>3. toWrite \in Seq(names)
  BY <1>2, Zenon DEF Container
<1>4. name \in names
  BY <1>1, <1>3
<1>5. IsLibrary(library) /\ NamesCode(library)
  BY <1>1, <1>2, <1>4, GamesAssumption, CodeAssumption, Zenon DEF Container
<1>6. PICK archive : archive = WriteLibrary(library, game.format, game.checked)
  OBVIOUS
<1>7. archive.result # "ok"
  BY <1>6 DEF WrittenLibrary
<1>8. PICK groups : groups = GroupsOf(library, game.format)
  OBVIOUS
<1>9. PICK libraries : libraries = {library}
  OBVIOUS
<1>10. Mixed(libraries) \/ \E g \in 1..Len(groups) : ~ (Len(groups[g]) <= Len(library.indices))
  <2>1. library \in libraries
    BY <1>9
  <2>2. ~Mixed(libraries) /\ (\A g \in 1..Len(groups) : Len(groups[g]) <= Len(library.indices))
          => archive.result = "ok"
    BY <1>5, <1>6, <1>8, <2>1, ConversionMakes
  <2>3. (\A g \in 1..Len(groups) : Len(groups[g]) <= Len(library.indices))
          \/ \E g \in 1..Len(groups) : ~ (Len(groups[g]) <= Len(library.indices))
    BY Zenon
  <2> QED
    BY <1>7, <2>2, <2>3, Zenon
<1>11. ASSUME NEW g \in 1..Len(groups), ~ (Len(groups[g]) <= Len(library.indices))
       PROVE  Overlong(library)
  <2>1. PICK R : R = Seq(DOMAIN library.shaders)
    OBVIOUS
  <2>2. groups \in Seq(R)
    BY <1>5, <1>8, <2>1, GroupsOfLibrary DEF Grouped, Splits
  <2>3. g \in DOMAIN groups /\ groups[g] \in R
    BY <2>2
  <2>4. Len(groups[g]) \in Nat /\ Len(library.indices) \in Nat
    <3>1. PICK group : group = groups[g]
      BY Zenon
    <3>2. Len(group) \in Nat
      BY <2>1, <2>3, <3>1, SMTT(60)
    <3>3. PICK indices : indices = library.indices
      BY Zenon
    <3>4. indices \in Seq(DOMAIN library.shaders)
      BY <1>5, <3>3 DEF IsLibrary
    <3>5. Len(indices) \in Nat
      BY <3>4
    <3> QED
      BY <3>1, <3>2, <3>3, <3>5
  <2>5. Len(groups[g]) > Len(library.indices)
    BY <1>11, <2>4
  <2> QED
    BY <1>8, <2>3, <2>5 DEF Overlong
<1> QED
  BY <1>9, <1>10, <1>11

\* What is said of a command that has failed while no library was rebuilt.
FailedFor ==
  result \in {"error", "panic"} =>
    IF toWrite # <<>>
    THEN LET library == game.libraries[Head(toWrite)] IN Overlong(library) \/ Mixed({library})
    ELSE current = NoArchive => Clash \/ Mixed(Range(game.libraries))

\* Every step keeps it so.
LEMMA StepFailsFor ==
  Container /\ CodeKnown /\ Origins /\ CurrentRead /\ FailedFor /\ [Next]_vars => FailedFor'
<1> SUFFICES ASSUME Container, CodeKnown, Origins, CurrentRead, FailedFor, [Next]_vars PROVE FailedFor'
  OBVIOUS
<1>1. CASE UNCHANGED <<result, toWrite, current, archives, game>>
  BY <1>1 DEF FailedFor, Clash, Overlong
<1>2. CASE ConvertLibrary
  <2>1. /\ result = "running" /\ toWrite # <<>> /\ UNCHANGED game
        /\ UNCHANGED result \/ (WrittenLibrary(Head(toWrite)).result # "ok" /\ UNCHANGED toWrite)
    BY <1>2 DEF ConvertLibrary
  <2>2. CASE UNCHANGED result
    BY <2>1, <2>2 DEF FailedFor
  <2>3. CASE WrittenLibrary(Head(toWrite)).result # "ok" /\ UNCHANGED toWrite
    <3>1. PICK library : library = game.libraries[Head(toWrite)]
      OBVIOUS
    <3>2. Overlong(library) \/ Mixed({library})
      BY <2>1, <2>3, <3>1, ConversionFails
    <3>3. (Overlong(library) \/ Mixed({library}))' = (Overlong(library) \/ Mixed({library}))
      BY <2>1 DEF Overlong
    <3> QED
      BY <2>1, <2>3, <3>1, <3>2, <3>3 DEF FailedFor, Overlong
  <2> QED
    BY <2>1, <2>2, <2>3
<1>3. ASSUME NEW name \in DOMAIN archives, StartLibrary(name)
      PROVE  FailedFor'
  <2>1. /\ result = "running" /\ toWrite = <<>> /\ UNCHANGED <<game, toWrite, archives>>
        /\ UNCHANGED result \/ ReadArchive(archives[name], chunks).result # "ok"
    BY <1>3 DEF StartLibrary, container
  <2>2. CASE UNCHANGED result
    BY <2>1, <2>2 DEF FailedFor
  <2>3. CASE ReadArchive(archives[name], chunks).result # "ok"
    <3>1. Clash \/ Mixed(Libraries)
      BY <2>3, ReadSucceeds
    <3>2. Clash' = Clash
      BY <2>1 DEF Clash
    <3> QED
      BY <2>1, <3>1, <3>2 DEF FailedFor, Libraries
  <2> QED
    BY <2>1, <2>2, <2>3
<1>4. CASE EndLibrary
  <2>1. /\ current # NoArchive /\ result = "running" /\ UNCHANGED toWrite
        /\ UNCHANGED result \/ UNCHANGED current
    BY <1>4 DEF EndLibrary
  <2>2. toWrite = <<>>
    BY <2>1 DEF CurrentRead
  <2> QED
    BY <2>1, <2>2 DEF FailedFor
<1>5. CASE AllRebuilt
  <2>1. result' = "ok"
    BY <1>5 DEF AllRebuilt
  <2> QED
    BY <2>1 DEF FailedFor
<1>6. \/ UNCHANGED <<result, toWrite, current, archives, game>> \/ ConvertLibrary \/ EndLibrary
      \/ AllRebuilt \/ \E name \in DOMAIN archives : StartLibrary(name)
  BY DEF Next, Rebuild, Send, CloseChannel, Take, Work, Receive, Ended, vars, container
<1> QED
  BY <1>1, <1>2, <1>3, <1>4, <1>5, <1>6

\* A conversion fails for the reasons that are named and for no other: for any games,
\* the header of every library that has no group of shaders of no map that is longer
\* than its indices is written, and the chunks of libraries of one method that clash
\* nowhere are read; with OnlyCompressionFails, nothing else is lost.
THEOREM FailsAlwaysJustly == Spec => []FailsJustly
<1>1. Init => FailedFor
  BY DEF Init, FailedFor
<1>2. Init => CurrentRead
  BY DEF Init, CurrentRead
<1>3. RebuildFailsJustly /\ FailedFor => FailsJustly
  BY DEF FailedFor, FailsJustly
<1> QED
  BY <1>1, <1>2, <1>3, OnlyCompressionFails, ContainerSafety, StepReads, InitKnows, StepKnows,
     InitOrigins, StepOrigins, StepFailsFor, PTL DEF Spec

-----------------------------------------------------------------------------
(* What the marks of the maps note.                                        *)

\* The marks of a map, with requests only between them.
Frames(j, k) ==
  /\ j \in 1..Len(current.messages) /\ k \in 1..Len(current.messages) /\ j < k
  /\ current.messages[j].kind = "StartMap" /\ current.messages[k].kind = "EndMap"
  /\ \A i \in (j + 1)..(k - 1) : current.messages[i].kind = "Compress"

\* No two marks end the same map.
EndsDiffer ==
  \A k, l \in 1..Len(current.messages) :
    /\ current.messages[k].kind = "EndMap" /\ current.messages[l].kind = "EndMap"
    /\ current.messages[k].index = current.messages[l].index
    => k = l

\* The code between two messages.
RegionFrom(j, k) == [offset |-> Len(CodeUpTo[j]), size |-> Len(CodeUpTo[k]) - Len(CodeUpTo[j])]

\* What is noted of the maps whose first mark has been written.
Noted(written, done, j, k) ==
  IF k <= done
  THEN /\ current.messages[k].index \in DOMAIN written.maps
       /\ written.maps[current.messages[k].index] = RegionFrom(j, k)
  ELSE written.start = Len(CodeUpTo[j])

\* What has been noted of the maps so far.
MarksSoFar == receiving => \A j, k : Frames(j, k) /\ j <= Done => Noted(layout, Done, j, k)

\* Steps that write nothing keep it.
LEMMA MarksUnchanged ==
  ASSUME MarksSoFar, UNCHANGED <<game, current, layout>>,
         receiving' => receiving /\ Done' = Done
  PROVE  MarksSoFar'
<1> SUFFICES ASSUME receiving', NEW j, NEW k, Frames(j, k)', j <= Done'
             PROVE  Noted(layout, Done, j, k)'
  BY DEF MarksSoFar
<1>1. CodeUpTo' = CodeUpTo
  BY SameLibrary
<1>2. Frames(j, k) /\ Done' = Done
  BY DEF Frames
<1>3. Noted(layout, Done, j, k)
  BY <1>2 DEF MarksSoFar
<1> QED
  BY <1>1, <1>2, <1>3 DEF Noted, RegionFrom

\* Writing the first result keeps it.
LEMMA MarkOne ==
  ASSUME IInv, WellFormed, EndsDiffer, MarksSoFar, receiving, 1 \in DOMAIN working,
         layout' = Written(working[1].message),
         working' = SubSeq(working, 1, 1 - 1) \o SubSeq(working, 1 + 1, Len(working)),
         UNCHANGED <<game, toWrite, container, current, producer, sent, channel, receiving>>
  PROVE  MarksSoFar'
<1> SUFFICES ASSUME NEW j, NEW k, Frames(j, k)', j <= Done'
             PROVE  Noted(layout, Done, j, k)'
  BY DEF MarksSoFar
<1>1. /\ OnTheWay /\ WrittenSoFar /\ sent \in Nat /\ Len(current.messages) \in Nat
      /\ channel \in Seq(AnyMessage) /\ Len(channel) \in Nat
      /\ working \in Seq(Taken) /\ Len(working) \in Nat /\ Len(working) >= 1
      /\ current.messages \in Seq(AnyMessage) /\ sent <= Len(current.messages)
  BY PipelineTypes
<1>2. Len(working') = Len(working) - 1
  <2>1. SubSeq(working, 1, 1 - 1) = <<>>
    BY <1>1
  <2>2. PICK rest : rest = SubSeq(working, 1 + 1, Len(working))
    OBVIOUS
  <2>3. rest = Tail(working)
    <3>1. 1 + 1 = 2
      OBVIOUS
    <3> QED
      BY <2>2, <3>1
  <2>4. working # <<>>
    BY <1>1
  <2>5. rest \in Seq(Taken) /\ Len(rest) = Len(working) - 1
    BY <1>1, <2>3, <2>4
  <2>6. working' = rest
    BY <2>1, <2>2, <2>5
  <2> QED
    BY <2>5, <2>6
<1>3. Done' = Done + 1 /\ Done \in Nat /\ Done + 1 \in 1..Len(current.messages)
  <2>1. Done >= 0
    BY <1>1 DEF OnTheWay
  <2>2. Done' = sent - Len(channel) - Len(working') /\ Done = sent - Len(channel) - Len(working)
    BY DEF Done
  <2>3. Done' = Done + 1 /\ Done \in Int /\ Done + 1 <= sent
    BY <1>1, <1>2, <2>2
  <2> QED
    BY <1>1, <2>1, <2>3
<1>4. PICK message : message = working[1].message
  OBVIOUS
<1>5. PICK d : d = Done
  OBVIOUS
<1>6. message = current.messages[d + 1] /\ message \in AnyMessage
  <2>1. 1 \in 1..Len(working)
    BY <1>1
  <2>2. message = current.messages[d + 1]
    BY <1>1, <1>4, <1>5, <2>1 DEF OnTheWay
  <2> QED
    BY <1>3, <1>5, <2>2, PipelineTypes
<1>7. CodeUpTo' = CodeUpTo
  BY SameLibrary
<1>8. Frames(j, k) /\ j \in Nat /\ k \in Nat /\ j <= d + 1 /\ d \in Nat
  BY <1>1, <1>3, <1>5 DEF Frames
<1>9. message.kind # "Compress" => CodeUpTo[d + 1] = layout.code
  <2>1. layout.code = CodeUpTo[d]
    BY <1>1, <1>5 DEF WrittenSoFar
  <2>2. d \in 0..Len(current.messages) /\ (d + 1) - 1 = d
    BY <1>3, <1>5
  <2>3. CodeUpTo[d] \in Seq(CodeBytes)
    BY <2>2, CodeByMessage
  <2>4. CodeUpTo[d + 1] = CodeUpTo[d] \o CodeOf(message)
    BY <1>3, <1>5, <1>6, <2>2, CodeByMessage
  <2> QED
    BY <2>1, <2>3, <2>4 DEF CodeOf
<1>10. PICK l : l = layout
  OBVIOUS
<1>11. l = [code |-> l.code, start |-> l.start, shaders |-> l.shaders, maps |-> l.maps]
  BY <1>1, <1>10 DEF WrittenSoFar
<1>12. PICK at : at = Len(l.code)
  OBVIOUS
<1>13. PICK region : region = [offset |-> l.start, size |-> at - l.start]
  OBVIOUS
<1>14. PICK x : x = message.index
  OBVIOUS
<1>15. /\ message.kind = "Compress" => layout'.start = l.start /\ layout'.maps = l.maps
       /\ message.kind = "StartMap" => layout'.start = at /\ layout'.maps = l.maps
       /\ message.kind = "EndMap" => layout'.maps = WithKey(l.maps, x, region)
  <2>1. CASE message.kind = "Compress"
    <3>1. PICK s, bytes : s = x /\ bytes = Result(message.index)
      OBVIOUS
    <3>2. PICK place : place = [offset |-> at, size |-> Len(bytes), unique |-> message.unique]
      OBVIOUS
    <3>3. layout' = [l EXCEPT !.code = @ \o bytes, !.shaders[s] = place]
      BY <1>4, <1>10, <1>12, <1>14, <2>1, <3>1, <3>2 DEF Written
    <3> QED
      BY <1>11, <2>1, <3>3
  <2>2. CASE message.kind = "StartMap"
    <3>1. layout' = [l EXCEPT !.start = at]
      BY <1>4, <1>10, <1>12, <2>2 DEF Written
    <3> QED
      BY <1>11, <2>2, <3>1
  <2>3. CASE message.kind = "EndMap"
    <3>1. layout' = [l EXCEPT !.maps = WithKey(@, x, region)]
      BY <1>4, <1>10, <1>12, <1>13, <1>14, <2>3 DEF Written
    <3> QED
      BY <1>11, <2>3, <3>1
  <2> QED
    BY <1>6, <2>1, <2>2, <2>3 DEF AnyMessage
<1>16. message.kind \in {"Compress", "StartMap", "EndMap"}
  BY <1>6 DEF AnyMessage
<1>17. j <= d => Noted(l, d, j, k)
  BY <1>5, <1>8, <1>10 DEF MarksSoFar
<1>18. /\ current.messages[j].kind = "StartMap" /\ current.messages[k].kind = "EndMap" /\ j < k
       /\ k \in 1..Len(current.messages) /\ j \in 1..Len(current.messages)
       /\ \A i \in (j + 1)..(k - 1) : current.messages[i].kind = "Compress"
  BY <1>8 DEF Frames
<1>19. PICK r : r = RegionFrom(j, k)
  OBVIOUS
<1>20. PICK y : y = current.messages[k].index
  OBVIOUS
<1>21. ASSUME IF k <= d + 1 THEN y \in DOMAIN layout'.maps /\ layout'.maps[y] = r
              ELSE layout'.start = Len(CodeUpTo[j])
       PROVE  Noted(layout, Done, j, k)'
  <2>1. r = RegionFrom(j, k)'
    BY <1>7, <1>19 DEF RegionFrom
  <2>2. y = current'.messages[k].index
    BY <1>20
  <2>3. Done' = d + 1
    BY <1>3, <1>5
  <2> QED
    BY <1>7, <1>21, <2>1, <2>2, <2>3 DEF Noted
<1>22. j <= d => IF k <= d THEN y \in DOMAIN l.maps /\ l.maps[y] = r ELSE l.start = Len(CodeUpTo[j])
  BY <1>17, <1>19, <1>20 DEF Noted
<1>23. CASE message.kind = "Compress"
  <2>1. j # d + 1 /\ k # d + 1
    BY <1>6, <1>18, <1>23
  <2>2. j <= d /\ (k <= d + 1 <=> k <= d)
    BY <1>8, <2>1
  <2> QED
    BY <1>15, <1>21, <1>22, <1>23, <2>2
<1>24. CASE message.kind = "StartMap"
  <2>1. k # d + 1
    BY <1>6, <1>18, <1>24
  <2>2. CASE j = d + 1
    <3>1. layout'.start = Len(CodeUpTo[j]) /\ ~ (k <= d + 1)
      BY <1>8, <1>9, <1>10, <1>12, <1>15, <1>18, <1>24, <2>2
    <3> QED
      BY <1>21, <3>1
  <2>3. CASE j # d + 1
    <3>1. j <= d /\ d + 1 \notin (j + 1)..(k - 1)
      BY <1>6, <1>8, <1>18, <1>24, <2>3
    <3>2. k <= d
      BY <1>8, <2>1, <3>1
    <3>3. k <= d + 1 /\ y \in DOMAIN layout'.maps /\ layout'.maps[y] = r
      BY <1>8, <1>15, <1>22, <1>24, <3>1, <3>2
    <3> QED
      BY <1>21, <3>3
  <2> QED
    BY <2>2, <2>3
<1>25. CASE message.kind = "EndMap"
  <2>1. j # d + 1
    BY <1>6, <1>18, <1>25
  <2>2. j <= d /\ d + 1 \notin (j + 1)..(k - 1)
    BY <1>6, <1>8, <1>18, <1>25, <2>1
  <2>3. k <= d + 1
    BY <1>8, <2>2
  <2>4. layout'.maps = [z \in DOMAIN l.maps \cup {x} |-> IF z = x THEN region ELSE l.maps[z]]
    BY <1>15, <1>25 DEF WithKey
  <2>5. CASE k = d + 1
    <3>1. y = x
      BY <1>6, <1>14, <1>20, <2>5
    <3>2. l.start = Len(CodeUpTo[j])
      BY <1>8, <1>22, <2>2, <2>5
    <3>3. region = r
      BY <1>9, <1>10, <1>12, <1>13, <1>19, <1>25, <2>5, <3>2 DEF RegionFrom
    <3> QED
      BY <1>21, <2>3, <2>4, <3>1, <3>3
  <2>6. CASE k # d + 1
    <3>1. k <= d
      BY <1>8, <2>3, <2>6
    <3>2. y # x
      BY <1>3, <1>5, <1>6, <1>14, <1>18, <1>20, <1>25, <2>6 DEF EndsDiffer
    <3>3. y \in DOMAIN l.maps /\ l.maps[y] = r
      BY <1>22, <2>2, <3>1
    <3> QED
      BY <1>21, <2>3, <2>4, <3>2, <3>3
  <2> QED
    BY <2>5, <2>6
<1> QED
  BY <1>16, <1>23, <1>24, <1>25

\* The steps of the producer and the workers write nothing.
LEMMA SendMarks == ASSUME IInv, WellFormed, MarksSoFar, Send PROVE MarksSoFar'
<1>1. UNCHANGED <<game, current, working, receiving, layout>>
  BY DEF Send
<1>2. /\ sent \in Nat /\ channel \in Seq(AnyMessage) /\ Len(channel) \in Nat /\ Len(working) \in Nat
      /\ Len(current.messages) \in Nat
  BY PipelineTypes
<1>3. ASSUME receiving PROVE Done' = Done
  <2>1. PICK message : message = current.messages[sent + 1]
    OBVIOUS
  <2>2. channel' = Append(channel, message) /\ sent' = sent + 1
    BY <1>3, <2>1 DEF Send
  <2>3. Len(channel') = Len(channel) + 1
    BY <1>2, <2>2
  <2> QED
    BY <1>1, <1>2, <2>2, <2>3 DEF Done
<1> QED
  BY <1>1, <1>3, MarksUnchanged

\* Closing the channel writes nothing.
LEMMA CloseMarks == ASSUME MarksSoFar, CloseChannel PROVE MarksSoFar'
<1>1. UNCHANGED <<game, current, sent, channel, working, receiving, layout>>
  BY DEF CloseChannel
<1>2. Done' = Done
  BY <1>1 DEF Done
<1> QED
  BY <1>1, <1>2, MarksUnchanged

\* A message that a worker takes is not yet written.
LEMMA TakeMarks == ASSUME IInv, WellFormed, MarksSoFar, Take PROVE MarksSoFar'
<1>1. UNCHANGED <<game, current, sent, receiving, layout>> /\ channel # <<>> /\ channel' = Tail(channel)
  BY DEF Take, MayTake
<1>2. /\ sent \in Nat /\ channel \in Seq(AnyMessage) /\ Len(channel) \in Nat
      /\ working \in Seq(Taken) /\ Len(working) \in Nat
  BY PipelineTypes
<1>3. PICK taken : taken = [message |-> Head(channel), state |-> "running"]
  OBVIOUS
<1>4. working' = Append(working, taken)
  BY <1>3 DEF Take
<1>5. Len(channel) = Len(channel') + 1 /\ Len(channel') \in Nat /\ Len(working') = Len(working) + 1
  BY <1>1, <1>2, <1>4
<1>6. Done' = Done
  BY <1>1, <1>2, <1>5 DEF Done
<1> QED
  BY <1>1, <1>6, MarksUnchanged

\* A result is not written before its turn.
LEMMA WorkMarks ==
  ASSUME IInv, WellFormed, MarksSoFar, NEW i \in DOMAIN working, Work(i) PROVE MarksSoFar'
<1>1. UNCHANGED <<game, current, sent, channel, receiving, layout>>
  BY DEF Work
<1>2. PICK state \in {"done", "failed"} : working' = [working EXCEPT ![i].state = state]
  BY DEF Work
<1>3. PICK taken : taken = [working[i] EXCEPT !.state = state]
  OBVIOUS
<1>4. working' = [working EXCEPT ![i] = taken] /\ working \in Seq(Taken)
  BY <1>2, <1>3, PipelineTypes
<1>5. Len(working') = Len(working)
  BY <1>4
<1>6. Done' = Done
  BY <1>1, <1>5 DEF Done
<1> QED
  BY <1>1, <1>6, MarksUnchanged

\* The main thread writes a result, or drops all.
LEMMA ReceiveMarks ==
  ASSUME IInv, WellFormed, EndsDiffer, MarksSoFar, NEW i \in DOMAIN working, Receive(i)
  PROVE  MarksSoFar'
<1>1. /\ UNCHANGED <<game, toWrite, container, current, producer, sent>>
      /\ receiving /\ i = 1 /\ 1 \in DOMAIN working
  BY DEF Receive, MayReceive, InTurn
<1>2. CASE working[1].state = "failed"
  <2>1. ~receiving'
    BY <1>1, <1>2 DEF Receive
  <2> QED
    BY <2>1 DEF MarksSoFar
<1>3. CASE working[1].state # "failed"
  <2>1. /\ layout' = Written(working[1].message)
        /\ working' = SubSeq(working, 1, 1 - 1) \o SubSeq(working, 1 + 1, Len(working))
        /\ channel' = channel /\ receiving' = receiving
    BY <1>1, <1>3 DEF Receive, MayReceive
  <2> QED
    BY <1>1, <2>1, MarkOne
<1> QED
  BY <1>2, <1>3

\* A library starts with nothing written, and ends without a receiver.
LEMMA StartMarks ==
  ASSUME IInv, MarksSoFar, NEW name \in DOMAIN archives, StartLibrary(name) PROVE MarksSoFar'
<1>1. /\ current = NoArchive /\ ~receiving /\ channel = <<>> /\ working = <<>>
  BY Zenon DEF IInv, AtRest, StartLibrary
<1>2. PICK archive : archive = ReadArchive(archives[name], chunks)
  OBVIOUS
<1>3. CASE archive.result # "ok"
  <2>1. ~receiving'
    BY <1>1, <1>2, <1>3, Zenon DEF StartLibrary, pipeline
  <2> QED
    BY <2>1 DEF MarksSoFar
<1>4. CASE archive.result = "ok"
  <2>1. sent' = 0 /\ channel' = <<>> /\ working' = <<>>
    BY <1>1, <1>2, <1>4, Zenon DEF StartLibrary
  <2>2. Done' = 0
    <3>1. Len(channel') = 0 /\ Len(working') = 0 /\ sent' = 0
      BY <2>1
    <3> QED
      BY <3>1 DEF Done
  <2>3. \A j, k : Frames(j, k)' => ~ (j <= 0)
    BY DEF Frames
  <2> QED
    BY <2>2, <2>3 DEF MarksSoFar
<1> QED
  BY <1>3, <1>4

\* The end of a library needs no marks any more.
LEMMA EndMarks == ASSUME IInv, MarksSoFar, EndLibrary PROVE MarksSoFar'
<1>1. ~receiving' \/ UNCHANGED <<game, current, pipeline>>
  BY DEF EndLibrary
<1>2. CASE UNCHANGED <<game, current, pipeline>>
  <2>1. UNCHANGED <<sent, channel, working, receiving, layout, game, current>>
    BY <1>2 DEF pipeline
  <2>2. Done' = Done
    BY <2>1 DEF Done
  <2> QED
    BY <2>1, <2>2, MarksUnchanged
<1>3. CASE ~receiving'
  BY <1>3 DEF MarksSoFar
<1> QED
  BY <1>1, <1>2, <1>3

\* In an archive that fits, the marks are those of the maps.
MapsMarked ==
  \E n, M \in Nat : \E start, end :
    /\ DOMAIN current.header.shaders = 1..n /\ DOMAIN current.header.maps = 1..M
    /\ \A m \in 1..M : ShadersOf(current.header, m) \in Seq(1..n)
    /\ Marked(current.messages, ListsOf(current.header), M, OwnOf(current.header), start, end)

\* Tables that fit give the messages these marks, and different ones for each map.
LEMMA ReadableMarked ==
  ASSUME OfArchive, Readable, current # NoArchive
  PROVE  MapsMarked /\ EndsDiffer
<1>1. PICK header : header = current.header
  OBVIOUS
<1>2. /\ header.shaders \in Seq(Range(header.shaders))
      /\ header.maps \in Seq(Range(header.maps))
      /\ \A m \in DOMAIN header.maps : ShadersOf(header, m) \in Seq(DOMAIN header.shaders)
      /\ current.messages = Messages(current)
  BY <1>1 DEF Readable, OfArchive
<1>3. PICK n \in Nat : DOMAIN header.shaders = 1..n
  BY <1>2
<1>4. PICK M \in Nat : DOMAIN header.maps = 1..M
  BY <1>2
<1>5. \A m \in 1..M : ShadersOf(header, m) \in Seq(1..n)
  BY <1>2, <1>3, <1>4
<1>6. PICK start, end :
        Marked(Messages(current), ListsOf(header), M, OwnOf(header), start, end)
  BY <1>1, <1>3, <1>4, <1>5, MessagesMarked
<1>7. MapsMarked
  BY <1>1, <1>2, <1>3, <1>4, <1>5, <1>6 DEF MapsMarked
<1>8. PICK F : F = current.messages
  OBVIOUS
<1>9. /\ \A k \in 1..Len(F) : F[k].kind = "EndMap" => \E m \in 1..M : k = end[m]
      /\ \A m \in 1..M : F[end[m]].index = m
  BY <1>2, <1>6, <1>8 DEF Marked, Between
<1>10. \A k, l \in 1..Len(F) :
         F[k].kind = "EndMap" /\ F[l].kind = "EndMap" /\ F[k].index = F[l].index => k = l
  BY <1>9
<1> QED
  BY <1>7, <1>8, <1>10 DEF EndsDiffer

\* Every step keeps what the marks noted.
LEMMA StepMarks ==
  IInv /\ WellFormed /\ OfArchive /\ Readable /\ MarksSoFar /\ [Next]_vars => MarksSoFar'
<1> SUFFICES ASSUME IInv, WellFormed, OfArchive, Readable, MarksSoFar, [Next]_vars
             PROVE  MarksSoFar'
  OBVIOUS
<1>1. receiving => EndsDiffer
  BY ReadableMarked, ZenonT(60) DEF IInv, AtRest
<1>2. ASSUME UNCHANGED <<game, current, pipeline>> PROVE MarksSoFar'
  <2>1. UNCHANGED <<sent, channel, working, receiving, layout, game, current>>
    BY <1>2 DEF pipeline
  <2>2. Done' = Done
    BY <2>1 DEF Done
  <2> QED
    BY <2>1, <2>2, MarksUnchanged
<1>3. CASE ConvertLibrary
  BY <1>2, <1>3 DEF ConvertLibrary
<1>4. ASSUME NEW name \in DOMAIN archives, StartLibrary(name) PROVE MarksSoFar'
  BY <1>4, StartMarks
<1>5. CASE Send
  BY <1>5, SendMarks
<1>6. CASE CloseChannel
  BY <1>6, CloseMarks
<1>7. CASE Take
  BY <1>7, TakeMarks
<1>8. ASSUME NEW i \in DOMAIN working, Work(i) PROVE MarksSoFar'
  BY <1>8, WorkMarks
<1>9. ASSUME NEW i \in DOMAIN working, Receive(i) PROVE MarksSoFar'
  <2>1. receiving
    BY <1>9 DEF Receive, MayReceive
  <2> QED
    BY <1>1, <1>9, <2>1, ReceiveMarks
<1>10. CASE EndLibrary
  BY <1>10, EndMarks
<1>11. CASE AllRebuilt
  BY <1>2, <1>11 DEF AllRebuilt
<1>12. CASE Ended \/ UNCHANGED vars
  BY <1>2, <1>12 DEF Ended, vars
<1> QED
  BY <1>3, <1>4, <1>5, <1>6, <1>7, <1>8, <1>9, <1>10, <1>11, <1>12, Zenon DEF Next, Rebuild

-----------------------------------------------------------------------------
(* What a game preloads for a map.                                         *)

\* The part of a sequence of lists that is one of them.
LEMMA FlattenPart ==
  ASSUME NEW R, NEW seqs \in Seq(Seq(R)), NEW m \in 1..Len(seqs),
         NEW b, b = Len(FlattenSeq(SubSeq(seqs, 1, m - 1)))
  PROVE  /\ b \in Nat
         /\ SubSeq(FlattenSeq(seqs), b + 1, b + Len(seqs[m])) = seqs[m]
<1>1. PICK N \in Nat : N = Len(seqs)
  OBVIOUS
<1>2. PICK T : T = Seq(R)
  OBVIOUS
<1>3. PICK x : x = seqs[m]
  OBVIOUS
<1>4. PICK a : a = SubSeq(seqs, 1, m - 1)
  OBVIOUS
<1>5. PICK c : c = SubSeq(seqs, m + 1, N)
  OBVIOUS
<1>6. seqs \in Seq(T) /\ m \in 1..N /\ x \in T
  BY <1>1, <1>2, <1>3
<1>7. a \in Seq(T) /\ c \in Seq(T) /\ seqs = Append(a, x) \o c
  <2>1. PICK k \in 0..(N - 1) : k = m - 1
    BY <1>6
  <2>2. PICK h : h = SubSeq(seqs, 1, k + 1)
    OBVIOUS
  <2>3. h = Append(a, x) /\ a \in Seq(T) /\ h \in Seq(T) /\ Len(a) = k
    BY <1>1, <1>3, <1>4, <1>6, <2>1, <2>2, NextPart
  <2>4. /\ Len(h) = m /\ \A i \in 1..m : h[i] = seqs[i]
    <3>1. m \in 0..Len(seqs) /\ k + 1 = m
      BY <1>1, <1>6, <2>1
    <3> QED
      BY <1>6, <2>2, <3>1, FirstPart
  <2>5. c \in Seq(T)
    BY <1>1, <1>5, <1>6, PartTyped
  <2>6. Len(c) = N - m /\ \A i \in 1..(N - m) : c[i] = seqs[m + i]
    BY <1>1, <1>5, <1>6
  <2>7. PICK q : q = h \o c
    OBVIOUS
  <2>8. q \in Seq(T) /\ Len(q) = N
    BY <1>6, <2>3, <2>4, <2>5, <2>6, <2>7
  <2>9. \A i \in 1..m : q[i] = seqs[i]
    BY <1>6, <2>3, <2>4, <2>5, <2>7
  <2>10. \A i \in 1..(N - m) : q[m + i] = seqs[m + i]
    <3>1. \A i \in 1..Len(c) : q[Len(h) + i] = c[i]
      BY <2>3, <2>5, <2>7
    <3> QED
      BY <2>4, <2>6, <3>1
  <2>11. \A i \in 1..N : i \in 1..m \/ (i - m \in 1..(N - m) /\ i = m + (i - m))
    BY <1>6
  <2>12. \A i \in 1..N : q[i] = seqs[i]
    BY <2>9, <2>10, <2>11
  <2>13. q = seqs
    <3>1. q = [i \in 1..N |-> q[i]]
      BY <2>8
    <3>2. seqs = [i \in 1..N |-> seqs[i]]
      BY <1>1, <1>6
    <3> QED
      BY <2>12, <3>1, <3>2, Zenon
  <2> QED
    BY <2>3, <2>5, <2>7, <2>13
<1>8. PICK A, C : A = FlattenSeq(a) /\ C = FlattenSeq(c)
  OBVIOUS
<1>9. A \in Seq(R) /\ FlattenSeq(Append(a, x)) = A \o x
  BY <1>2, <1>6, <1>7, <1>8, FlattenAppend
<1>10. C \in Seq(R) /\ x \in Seq(R)
  BY <1>2, <1>6, <1>7, <1>8, FlattenAppend
<1>11. FlattenSeq(seqs) = (A \o x) \o C
  <2>1. PICK ax : ax = Append(a, x)
    OBVIOUS
  <2>2. ax \in Seq(Seq(R)) /\ c \in Seq(Seq(R)) /\ seqs = ax \o c
    BY <1>2, <1>6, <1>7, <2>1
  <2> QED
    BY <1>8, <1>9, <2>1, <2>2, FlattenJoin
<1>12. b = Len(A) /\ b \in Nat
  BY <1>4, <1>8, <1>9
<1>13. PICK Ax : Ax = A \o x
  OBVIOUS
<1>14. Ax \in Seq(R) /\ Len(Ax) = b + Len(x) /\ Len(x) \in Nat
  <2>1. Ax \in Seq(R) /\ Len(Ax) = Len(A) + Len(x) /\ Len(x) \in Nat
    BY <1>9, <1>10, <1>13
  <2> QED
    BY <1>12, <2>1
<1>15. SubSeq(Ax, b + 1, b + Len(x)) = x
  BY <1>9, <1>10, <1>12, <1>13, SecondPart
<1>16. b + 1 \in 1..(Len(Ax) + 1) /\ b + Len(x) \in ((b + 1) - 1)..Len(Ax)
  BY <1>12, <1>14
<1>17. SubSeq(Ax \o C, b + 1, b + Len(x)) = SubSeq(Ax, b + 1, b + Len(x))
  BY <1>10, <1>14, <1>16, PartOfFirst
<1> QED
  BY <1>3, <1>11, <1>12, <1>13, <1>15, <1>17

\* What PreloadsCover says of a map.
MapPreloaded(library, m) ==
  LET map == library.maps[m]
      preloads == SubSeq(library.preloads, map.firstPreload + 1, map.firstPreload + map.preloads)
      shaders == ShadersOf(library, m)
  IN  /\ BytesOf(preloads) = BytesOf([k \in DOMAIN shaders |-> library.shaders[shaders[k]]])
      /\ IsInjective(shaders) =>
           \A i, j \in DOMAIN preloads :
             i # j => BytesOf(<<preloads[i]>>) \cap BytesOf(<<preloads[j]>>) = {}

\* The bytes of regions are those of each of them.
LEMMA BytesOfList ==
  ASSUME NEW q
  PROVE  BytesOf(q) = UNION {Bytes(r) : r \in ToSet(q)}
  BY DEF BytesOf, Bytes

\* The bytes of one region.
LEMMA BytesOfOne ==
  ASSUME NEW r
  PROVE  BytesOf(<<r>>) = Bytes(r)
<1>1. ToSet(<<r>>) = {r}
  BY DEF ToSet
<1> QED
  BY <1>1, BytesOfList

\* Preloads that cover the layout cover the library that is rebuilt from it.
LEMMA MapRebuilt ==
  ASSUME NEW n \in Nat, NEW archive, NEW written, NEW m, DOMAIN written.shaders = 1..n,
         DOMAIN archive.header.shaders = 1..n,
         NEW list, list = ShadersOf(archive.header, m), list \in Seq(1..n),
         NEW P, PreloadsAre(P, written.shaders, list),
         NEW library, library.shaders = RebuiltShaders(archive.header, written, archive.code),
         ShadersOf(library, m) = list,
         SubSeq(library.preloads, library.maps[m].firstPreload + 1,
                library.maps[m].firstPreload + library.maps[m].preloads) = P
  PROVE  MapPreloaded(library, m)
<1>1. PICK shaders : shaders = library.shaders
  OBVIOUS
<1>2. \A s \in 1..n : /\ shaders[s].offset = written.shaders[s].offset
                      /\ shaders[s].size = written.shaders[s].size
  BY <1>1 DEF RebuiltShaders
<1>3. \A s \in 1..n : Bytes(shaders[s]) = Bytes(written.shaders[s])
  BY <1>2, Zenon DEF Bytes
<1>4. ToSet(list) \subseteq 1..n /\ ToSet(list) = {list[k] : k \in 1..Len(list)}
      /\ DOMAIN list = 1..Len(list)
  BY SeqTypes
<1>5. PICK q : q = [k \in DOMAIN list |-> shaders[list[k]]]
  OBVIOUS
<1>6. BytesOf(q) = UNION {Bytes(written.shaders[s]) : s \in ToSet(list)}
  <2>1. ToSet(q) = {shaders[s] : s \in ToSet(list)}
    BY <1>4, <1>5 DEF ToSet
  <2>2. BytesOf(q) = UNION {Bytes(r) : r \in ToSet(q)}
    BY BytesOfList
  <2>3. BytesOf(q) = UNION {Bytes(shaders[s]) : s \in ToSet(list)}
    BY <2>1, <2>2
  <2>4. \A s \in ToSet(list) : Bytes(shaders[s]) = Bytes(written.shaders[s])
    BY <1>3, <1>4
  <2> QED
    BY <2>3, <2>4
<1>7. /\ P \in Seq(AnyRegion)
      /\ UNION {Bytes(r) : r \in ToSet(P)} = UNION {Bytes(written.shaders[s]) : s \in ToSet(list)}
      /\ Distinct(list) => \A i, j \in 1..Len(P) : i # j => Bytes(P[i]) \cap Bytes(P[j]) = {}
  BY DEF PreloadsAre
<1>8. BytesOf(P) = BytesOf(q)
  BY <1>6, <1>7, BytesOfList
<1>9. ASSUME IsInjective(list), NEW i \in DOMAIN P, NEW j \in DOMAIN P, i # j
      PROVE  BytesOf(<<P[i]>>) \cap BytesOf(<<P[j]>>) = {}
  <2>1. Distinct(list)
    BY <1>4, <1>9 DEF IsInjective, Distinct
  <2>2. DOMAIN P = 1..Len(P)
    BY <1>7
  <2>3. Bytes(P[i]) \cap Bytes(P[j]) = {}
    BY <1>7, <1>9, <2>1, <2>2
  <2>4. BytesOf(<<P[i]>>) = Bytes(P[i]) /\ BytesOf(<<P[j]>>) = Bytes(P[j])
    BY BytesOfOne
  <2> QED
    BY <2>3, <2>4
<1>10. IsInjective(list) => \A i, j \in DOMAIN P : i # j => BytesOf(<<P[i]>>) \cap BytesOf(<<P[j]>>) = {}
  BY <1>9
<1> QED
  BY <1>1, <1>5, <1>8, <1>10, Zenon DEF MapPreloaded

\* When producer and receiver are through, all messages are written.
LEMMA LayoutComplete ==
  ASSUME IInv, WellFormed, OfArchive, Readable, MarksSoFar, current # NoArchive,
         receiving, MayEnd
  PROVE  \E n, M \in Nat : \E F, S, start, end :
           Complete(F, S, current.header, layout, n, M, start, end)
<1>1. MapsMarked
  BY ReadableMarked
<1>2. PICK header : header = current.header
  OBVIOUS
<1>3. PICK F : F = current.messages
  OBVIOUS
<1>4. PICK n, M \in Nat : \E start, end :
        /\ DOMAIN header.shaders = 1..n /\ DOMAIN header.maps = 1..M
        /\ \A m \in 1..M : ShadersOf(header, m) \in Seq(1..n)
        /\ Marked(F, ListsOf(header), M, OwnOf(header), start, end)
  BY <1>1, <1>2, <1>3 DEF MapsMarked
<1>5. PICK start, end :
        /\ DOMAIN header.shaders = 1..n /\ DOMAIN header.maps = 1..M
        /\ \A m \in 1..M : ShadersOf(header, m) \in Seq(1..n)
        /\ Marked(F, ListsOf(header), M, OwnOf(header), start, end)
  BY <1>4
<1>6. PICK N : N = Len(F)
  OBVIOUS
<1>7. /\ OnTheWay /\ WrittenSoFar /\ sent \in Nat /\ N \in Nat /\ F \in Seq(AnyMessage)
  BY <1>3, <1>6, PipelineTypes
<1>8. producer # "sending" /\ channel = <<>> /\ working = <<>>
  BY DEF MayEnd
<1>9. sent = N
  BY <1>3, <1>6, <1>7, <1>8 DEF OnTheWay
<1>10. Done = N
  <2>1. Len(channel) = 0 /\ Len(working) = 0
    BY <1>8
  <2> QED
    BY <1>7, <1>9, <2>1 DEF Done
<1>11. PICK S : S = [k \in 0..N |-> Len(CodeUpTo[k])]
  OBVIOUS
<1>12. PICK lengths : lengths = [k \in 1..N |-> Len(CodeOf(F[k]))]
  OBVIOUS
<1>13. \A k \in 1..N :
         /\ lengths[k] \in Nat
         /\ F[k].kind = "Compress" => F[k].index \in DOMAIN current.code /\ lengths[k] = Len(Result(F[k].index))
         /\ F[k].kind # "Compress" => lengths[k] = 0
         /\ CodeOf(F[k]) \in Seq(CodeBytes)
  <2>1. TAKE k \in 1..N
  <2>2. k \in DOMAIN F
    BY <1>6, <1>7
  <2>3. CASE F[k].kind = "Compress"
    <3>1. F[k].index \in DOMAIN current.code
      BY <1>3, <2>2, <2>3 DEF WellFormed
    <3>2. Result(F[k].index) \in Seq(CodeBytes)
      BY <3>1 DEF WellFormed
    <3>3. CodeOf(F[k]) = Result(F[k].index)
      BY <2>3 DEF CodeOf
    <3>4. PICK q : q = Result(F[k].index)
      OBVIOUS
    <3>5. q \in Seq(CodeBytes) /\ Len(q) \in Nat
      BY <3>2, <3>4
    <3> QED
      BY <1>12, <2>3, <3>1, <3>3, <3>4, <3>5
  <2>4. CASE F[k].kind # "Compress"
    <3>1. CodeOf(F[k]) = <<>>
      BY <2>4 DEF CodeOf
    <3>2. Len(<<>>) = 0 /\ <<>> \in Seq(CodeBytes)
      OBVIOUS
    <3> QED
      BY <1>12, <2>4, <3>1, <3>2
  <2> QED
    BY <2>3, <2>4
<1>14. \A k \in 0..N : CodeUpTo[k] \in Seq(CodeBytes) /\ S[k] = Len(CodeUpTo[k]) /\ S[k] \in Nat
  <2>1. TAKE k \in 0..N
  <2>2. PICK q : q = CodeUpTo[k]
    OBVIOUS
  <2>3. q \in Seq(CodeBytes)
    BY <1>3, <1>6, <2>2, CodeByMessage
  <2>4. Len(q) \in Nat
    BY <2>3
  <2> QED
    BY <1>11, <2>2, <2>3, <2>4
<1>15. \A k \in 1..N : k - 1 \in 0..N /\ k \in 0..N /\ S[k] = S[k - 1] + lengths[k]
  <2>1. TAKE k \in 1..N
  <2>2. k - 1 \in 0..N /\ k \in 0..N
    BY <1>7
  <2>3. CodeUpTo[k] = CodeUpTo[k - 1] \o CodeOf(F[k])
    BY <1>3, <1>6, CodeByMessage
  <2>4. PICK a, b : a = CodeUpTo[k - 1] /\ b = CodeOf(F[k])
    OBVIOUS
  <2>5. a \in Seq(CodeBytes) /\ b \in Seq(CodeBytes)
    BY <1>13, <1>14, <2>2, <2>4
  <2>6. Len(a \o b) = Len(a) + Len(b)
    BY <2>5
  <2> QED
    BY <1>12, <1>14, <2>2, <2>3, <2>4, <2>6
<1>16. Lengths(F, S)
  <2>1. S \in [0..Len(F) -> Nat]
    BY <1>6, <1>11, <1>14
  <2>2. \A k \in 1..N : S[k - 1] <= S[k] /\ (F[k].kind # "Compress" => S[k] = S[k - 1])
    BY <1>13, <1>14, <1>15
  <2> QED
    BY <1>6, <2>1, <2>2 DEF Lengths
<1>17. DOMAIN current.code = 1..n
  BY <1>2, <1>5 DEF WellFormed
<1>18. Laid(F, S, layout.shaders, n)
  <2>1. \A s \in 1..n : \E k \in 1..Len(F) : F[k].kind = "Compress" /\ F[k].index = s
    <3>1. DOMAIN F = 1..Len(F)
      BY <1>7
    <3> QED
      BY <1>3, <1>17, <3>1 DEF WellFormed
  <2>2. ASSUME NEW k \in 1..N, F[k].kind = "Compress"
        PROVE  /\ F[k].index \in 1..n
               /\ layout.shaders[F[k].index] =
                    [offset |-> S[k - 1], size |-> S[k] - S[k - 1], unique |-> F[k].unique]
    <3>1. F[k].index \in 1..n /\ lengths[k] = Len(Result(F[k].index)) /\ lengths[k] \in Nat
      BY <1>13, <1>17, <2>2
    <3>2. layout.shaders[F[k].index] =
            [offset |-> Len(CodeUpTo[k - 1]), size |-> Len(Result(F[k].index)), unique |-> F[k].unique]
      BY <1>3, <1>7, <1>10, <2>2 DEF WrittenSoFar
    <3>3. S[k - 1] = Len(CodeUpTo[k - 1]) /\ S[k] - S[k - 1] = lengths[k]
      BY <1>14, <1>15, <3>1
    <3> QED
      BY <3>1, <3>2, <3>3
  <2> QED
    BY <1>6, <2>1, <2>2 DEF Laid
<1>19. DOMAIN layout.shaders = 1..n
  BY <1>7, <1>17 DEF WrittenSoFar
<1>20. ASSUME NEW m \in 1..M
       PROVE  layout.maps[m] = [offset |-> S[start[m]], size |-> S[end[m]] - S[start[m]]]
  <2>1. PICK j, k : j = start[m] /\ k = end[m]
    OBVIOUS
  <2>2. Between(F, ToSet(ListsOf(header)[m]), m, j, k)
    BY <1>5, <2>1 DEF Marked
  <2>3. /\ j \in 1..N /\ k \in 1..N /\ j < k /\ F[j].kind = "StartMap" /\ F[k].kind = "EndMap"
        /\ F[k].index = m /\ \A i \in (j + 1)..(k - 1) : F[i].kind = "Compress"
    BY <1>6, <2>2 DEF Between, IsOwn
  <2>4. Frames(j, k)
    BY <1>3, <1>6, <2>3 DEF Frames
  <2>5. j <= Done /\ k <= Done
    BY <1>7, <1>10, <2>3
  <2>6. layout.maps[m] = RegionFrom(j, k)
    BY <1>3, <2>3, <2>4, <2>5 DEF MarksSoFar, Noted
  <2>7. S[j] = Len(CodeUpTo[j]) /\ S[k] = Len(CodeUpTo[k])
    BY <1>7, <1>14, <2>3
  <2> QED
    BY <2>1, <2>6, <2>7 DEF RegionFrom
<1>21. Complete(F, S, header, layout, n, M, start, end)
  BY <1>5, <1>7, <1>16, <1>18, <1>19, <1>20, Zenon DEF Complete
<1> QED
  BY <1>2, <1>21

\* So the preloads of every map of a library that is rebuilt cover it.
LEMMA LibraryPreloaded ==
  ASSUME IInv, WellFormed, OfArchive, Readable, MarksSoFar, current # NoArchive,
         receiving, MayEnd, NEW after, after = RebuiltLibrary(current, layout),
         NEW m \in DOMAIN after.maps
  PROVE  MapPreloaded(after, m)
<1>1. PICK header : header = current.header
  OBVIOUS
<1>2. PICK n, M \in Nat : \E F, S, start, end : Complete(F, S, header, layout, n, M, start, end)
  BY <1>1, LayoutComplete
<1>3. PICK F, S, start, end : Complete(F, S, header, layout, n, M, start, end)
  BY <1>2
<1>4. /\ DOMAIN header.shaders = 1..n /\ DOMAIN header.maps = 1..M /\ DOMAIN layout.shaders = 1..n
      /\ \A i \in 1..M : ShadersOf(header, i) \in Seq(1..n)
  BY <1>3 DEF Complete
<1>5. /\ after.shaders = RebuiltShaders(header, layout, current.code)
      /\ after.maps = RebuiltMaps(header, layout) /\ after.indices = header.indices
  BY <1>1, RebuiltIs
<1>6. PICK pre : pre = [i \in 1..M |-> PreloadsOf(header, layout, i)]
  OBVIOUS
<1>7. after.preloads = FlattenSeq(pre)
  <2>1. after.preloads = FlattenSeq([i \in DOMAIN header.maps |-> PreloadsOf(header, layout, i)])
    BY <1>1 DEF RebuiltLibrary
  <2> QED
    BY <1>4, <1>6, <2>1
<1>8. \A i \in 1..M : PreloadsAre(pre[i], layout.shaders, ShadersOf(header, i))
  <2>1. TAKE i \in 1..M
  <2>2. Covered(layout.shaders, layout.maps[i], ShadersOf(header, i))
    BY <1>3, CompleteCovers
  <2>3. pre[i] = PreloadsOf(header, layout, i)
    BY <1>6
  <2>4. ShadersOf(header, i) \in Seq(1..n)
    BY <1>4
  <2> QED
    BY <1>4, <2>2, <2>3, <2>4, PreloadsCovered
<1>9. pre \in Seq(Seq(AnyRegion)) /\ Len(pre) = M
  <2>1. PICK T : T = Seq(AnyRegion)
    OBVIOUS
  <2>2. \A i \in 1..M : pre[i] \in T
    BY <1>8, <2>1 DEF PreloadsAre
  <2>3. pre \in [1..M -> T]
    BY <1>6, <2>2
  <2> QED
    BY <2>1, <2>3
<1>10. PICK b : b = Len(FlattenSeq(SubSeq(pre, 1, m - 1)))
  OBVIOUS
<1>11. m \in 1..M /\ after.maps[m] = RebuiltMap(header, m, b, Len(pre[m]))
  BY <1>4, <1>5, <1>6, <1>10 DEF RebuiltMaps
<1>12. /\ after.maps[m].first = header.maps[m].first /\ after.maps[m].count = header.maps[m].count
       /\ after.maps[m].firstPreload = b /\ after.maps[m].preloads = Len(pre[m])
  BY <1>11 DEF RebuiltMap
<1>13. PICK list : list = ShadersOf(header, m)
  OBVIOUS
<1>14. ShadersOf(after, m) = list
  BY <1>5, <1>12, <1>13 DEF ShadersOf, RangeOf
<1>15. PICK P : P = pre[m]
  OBVIOUS
<1>16. SubSeq(FlattenSeq(pre), b + 1, b + Len(P)) = P
  BY <1>9, <1>10, <1>11, <1>15, FlattenPart
<1>17. SubSeq(after.preloads, after.maps[m].firstPreload + 1,
              after.maps[m].firstPreload + after.maps[m].preloads) = P
  BY <1>7, <1>12, <1>15, <1>16
<1>18. PreloadsAre(P, layout.shaders, list) /\ list \in Seq(1..n)
  BY <1>4, <1>8, <1>11, <1>13, <1>15
<1> QED
  BY <1>1, <1>4, <1>5, <1>13, <1>14, <1>17, <1>18, MapRebuilt

\* What has been rebuilt can be preloaded.
AllPreloaded ==
  \A name \in DOMAIN rebuilt :
    \A m \in DOMAIN rebuilt[name].library.maps : MapPreloaded(rebuilt[name].library, m)

\* A library that ends adds one that can be preloaded.
LEMMA EndPreloads ==
  ASSUME IInv, WellFormed, OfArchive, Readable, MarksSoFar, AllPreloaded, EndLibrary
  PROVE  AllPreloaded'
<1>1. current # NoArchive /\ MayEnd
  BY DEF EndLibrary
<1>2. PICK after : after = RebuiltLibrary(current, layout)
  OBVIOUS
<1>3. PICK info : info = AssetInfo(current.header)
  OBVIOUS
<1>4. \/ UNCHANGED rebuilt
      \/ receiving /\ rebuilt' = WithKey(rebuilt, current.name, [library |-> after, info |-> info])
  BY <1>2, <1>3 DEF EndLibrary
<1>5. CASE UNCHANGED rebuilt
  BY <1>5 DEF AllPreloaded
<1>6. CASE receiving /\ rebuilt' = WithKey(rebuilt, current.name, [library |-> after, info |-> info])
  <2>1. \A m \in DOMAIN after.maps : MapPreloaded(after, m)
    BY <1>1, <1>2, <1>6, LibraryPreloaded
  <2>2. PICK name : name = current.name
    OBVIOUS
  <2>3. PICK entry : entry = [library |-> after, info |-> info]
    OBVIOUS
  <2>4. entry.library = after
    BY <2>3
  <2>5. rebuilt' = [z \in DOMAIN rebuilt \cup {name} |-> IF z = name THEN entry ELSE rebuilt[z]]
    BY <1>6, <2>2, <2>3 DEF WithKey
  <2>6. ASSUME NEW z \in DOMAIN rebuilt'
        PROVE  \A m \in DOMAIN rebuilt'[z].library.maps : MapPreloaded(rebuilt'[z].library, m)
    <3>1. CASE z = name
      BY <2>1, <2>4, <2>5, <3>1
    <3>2. CASE z # name
      <4>1. z \in DOMAIN rebuilt /\ rebuilt'[z] = rebuilt[z]
        BY <2>5, <3>2
      <4> QED
        BY <4>1 DEF AllPreloaded
    <3> QED
      BY <3>1, <3>2
  <2> QED
    BY <2>6 DEF AllPreloaded
<1> QED
  BY <1>4, <1>5, <1>6

\* No other step rebuilds a library.
LEMMA StepPreloads ==
  IInv /\ WellFormed /\ OfArchive /\ Readable /\ MarksSoFar /\ AllPreloaded /\ [Next]_vars
    => AllPreloaded'
<1> SUFFICES ASSUME IInv, WellFormed, OfArchive, Readable, MarksSoFar, AllPreloaded, [Next]_vars
             PROVE  AllPreloaded'
  OBVIOUS
<1>1. CASE EndLibrary
  BY <1>1, EndPreloads
<1>2. CASE UNCHANGED rebuilt
  BY <1>2 DEF AllPreloaded
<1>3. EndLibrary \/ UNCHANGED rebuilt
  BY DEF Next, Rebuild, ConvertLibrary, StartLibrary, Send, CloseChannel, Take, Work, Receive,
         AllRebuilt, Ended, vars
<1> QED
  BY <1>1, <1>2, <1>3

\* What a game preloads for a map of a rebuilt library is exactly the code of the
\* shaders that the map lists, each byte once when it lists each of them once: the
\* region between the marks of the map, noted when its last shader is written, and
\* the regions of the shaders that it shares, for any libraries, order of the threads
\* and sizes that the compressions give (layout_write_shader_code, and the preload
\* entries it makes of the layout).
THEOREM PreloadsAlwaysCover == Spec => []PreloadsCover
<1>1. Init => MarksSoFar /\ AllPreloaded
  <2>1. DOMAIN NoMap = {}
    BY DEF NoMap
  <2>2. Init => MarksSoFar
    BY ZenonT(60) DEF Init, MarksSoFar
  <2>3. Init => AllPreloaded
    BY <2>1, SMTT(60) DEF Init, AllPreloaded
  <2> QED
    BY <2>2, <2>3
<1>2. AllPreloaded => PreloadsCover
  BY DEF AllPreloaded, MapPreloaded, PreloadsCover, BetweenLibraries
<1> QED
  BY <1>1, <1>2, PipelineSafety, EachSentOnce, AlwaysReadable, InitOfArchive, StepOfArchive,
     StepMarks, StepPreloads, PTL DEF Spec
=============================================================================
