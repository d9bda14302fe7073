--------------------------- MODULE ShaderLibrary ---------------------------
(***************************************************************************)
(* Shader libraries from a legacy game to a container (the first part of   *)
(* action_to_zen) and back (action_to_legacy_shaders, src/src/main.rs).    *)
(*                                                                         *)
(* layout_write_shader_code is a pipeline of threads: a producer puts the  *)
(* shaders and the marks of the maps into a bounded channel, workers       *)
(* compress, and the main thread writes.  The workers are parallel_map of  *)
(* the crate pariter: it takes some messages ahead, and gives the results  *)
(* in the order of the messages.                                           *)
(***************************************************************************)
EXTENDS ShaderArchive

CONSTANTS Games,        \* the legacy games and how they are converted
          ChannelSize,  \* of the sync_channel
          Ahead         \* the most messages that parallel_map has taken

\* An asset info lists hashes of maps with packages.
IsList(list) == list \in Seq(ToSet(list))
IsInfo(info) == IsList(info) /\ \A entry \in ToSet(info) : IsList(entry.packages)

\* The conversion takes the libraries by name, each with its info, an empty one if it
\* has no such file, and NoArchive has none.
ASSUME GamesAssumption ==
  \A g \in Games :
    /\ g.order \in Seq(DOMAIN g.libraries \ {""}) /\ ToSet(g.order) = DOMAIN g.infos
    /\ \A name \in DOMAIN g.libraries : IsLibrary(g.libraries[name])
    /\ \A name \in DOMAIN g.infos : IsInfo(g.infos[name])

\* Chunks, groups and shaders are named by hashes, so a hash has to name one code.
ASSUME CodeAssumption ==
  \A g \in Games : \A name \in DOMAIN g.libraries : NamesCode(g.libraries[name])

ASSUME PipelineAssumption == ChannelSize \in Nat \ {0} /\ Ahead \in Nat \ {0}

VARIABLES
  game,       \* one of Games
  toWrite,    \* the names of the libraries left to convert
  chunks,     \* the shader chunks of the container, by name
  archives,   \* its archive headers
  references, \* package_name_to_referenced_shader_maps
  current,    \* the archive that is being rebuilt, and its name
  producer,   \* "sending", "closed", "stopped" by a failed send, or "panicked"
  sent,       \* how many messages it has sent
  channel,    \* the messages in the channel
  working,    \* those the workers have or had: "running", "done", "failed"
  receiving,  \* the receiver has not been dropped
  layout,     \* what the main thread has written
  rebuilt,    \* the rebuilt libraries with their asset info
  result      \* of the commands: "running", "ok", "error", "panic"

container == <<chunks, archives, references>>
pipeline == <<producer, sent, channel, working, receiving, layout>>
vars == <<game, toWrite, container, current, pipeline, rebuilt, result>>

NoArchive ==
  [name |-> "", header |-> [shaders |-> <<>>], code |-> <<>>, method |-> NoMethod,
   messages |-> <<>>]
Nowhere == [offset |-> -1, size |-> 0, unique |-> FALSE]

\* A layout with nothing written.
Unwritten(archive) ==
  [code |-> <<>>, start |-> 0,
   shaders |-> [s \in DOMAIN archive.header.shaders |-> Nowhere],
   maps |-> NoMap]

Init ==
  /\ game \in Games
  /\ toWrite = game.order
  /\ chunks = NoMap /\ archives = NoMap /\ references = NoMap
  /\ current = NoArchive
  /\ producer = "closed" /\ sent = 0 /\ channel = <<>> /\ working = <<>> /\ receiving = FALSE
  /\ layout = Unwritten(NoArchive)
  /\ rebuilt = NoMap
  /\ result = "running"

-----------------------------------------------------------------------------
(* To the container.                                                       *)

\* read_shader_asset_info: an info lists maps with the packages that use them.
\* Variant: a package keeps only the last map.
Informed(refs, info, keep) ==
  LET Known(map, p) == IF keep /\ p \in DOMAIN map THEN map[p] ELSE <<>>
      Push(map, entry) ==
        Fold(LAMBDA m, p : WithKey(m, p, Append(Known(m, p), entry.hash)), map, entry.packages)
  IN  Fold(Push, refs, info)
WithLastInfo(refs, info) == Informed(refs, info, FALSE)
WithInfo(refs, info) == Informed(refs, info, TRUE)

WrittenLibrary(name) == WriteLibrary(game.libraries[name], game.format, game.checked)

ConvertLibrary ==
  /\ result = "running" /\ toWrite # <<>>
  /\ \E name \in {Head(toWrite)}, archive \in {WrittenLibrary(Head(toWrite))} :
         IF archive.result # "ok"
         THEN result' = archive.result /\ UNCHANGED <<toWrite, container>>
         ELSE /\ chunks' = WithChunks(chunks, archive)
              /\ archives' = WithKey(archives, name, archive.header)
              /\ references' = WithInfo(references, game.infos[name])
              /\ toWrite' = Tail(toWrite)
              /\ UNCHANGED result
  /\ UNCHANGED <<game, current, pipeline, rebuilt>>

-----------------------------------------------------------------------------
(* Back: one library after the other, in the order of their chunks.        *)

StartLibrary(name) ==
  /\ result = "running" /\ toWrite = <<>> /\ current = NoArchive
  /\ name \in DOMAIN archives \ DOMAIN rebuilt
  /\ \E archive \in {ReadArchive(archives[name], chunks)} :
         IF archive.result # "ok" THEN result' = archive.result /\ UNCHANGED <<current, pipeline>>
         ELSE /\ current' = [name |-> name, header |-> archive.header, code |-> archive.code,
                             method |-> archive.method, messages |-> Messages(archive)]
              /\ producer' = "sending" /\ sent' = 0 /\ receiving' = TRUE
              /\ layout' = Unwritten(archive)
              /\ UNCHANGED <<channel, working, result>>
  /\ UNCHANGED <<game, toWrite, container, rebuilt>>

\* The producer waits while the channel is full.
MaySend ==
  /\ producer = "sending" /\ sent < Len(current.messages)
  /\ receiving => Len(channel) < ChannelSize

\* A send without a receiver fails: the producer stops on a shader and panics on
\* a mark.
Send ==
  /\ MaySend
  /\ LET message == current.messages[sent + 1]
     IN  IF receiving
         THEN channel' = Append(channel, message) /\ sent' = sent + 1 /\ UNCHANGED producer
         ELSE /\ producer' = (IF message.kind = "Compress" THEN "stopped" ELSE "panicked")
              /\ UNCHANGED <<channel, sent>>
  /\ UNCHANGED <<game, toWrite, container, current, working, receiving, layout, rebuilt, result>>

AllSent == producer = "sending" /\ sent = Len(current.messages)

\* drop(tx).  Variant: it is forgotten.
NeverClosed == AllSent /\ UNCHANGED vars
CloseChannel ==
  /\ AllSent
  /\ producer' = "closed"
  /\ UNCHANGED <<game, toWrite, container, current, sent, channel, working, receiving, layout,
                 rebuilt, result>>

MayTake == receiving /\ channel # <<>> /\ Len(working) < Ahead

Take ==
  /\ MayTake
  /\ channel' = Tail(channel)
  /\ working' = Append(working, [message |-> Head(channel), state |-> "running"])
  /\ UNCHANGED <<game, toWrite, container, current, producer, sent, receiving, layout, rebuilt,
                 result>>

Compressing == game.compress /\ current.method # NoMethod

Running == {i \in DOMAIN working : working[i].state = "running"}

\* A worker ends with the i-th message taken; only compression can fail.
Work(i) ==
  /\ i \in Running
  /\ \E state \in {"done", "failed"} :
       /\ state = "failed" => Compressing /\ working[i].message.kind = "Compress"
       /\ working' = [working EXCEPT ![i].state = state]
  /\ UNCHANGED <<game, toWrite, container, current, producer, sent, channel, receiving, layout,
                 rebuilt, result>>

\* The i-th message taken is the next whose result is given.  Variant: results
\* are given as they come.
AnyTurn(i) == TRUE
InTurn(i) == i = 1

\* What the workers make of the code of shader s.
Result(s) == IF Compressing THEN Smallest(current.code[s], current.method) ELSE current.code[s]

\* try_for_each: the marks note where the shaders of a map start and end.
Written(message) ==
  LET at == Len(layout.code)
      bytes == Result(message.index)
  IN  CASE message.kind = "StartMap" -> [layout EXCEPT !.start = at]
        [] message.kind = "EndMap" ->
             [layout EXCEPT !.maps = WithKey(@, message.index,
                                       [offset |-> layout.start, size |-> at - layout.start])]
        [] OTHER ->
             [layout EXCEPT !.code = @ \o bytes,
                            !.shaders[message.index] =
                              [offset |-> at, size |-> Len(bytes), unique |-> message.unique]]

MayReceive(i) == receiving /\ i \in DOMAIN working \ Running /\ InTurn(i)

\* The main thread takes a result.  On an error it drops the receiver, with all
\* that waits in the channel.
Receive(i) ==
  /\ MayReceive(i)
  /\ IF working[i].state = "failed"
     THEN receiving' = FALSE /\ channel' = <<>> /\ working' = <<>> /\ UNCHANGED layout
     ELSE /\ layout' = Written(working[i].message)
          /\ working' = SubSeq(working, 1, i - 1) \o SubSeq(working, i + 1, Len(working))
          /\ UNCHANGED <<channel, receiving>>
  /\ UNCHANGED <<game, toWrite, container, current, producer, sent, rebuilt, result>>

\* build_shader_asset_metadata_from_io_store_packages: the packages that refer to
\* each map of the library.  Store entries have hashes after the first version of
\* the header only; a package that cannot be read is passed over.
AssetInfo(header) ==
  LET packages == IF game.keepsHashes
                  THEN (DOMAIN references \cap game.converted) \ game.unreadable ELSE {}
      Users(hash) == {p \in packages : hash \in ToSet(references[p])}
      hashes == {header.maps[m].hash : m \in DOMAIN header.maps}
  IN  [h \in {h \in hashes : Users(h) # {}} |-> Users(h)]

\* The producer and the receiver are through.
MayEnd == producer # "sending" /\ (receiving => channel = <<>> /\ working = <<>>)

\* The scope joins the producer: its panic is that of the command, an error of
\* the main thread is reported after it, and every shader must be written.
EndLibrary ==
  /\ current # NoArchive /\ result = "running"
  /\ MayEnd
  /\ IF producer = "panicked" \/ ~receiving
          \/ \E s \in DOMAIN layout.shaders : layout.shaders[s].offset < 0
     THEN /\ result' = (IF producer = "panicked" THEN "panic" ELSE "error")
          /\ UNCHANGED <<rebuilt, current, pipeline>>
     ELSE /\ rebuilt' = WithKey(rebuilt, current.name,
                                [library |-> RebuiltLibrary(current, layout),
                                 info |-> AssetInfo(current.header)])
          /\ current' = NoArchive /\ sent' = 0 /\ receiving' = FALSE
          /\ layout' = Unwritten(NoArchive)
          /\ UNCHANGED <<producer, channel, working, result>>
  /\ UNCHANGED <<game, toWrite, container>>

AllRebuilt ==
  /\ result = "running" /\ toWrite = <<>> /\ current = NoArchive
  /\ DOMAIN rebuilt = DOMAIN archives
  /\ result' = "ok"
  /\ UNCHANGED <<game, toWrite, container, current, pipeline, rebuilt>>

Ended == result # "running" /\ UNCHANGED vars

\* A step of the threads that rebuild a library.
Rebuild ==
  \/ Send \/ CloseChannel \/ Take
  \/ \E i \in DOMAIN working : Work(i) \/ Receive(i)
  \/ EndLibrary

Next ==
  \/ ConvertLibrary
  \/ \E name \in DOMAIN archives : StartLibrary(name)
  \/ Rebuild \/ AllRebuilt \/ Ended

Spec == Init /\ [][Next]_vars

\* The threads go on while one of them can.  None of their steps is ever undone,
\* so the scheduler need not be fair to each of them.
FairSpec == Spec /\ WF_vars(Rebuild)

-----------------------------------------------------------------------------
TypeOK ==
  /\ game \in Games
  /\ DOMAIN rebuilt \subseteq DOMAIN archives /\ DOMAIN archives \subseteq DOMAIN game.libraries
  /\ producer \in {"sending", "closed", "stopped", "panicked"}
  /\ sent \in Nat /\ Len(channel) <= ChannelSize /\ Len(working) <= Ahead
  /\ receiving \in BOOLEAN
  /\ \A i \in DOMAIN working : working[i].state \in {"running", "done", "failed"}
  /\ result \in {"running", "ok", "error", "panic"}

\* The libraries and archives are looked at while none is rebuilt.
BetweenLibraries(map) == IF current = NoArchive THEN DOMAIN map ELSE {}

\* A library that comes back has every shader with its code and every map with
\* its shaders, however grouping, compression and another library that shares
\* groups have changed the chunks on the way.
CodeSurvives ==
  \A name \in BetweenLibraries(rebuilt) :
    LET before == game.libraries[name]
        after == rebuilt[name].library
    IN  /\ Len(after.shaders) = Len(before.shaders)
        /\ \A s \in DOMAIN before.shaders :
             /\ after.shaders[s].hash = before.shaders[s].hash
             /\ after.shaders[s].frequency = before.shaders[s].frequency
             /\ CodeIn(after, s).result = "ok"
             /\ CodeIn(after, s).data = Code(before.shaders[s].hash)
        /\ Len(after.maps) = Len(before.maps)
        /\ \A m \in DOMAIN before.maps :
             /\ after.maps[m].hash = before.maps[m].hash
             /\ ShadersOf(after, m) = ShadersOf(before, m)

\* The bytes of a list of regions.
BytesOf(regions) == UNION {r.offset + 1 .. r.offset + r.size : r \in ToSet(regions)}

\* What a game preloads for a map is the code of its shaders, all of it, no byte
\* of another shader and no byte twice, unless the map lists a shader twice.
PreloadsCover ==
  \A name \in BetweenLibraries(rebuilt) :
    LET library == rebuilt[name].library IN
    \A m \in DOMAIN library.maps :
      LET map == library.maps[m]
          preloads == SubSeq(library.preloads, map.firstPreload + 1, map.firstPreload + map.preloads)
          shaders == ShadersOf(library, m)
      IN  /\ BytesOf(preloads) = BytesOf([k \in DOMAIN shaders |-> library.shaders[shaders[k]]])
          /\ IsInjective(shaders) =>
               \A i, j \in DOMAIN preloads :
                 i # j => BytesOf(<<preloads[i]>>) \cap BytesOf(<<preloads[j]>>) = {}

\* The tables of the archive that is rebuilt fit each other: every map lists
\* shaders of the library, and every shader has code.
CodeBytes == UNION {ToSet(Result(s)) : s \in DOMAIN current.code}
Readable ==
  current # NoArchive =>
    /\ current.header.shaders \in Seq(Range(current.header.shaders))
    /\ current.header.maps \in Seq(Range(current.header.maps))
    /\ \A m \in DOMAIN current.header.maps :
         ShadersOf(current.header, m) \in Seq(DOMAIN current.header.shaders)
    /\ DOMAIN current.code = DOMAIN current.header.shaders
    /\ \A s \in DOMAIN current.code : Result(s) \in Seq(CodeBytes)

\* The messages are about the shaders of the library, each of which is sent once.
WellFormed ==
  /\ current.messages \in Seq([kind : {"Compress", "StartMap", "EndMap"}, index : Nat, unique : BOOLEAN])
  /\ DOMAIN current.header.shaders = DOMAIN current.code
  /\ \A i \in DOMAIN current.messages : current.messages[i].kind = "Compress" =>
       /\ current.messages[i].index \in DOMAIN current.code
       /\ \A j \in DOMAIN current.messages :
            current.messages[j].kind = "Compress" /\ current.messages[j].index = current.messages[i].index
              => i = j
  /\ \A s \in DOMAIN current.code :
       /\ Result(s) \in Seq(CodeBytes)
       /\ \E i \in DOMAIN current.messages :
            current.messages[i].kind = "Compress" /\ current.messages[i].index = s

\* The code that comes of a message, and of the first n messages.
CodeOf(message) == IF message.kind = "Compress" THEN Result(message.index) ELSE <<>>
CodeUpTo[n \in 0..Len(current.messages)] ==
  IF n = 0 THEN <<>> ELSE CodeUpTo[n - 1] \o CodeOf(current.messages[n])

\* Whatever order the workers end in, the code is laid out in the order of the
\* messages, each shader where the layout says: what is written, in work and in
\* the channel is what was sent, which is everything once the channel is closed.
LaidOutInOrder ==
  receiving =>
    LET waiting == [i \in DOMAIN working |-> working[i].message] \o channel
        written == sent - Len(waiting)
    IN  /\ Readable /\ WellFormed
        /\ \A i \in DOMAIN waiting : waiting[i] = current.messages[written + i]
        /\ layout.code = CodeUpTo[written]
        /\ \A k \in 1..written : current.messages[k].kind = "Compress" =>
             LET s == current.messages[k].index
             IN  layout.shaders[s] = [offset |-> Len(CodeUpTo[k - 1]), size |-> Len(Result(s)),
                                      unique |-> current.messages[k].unique]
        /\ producer = "sending" \/ sent = Len(current.messages)

\* Two libraries have a group of the same shaders of which they made different
\* chunks, as only one of them knew how to compress when it came to it.
Clash ==
  \E a, b \in DOMAIN archives :
    \E g \in DOMAIN archives[a].groups, h \in DOMAIN archives[b].groups :
      /\ archives[a].groups[g].id = archives[b].groups[h].id
      /\ archives[a].groups[g].packed # archives[b].groups[h].packed

\* A group, which is of shaders of no map, is longer than the indices.
Overlong(library) ==
  LET groups == GroupsOf(library, game.format)
  IN  \E g \in DOMAIN groups : Len(groups[g]) > Len(library.indices)

\* The code of two shaders of some libraries is compressed by different methods.
Mixed(libraries) ==
  \E l, k \in libraries : \E s \in DOMAIN l.shaders, t \in DOMAIN k.shaders :
    LET a == CodeIn(l, s).method
        b == CodeIn(k, t).method
    IN  a # NoMethod /\ b # NoMethod /\ a # b

\* A library whose rebuild has started is lost to a failed compression only, which
\* dropped the receiver.
RebuildFailsJustly ==
  result \in {"error", "panic"} /\ toWrite = <<>> /\ current # NoArchive =>
    ~receiving /\ Compressing

\* A conversion fails only for shaders of no map (an arithmetic underflow) or a
\* library of two compression methods, when two libraries overwrite a chunk of
\* each other or have different methods, or when a compression fails, and then it
\* does not report success.
FailsJustly ==
  /\ RebuildFailsJustly
  /\ result \in {"error", "panic"} =>
       IF toWrite # <<>>
       THEN LET library == game.libraries[Head(toWrite)] IN Overlong(library) \/ Mixed({library})
       ELSE current = NoArchive => Clash \/ Mixed(Range(game.libraries))

\* Every element of a set is at one place of the groups, and nothing else is.
Once(groups, set) ==
  /\ \A g \in DOMAIN groups : ToSet(groups[g]) \subseteq set
  /\ \A s \in set :
       \E g \in DOMAIN groups : \E k \in DOMAIN groups[g] :
         /\ groups[g][k] = s
         /\ \A h \in DOMAIN groups : \A l \in DOMAIN groups[h] :
              groups[h][l] = s => h = g /\ l = k

WellGrouped(library, header) ==
  LET groups == [g \in DOMAIN header.groups |-> RangeOf(header.indices, header.groups[g])]
  IN  /\ Once(groups, DOMAIN library.shaders)
      /\ \A g \in DOMAIN groups :
           /\ \A s, t \in ToSet(groups[g]) : MapsOf(library, s) = MapsOf(library, t)
           /\ header.groups[g].full <
                MaxGroupSize + Max({library.shaders[s].full : s \in ToSet(groups[g])})

\* Every group has shaders of one set of maps, the groups have every shader once,
\* and a group is larger than the maximum by less than its largest shader.
GroupsBounded ==
  \A name \in BetweenLibraries(archives) : WellGrouped(game.libraries[name], archives[name])

\* The asset info of a rebuilt library has every package that the infos of the
\* game list for a map of it, those of another library with the map included,
\* and nothing else; only packages that are not converted or cannot be read, and
\* all in the first version of the header, are lost.
AssetsSurvive ==
  \A name \in BetweenLibraries(rebuilt) :
    LET info == rebuilt[name].info
        library == game.libraries[name]
        packages == IF game.keepsHashes THEN game.converted \ game.unreadable ELSE {}
        entries == UNION {ToSet(game.infos[n]) : n \in DOMAIN game.infos}
        hashes == {library.maps[m].hash : m \in DOMAIN library.maps}
    IN  UNION {{<<h, p>> : p \in info[h]} : h \in DOMAIN info} =
          {x \in hashes \X packages : \E e \in entries : e.hash = x[1] /\ x[2] \in ToSet(e.packages)}

\* A rebuild that starts ends, whether or not a compression fails: the producer,
\* the workers and the main thread never wait for each other for ever.
RebuildEnds == current # NoArchive ~> current = NoArchive \/ result # "running"

\* No group is larger than the maximum, as a comment says (shader_library.rs:943).
GroupsWithinMaximum ==
  \A name \in DOMAIN archives :
    \A g \in DOMAIN archives[name].groups :
      archives[name].groups[g].count > 1 => archives[name].groups[g].full <= MaxGroupSize
=============================================================================
