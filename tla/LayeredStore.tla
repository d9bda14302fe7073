---------------------------- MODULE LayeredStore ----------------------------
(***************************************************************************)
(* What containers promise.  A container is a few maps: chunk ids, and     *)
(* paths, to data, chunk ids to paths, packages to store entries, source   *)
(* packages to the packages they redirect to.  An open store answers with  *)
(* the maps of its containers laid over each other by priority.            *)
(*                                                                         *)
(* The exceptions of the code are part of the promise: chunks of no bytes  *)
(* before the first byte of a container cannot be read, and an error in    *)
(* the last flush, of which nobody is told, loses data; a reader gets an   *)
(* error then, and never other data.                                       *)
(***************************************************************************)
EXTENDS StoreInputs

VARIABLES
  writes,     \* number of writes
  reading,    \* the containers of the open store
  drafting,   \* the container that is being written, in a set
  draft,      \* its content
  published,  \* the content of each container
  view        \* what the open store answers

vars == <<writes, reading, drafting, draft, published, view>>

Read(data) == [result |-> "ok", data |-> data]
Error == [result |-> "error", data |-> <<>>]
Panic == [result |-> "panic", data |-> <<>>]

-----------------------------------------------------------------------------
\* A chunk replaces one with its id, and its path is the path of no other.
\* Chunks of no bytes cannot be read as long as there is no other.
ReadBack(content, data) ==
  IF data = <<>> /\ \A i \in DOMAIN content.data : content.data[i] = Panic THEN Panic ELSE Read(data)
Renamed(content, path) == {i \in DOMAIN content.names : content.names[i] = path}

Put(content, id, path, data) ==
  {[content EXCEPT
      !.data = WithKey(@, id, read),
      !.files = IF path = <<>> THEN @ ELSE WithKey(@, path, read),
      !.names = IF path = <<>> THEN Without(@, {id}) ELSE WithKey(Without(@, former), id, path)] :
   read \in Only(ReadBack(content, data)), former \in Only(Renamed(content, path))}

\* Priority: global, then the later patch, then the greater name.
Beats(m, n) ==
  \/ IsGlobal(m) /\ ~IsGlobal(n)
  \/ /\ IsGlobal(m) <=> IsGlobal(n)
     /\ m.patch > n.patch \/ (m.patch = n.patch /\ m.base > n.base)

\* The container that answers for x, and the maps of some containers laid over
\* each other.
Top(contents, S, map, x) ==
  CHOOSE n \in S : /\ x \in DOMAIN contents[n][map]
                   /\ \A m \in S : Beats(m, n) => x \notin DOMAIN contents[m][map]

Overlay(contents, S, map) ==
  [x \in UNION {DOMAIN contents[n][map] : n \in S} |-> contents[Top(contents, S, map, x)][map][x]]

Answers(contents, S) ==
  [map \in {"data", "names", "entries", "redirects"} |-> Overlay(contents, S, map)]

-----------------------------------------------------------------------------
Init ==
  /\ writes = 0
  /\ reading = {}
  /\ drafting = {}
  /\ draft = Absent
  /\ published = [n \in Names |-> IF IsGlobal(n) THEN GlobalContent ELSE Absent]
  /\ view = Answers(published, {})

\* From here on the former content of the container is lost.
Begin(n) ==
  /\ drafting = {} /\ reading = {}
  /\ drafting' = {n}
  /\ \E v \in Versions : draft' = Blank("draft", v[1], v[2])
  /\ published' = [published EXCEPT ![n] = Broken]
  /\ UNCHANGED <<writes, reading, view>>

PutChunk(in) ==
  /\ drafting # {}
  /\ writes' = writes + 1
  /\ \E content \in Only(draft) : draft' \in Put(content, in.id, in.path, DataOf(writes', in))
  /\ UNCHANGED <<reading, drafting, published, view>>

PutPackage(in) ==
  /\ drafting # {}
  /\ writes' = writes + 1
  /\ \E content \in Only(draft) :
     \E put \in Put(content, PackageChunk(in.package), in.path, DataOf(writes', in)) :
       draft' = [put EXCEPT
         !.entries = WithKey(@, in.package, Kept(EntryOf(writes', in), content.header)),
         !.redirects = IF IsRedirect(in) THEN WithKey(@, in.source, in.package) ELSE @,
         !.localized = IF IsLocalized(in) THEN @ \cup {in.source} ELSE @]
  /\ UNCHANGED <<reading, drafting, published, view>>

Abandon ==
  /\ drafting # {}
  /\ drafting' = {} /\ draft' = Absent
  /\ UNCHANGED <<writes, reading, published, view>>

\* The container is complete, or damaged so that it is refused.
Publish ==
  /\ drafting # {}
  /\ drafting' = {} /\ draft' = Absent
  /\ \E n \in drafting, contents \in Only(published), content \in Only(draft) :
       published' \in {[contents EXCEPT ![n] = [content EXCEPT !.status = "complete"]],
                       [contents EXCEPT ![n] = Broken]}
  /\ UNCHANGED <<writes, reading, view>>

\* One container or all of them: each must be usable, and of one version.
Present(contents) == {n \in Names : contents[n].status # "absent"}
Compatible(c, d) == /\ c.version = d.version
                    /\ NoHeader \in {c.header, d.header} \/ c.header = d.header

Open ==
  /\ drafting = {} /\ reading = {}
  /\ \E contents \in Only(published) :
     \E S \in {{n} : n \in Names} \cup {Present(contents)} :
       /\ reading' = S
       /\ S # {}
       /\ \A n \in S : contents[n].status = "complete"
       /\ \A m, n \in S : Compatible(contents[m], contents[n])
       /\ view' = Answers(contents, S)
  /\ UNCHANGED <<writes, drafting, draft, published>>

Close == /\ reading # {}
         /\ reading' = {} /\ view' = Answers(published, {})
         /\ UNCHANGED <<writes, drafting, draft, published>>

\* The chunks of an open store, written to another container in any order: of
\* those with one path, one keeps it, and one header, if there is any, is the
\* header.  A chunk that can be read is not replaced by another.
IsRepacked(content, contents, v) ==
  LET OwnNames(id) == {contents[n].names[id] :
                         n \in {m \in {Top(contents, reading, "data", id)} : id \in DOMAIN contents[m].names}}
  IN  /\ content.status = "complete"
      /\ \A n \in reading : content.version = contents[n].version
      /\ DOMAIN content.data = DOMAIN v.data
      /\ \A id \in DOMAIN v.data :
           \/ content.data[id] \in {v.data[id], Error}
           \/ content.data[id] = Panic /\ v.data[id] = Read(<<>>)
      /\ DOMAIN content.files = UNION {OwnNames(id) : id \in DOMAIN v.data}
      /\ {content.names[id] : id \in DOMAIN content.names} = DOMAIN content.files
      /\ \A id \in DOMAIN content.names :
           /\ content.names[id] \in OwnNames(id)
           /\ content.files[content.names[id]] = content.data[id]
      /\ \E n \in reading :
           /\ contents[n].header = NoHeader => \A m \in reading : contents[m].header = NoHeader
           /\ \A field \in {"header", "entries", "redirects", "localized"} :
                content[field] = contents[n][field]

Repack(n) ==
  /\ reading # {} /\ reading' = reading
  /\ \E contents \in Only(published), new \in Only(published'), v \in Only(view) :
       /\ n \notin reading
       /\ \A id \in DOMAIN v.data : v.data[id].result = "ok"
       /\ new[n] = Broken \/ IsRepacked(new[n], contents, v)
       /\ \A m \in Names \ {n} : new[m] = contents[m]
  /\ UNCHANGED <<writes, drafting, draft, view>>

Next ==
  \/ \E n \in Names : Begin(n) \/ Repack(n)
  \/ \E in \in ChunkInputs : PutChunk(in)
  \/ \E in \in PackageInputs : PutPackage(in)
  \/ Abandon \/ Publish \/ Open \/ Close

Spec == Init /\ [][Next]_vars
=============================================================================
