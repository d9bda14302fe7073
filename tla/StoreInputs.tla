----------------------------- MODULE StoreInputs -----------------------------
(***************************************************************************)
(* What is written to containers: the chunks, with paths and lengths, and  *)
(* the packages, with their store entries.  Each write has a number, and   *)
(* its bytes and every field of its store entry tell it, so that a reader  *)
(* who gets a byte or a field of another write is seen.                    *)
(***************************************************************************)
EXTENDS Integers, Sequences, Maps

CONSTANTS
  Names,          \* of containers: [base |-> number, patch |-> number]
  Versions,       \* pairs of a table of contents version and a header version
  ChunkInputs,    \* [id, path, length]
  PackageInputs,  \* [package, path, length, imports, shaders, source, culture]
  NoSource,       \* of a package that is neither a redirect nor localized
  ScriptObjects,  \* the chunk of the game's global container
  GlobalVersion   \* and the version of its table of contents

\* FIoChunkId::from_package_id(_, 0, ExportBundleData), and the chunk of the
\* header of a container, whose container id is the hash of its name.
PackageChunk(p) == <<"ExportBundleData", p>>
HeaderChunk(n) == <<"ContainerHeader", n>>
IsHeaderChunk(id) == id[1] = "ContainerHeader"

DataOf(w, in) == [i \in 1..in.length |-> <<"data", w, i>>]

EntryOf(w, in) ==
  [bundlesSize |-> w, loadOrder |-> 10 + w, exportCount |-> 20 + w, bundleCount |-> 30 + w,
   imported |-> [i \in 1..in.imports |-> 100 * w + i],
   shaders |-> [i \in 1..in.shaders |-> 1000 * w + i]]

IsRedirect(in) == in.source # NoSource /\ in.culture = ""
IsLocalized(in) == in.source # NoSource /\ in.culture # ""

\* The name of a container: [base, patch].  Base 0 is "global"; patch -2 stands
\* for no suffix, -1 for "_P" and k for "_k_P".
Global == 0
NoPatch == -2
IsGlobal(n) == n.base = Global /\ n.patch = NoPatch

-----------------------------------------------------------------------------
(* The content of a container and the answers of an open store.            *)

\* The header version of a container without a header.
NoHeader == -2

Blank(status, version, header) ==
  [status |-> status, version |-> version, header |-> header, data |-> NoMap,
   files |-> NoMap, names |-> NoMap, entries |-> NoMap, redirects |-> NoMap,
   localized |-> {}]
Absent == Blank("absent", 0, NoHeader)
Broken == Blank("broken", 0, NoHeader)

GlobalContent ==
  [Blank("complete", GlobalVersion, NoHeader) EXCEPT
     !.data = WithKey(NoMap, ScriptObjects.id,
                      [result |-> "ok", data |-> DataOf(0, ScriptObjects)])]

\* The fields of a store entry that a version of the header has.
Kept(e, v) == [e EXCEPT !.bundlesSize = IF v = 0 THEN @ ELSE 0,
                        !.loadOrder = IF v = 0 THEN @ ELSE 0,
                        !.exportCount = IF v < 3 THEN @ ELSE 0,
                        !.bundleCount = IF v < 3 THEN @ ELSE 0,
                        !.shaders = IF v > 0 THEN @ ELSE <<>>]
=============================================================================
