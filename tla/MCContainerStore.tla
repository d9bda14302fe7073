-------------------------- MODULE MCContainerStore --------------------------
EXTENDS ContainerStore

MCNames == {[base |-> 0, patch |-> -2], [base |-> 1, patch |-> -2], [base |-> 1, patch |-> -1]}

\* Bulk data of no bytes at the path of a package.
MCChunkInputs == {[id |-> <<"BulkData", 7>>, path |-> <<"d", "f">>, length |-> 0]}

\* A redirect, a localized package that needs two blocks, and a plain one.
MCRedirect == [package |-> 7, path |-> <<"d", "f">>, length |-> 1, imports |-> 1, shaders |-> 1,
               source |-> 5, culture |-> ""]
MCLocalized == [package |-> 8, path |-> <<"d", "e", "f">>, length |-> 3, imports |-> 2,
                shaders |-> 1, source |-> 5, culture |-> "fr"]
MCPlain == [package |-> 9, path |-> <<"g">>, length |-> 2, imports |-> 0, shaders |-> 2,
            source |-> 0, culture |-> ""]
MCPackageInputs == {MCRedirect, MCLocalized, MCPlain}

MCScriptObjects == [id |-> <<"ScriptObjects", 0>>, length |-> 1]

\* A container and its patch, of UE4.27 or UE5.0; the writes may be repacked and
\* a byte be lost.
MCPatched ==
  [given |-> FALSE, version |-> 0, names |-> MCNames, versions |-> {<<1, 0>>, <<2, 1>>},
   chunks |-> MCChunkInputs, packages |-> {MCRedirect, MCLocalized},
   writes |-> 2, repacks |-> 1, lost |-> 1]

\* One container beside the game's, with headers of all versions.
MCVersions == {<<1, 0>>, <<2, 1>>} \cup {<<2, v>> : v \in HeaderVersions}
MCHeaded(given, v) ==
  [given |-> given, version |-> v, names |-> {[base |-> 1, patch |-> -2]},
   versions |-> {<<2, w>> : w \in HeaderVersions}, chunks |-> {}, packages |-> MCPackageInputs,
   writes |-> 3, repacks |-> 0, lost |-> 0]

MCUsages ==
  {MCPatched, MCHeaded(FALSE, 0)} \cup {MCHeaded(TRUE, v) : v \in HeaderVersions}
=============================================================================
