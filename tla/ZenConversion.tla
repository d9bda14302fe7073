--------------------------- MODULE ZenConversion ---------------------------
(***************************************************************************)
(* The to-zen command (src/src/main.rs, action_to_zen): rayon workers read *)
(* and convert legacy assets and send each converted bundle over a         *)
(* rendezvous channel to the main thread, the only one that writes the     *)
(* container.  For container headers up to version Initial (UE4) the       *)
(* bundles are kept until all have arrived, the arcs between packages are  *)
(* fixed up, and only then is the package data written.                    *)
(*                                                                         *)
(* Reads, conversions and writes may fail at any point.  The container is  *)
(* the table of contents in memory (the chunks written so far) and the     *)
(* package store of its header; it becomes visible to a reader only when   *)
(* finalize has serialised the table of contents.                          *)
(***************************************************************************)
EXTENDS Naturals, Sequences, FiniteSets

CONSTANTS
  Workers,    \* rayon threads; one of them is the --no-parallel case
  Assets,     \* asset_paths
  Packages,   \* package ids, of converted and of external packages
  PackageOf,  \* the id of the package an asset's header names
  BulkKinds,  \* the bulk data files an asset has, in the order of their writes
  Imports,    \* the packages an asset has dependency arcs from
  None

\* The bulk data an asset may have, by the extensions of its files, and the kinds
\* of chunks of a container.
BulkFiles == {"ubulk", "uptnl", "m.ubulk"}
ChunkKinds == {"package", "header"} \cup BulkFiles

\* A package's imports are in other packages, by construction of an import map.
\* An asset has at most one file of each kind of bulk data.
ASSUME ConversionAssumption ==
  /\ IsFiniteSet(Workers) /\ Workers # {}
  /\ IsFiniteSet(Assets)
  /\ None \notin Assets
  /\ PackageOf \in [Assets -> Packages]
  /\ Imports \in [Assets -> SUBSET Packages]
  /\ \A a \in Assets : PackageOf[a] \notin Imports[a]
  /\ BulkKinds \in [Assets -> Seq(BulkFiles)]
  /\ \A a \in Assets : \A i, j \in DOMAIN BulkKinds[a] :
       BulkKinds[a][i] = BulkKinds[a][j] => i = j

VARIABLES
  fixup,           \* needs_asset_import_fixup, from the header version
  todo,            \* assets no worker has started
  wpc,             \* "idle", "convert" or "send", per worker
  item,            \* the asset each worker is converting
  producerFailed,  \* try_for_each has seen an error and starts no asset
  txOpen,          \* process_assets runs and owns the sender
  rxOpen,          \* the main thread still receives
  cpc,             \* where the main thread is
  current,         \* the bundle it is writing
  k,               \* its position in the list it is going through
  converted,       \* all_converted
  lookup,          \* converted_lookup
  arcs,            \* the arcs serialised in each converted package
  loaded,          \* assets whose bulk data is in memory
  toc,             \* chunks of the table of contents
  entry,           \* store entries of the container header, by package
  finalized,       \* the table of contents has been serialised
  outcome          \* of the command

producerVars == <<todo, wpc, item, producerFailed, txOpen>>
containerVars == <<toc, entry, finalized>>
fixupVars == <<converted, lookup, arcs>>
vars == <<fixup, producerVars, rxOpen, cpc, current, k, fixupVars, loaded,
          containerVars, outcome>>

\* The values of an arc: not fixed up yet, "last bundle of a package outside
\* this container" (-1), or the asset whose export bundles it was resolved in.
Placeholder == "placeholder"
External == "external"

-----------------------------------------------------------------------------
Init ==
  /\ fixup \in BOOLEAN
  /\ todo = Assets
  /\ wpc = [w \in Workers |-> "idle"]
  /\ item = [w \in Workers |-> None]
  /\ producerFailed = FALSE
  /\ txOpen = TRUE
  /\ rxOpen = TRUE
  /\ cpc = "receive"
  /\ current = None
  /\ k = 1
  /\ converted = <<>>
  /\ lookup = [p \in Packages |-> None]
  /\ arcs = [a \in Assets |-> [p \in Imports[a] |-> Placeholder]]
  /\ loaded = {}
  /\ toc = <<>>
  /\ entry = [p \in Packages |-> None]
  /\ finalized = FALSE
  /\ outcome = "running"

-----------------------------------------------------------------------------
(* The workers: process_assets.                                            *)

\* The worker is done with its asset; an error stops try_for_each.
Release(w, failed) ==
  /\ wpc' = [wpc EXCEPT ![w] = "idle"]
  /\ item' = [item EXCEPT ![w] = None]
  /\ producerFailed' = (producerFailed \/ failed)

\* A worker takes an asset and reads its files.
StartAsset(w, a) ==
  /\ wpc[w] = "idle" /\ ~producerFailed /\ a \in todo
  /\ todo' = todo \ {a}
  /\ wpc' = [wpc EXCEPT ![w] = "convert"]
  /\ item' = [item EXCEPT ![w] = a]
  /\ loaded' = loaded \cup {a}
  /\ UNCHANGED <<fixup, producerFailed, txOpen, rxOpen, cpc, current, k, fixupVars,
                 containerVars, outcome>>

\* The package is built; the worker blocks in tx.send.
ConvertAsset(w) ==
  /\ wpc[w] = "convert"
  /\ wpc' = [wpc EXCEPT ![w] = "send"]
  /\ UNCHANGED <<fixup, todo, item, producerFailed, txOpen, rxOpen, cpc, current, k,
                 fixupVars, loaded, containerVars, outcome>>

\* A file cannot be read or a package cannot be converted.
ConvertFails(w) ==
  /\ wpc[w] = "convert"
  /\ Release(w, TRUE)
  /\ loaded' = loaded \ {item[w]}
  /\ UNCHANGED <<fixup, todo, txOpen, rxOpen, cpc, current, k, fixupVars,
                 containerVars, outcome>>

\* The receiver is gone: send returns an error and the bundle is dropped.
SendFails(w) ==
  /\ wpc[w] = "send" /\ ~rxOpen
  /\ Release(w, TRUE)
  /\ loaded' = loaded \ {item[w]}
  /\ UNCHANGED <<fixup, todo, txOpen, rxOpen, cpc, current, k, fixupVars,
                 containerVars, outcome>>

\* process_assets returns: every started asset is finished and the sender drops.
EndProducer ==
  /\ txOpen
  /\ \A w \in Workers : wpc[w] = "idle"
  /\ todo = {} \/ producerFailed
  /\ txOpen' = FALSE
  /\ UNCHANGED <<fixup, todo, wpc, item, producerFailed, rxOpen, cpc, current, k,
                 fixupVars, loaded, containerVars, outcome>>

-----------------------------------------------------------------------------
(* The main thread: the closure of in_place_scope and what follows it.     *)

\* Variant of HangUp: the receiver outlives the failed loop.
KeepListening == UNCHANGED rxOpen

\* The error leaves the loop over rx, which drops the receiver.
HangUp == rxOpen' = FALSE

\* The rendezvous: a sender's bundle is handed to the main thread.
Receive(w) ==
  /\ cpc = "receive" /\ wpc[w] = "send"
  /\ current' = item[w]
  /\ Release(w, FALSE)
  /\ cpc' = IF fixup THEN "bulk" ELSE "package"
  /\ k' = 1
  /\ UNCHANGED <<fixup, todo, txOpen, rxOpen, fixupVars, loaded, containerVars, outcome>>

\* Variant of WritePackage: the first store entry of an id is kept.
WritePackageFirstWins(a) ==
  /\ entry' = [entry EXCEPT ![PackageOf[a]] = IF @ = None THEN a ELSE @]
  /\ toc' = Append(toc, <<"package", a>>)
  /\ UNCHANGED finalized

\* write_package_chunk: the store entry is added before the chunk is written.
\* A later package with the same id replaces the store entry.
WritePackage(a) ==
  /\ entry' = [entry EXCEPT ![PackageOf[a]] = a]
  /\ toc' = Append(toc, <<"package", a>>)
  /\ UNCHANGED finalized

\* Without fixup, a bundle is written as it arrives: package first, then bulk.
WriteReceivedPackage ==
  /\ cpc = "package"
  /\ WritePackage(current)
  /\ cpc' = "bulk"
  /\ k' = 1
  /\ UNCHANGED <<fixup, producerVars, rxOpen, current, fixupVars, loaded, outcome>>

\* write_and_release_bulk_data, one chunk at a time ...
WriteBulk ==
  /\ cpc = "bulk" /\ k <= Len(BulkKinds[current])
  /\ toc' = Append(toc, <<BulkKinds[current][k], current>>)
  /\ k' = k + 1
  /\ UNCHANGED <<fixup, producerVars, rxOpen, cpc, current, fixupVars, loaded, entry,
                 finalized, outcome>>

\* Variant of Keep: the bundle is listed without its lookup entry.
KeepUnindexed(a) ==
  /\ converted' = Append(converted, a)
  /\ UNCHANGED <<lookup, arcs>>

\* The bundle is kept for the fixup, under its package id: the last one wins.
Keep(a) ==
  /\ converted' = Append(converted, a)
  /\ lookup' = [lookup EXCEPT ![PackageOf[a]] = a]
  /\ UNCHANGED arcs

\* Variant of ReleaseBulk: the bulk data stays with the bundle.
RetainBulk == UNCHANGED loaded

ReleaseBulk == loaded' = loaded \ {current}

\* ... after which the bulk data is released.
EndBulk ==
  /\ cpc = "bulk" /\ k > Len(BulkKinds[current])
  /\ ReleaseBulk
  /\ IF fixup THEN Keep(current) ELSE UNCHANGED fixupVars
  /\ current' = None
  /\ cpc' = "receive"
  /\ UNCHANGED <<fixup, producerVars, rxOpen, k, containerVars, outcome>>

\* Every sender is gone: the loop over rx ends.
Disconnected ==
  /\ cpc = "receive" /\ ~txOpen
  /\ cpc' = IF fixup THEN "fix" ELSE "join"
  /\ k' = 1
  /\ UNCHANGED <<fixup, producerVars, rxOpen, current, fixupVars, loaded,
                 containerVars, outcome>>

\* The value an arc from package p is fixed up to.
Resolve(p) == IF lookup[p] = None THEN External ELSE lookup[p]

\* fixup_legacy_external_arcs on one bundle.
FixArcs ==
  /\ cpc = "fix" /\ k <= Len(converted)
  /\ arcs' = [arcs EXCEPT ![converted[k]] = [p \in Imports[converted[k]] |-> Resolve(p)]]
  /\ k' = k + 1
  /\ UNCHANGED <<fixup, producerVars, rxOpen, cpc, current, converted, lookup, loaded,
                 containerVars, outcome>>

\* An arc names an export its package does not have: the fixup is abandoned.
FixFails ==
  /\ cpc = "fix" /\ k <= Len(converted)
  /\ \E p \in Imports[converted[k]] : lookup[p] # None
  /\ cpc' = "failed"
  /\ HangUp
  /\ UNCHANGED <<fixup, producerVars, current, k, fixupVars, loaded, containerVars, outcome>>

EndFix ==
  /\ cpc = "fix" /\ k > Len(converted)
  /\ cpc' = "flush"
  /\ k' = 1
  /\ UNCHANGED <<fixup, producerVars, rxOpen, current, fixupVars, loaded,
                 containerVars, outcome>>

\* The package data of the kept bundles is written in the order they came.
FlushPackage ==
  /\ cpc = "flush" /\ k <= Len(converted)
  /\ WritePackage(converted[k])
  /\ k' = k + 1
  /\ UNCHANGED <<fixup, producerVars, rxOpen, cpc, current, fixupVars, loaded, outcome>>

EndFlush ==
  /\ cpc = "flush" /\ k > Len(converted)
  /\ cpc' = "join"
  /\ UNCHANGED <<fixup, producerVars, rxOpen, current, k, fixupVars, loaded,
                 containerVars, outcome>>

\* The package whose chunk is being written, if one is.
PackageWritten ==
  IF cpc = "package" THEN {current}
  ELSE IF cpc = "flush" /\ k <= Len(converted) THEN {converted[k]} ELSE {}

\* A write fails: the chunk is not in the table of contents, but its store
\* entry is already in the header.  The closure returns the error.
WriteFails ==
  /\ \/ PackageWritten # {}
     \/ cpc = "bulk" /\ k <= Len(BulkKinds[current])
  /\ entry' = [p \in Packages |->
                 IF \E a \in PackageWritten : PackageOf[a] = p
                 THEN CHOOSE a \in PackageWritten : TRUE ELSE entry[p]]
  /\ cpc' = "failed"
  /\ HangUp
  /\ loaded' = loaded \ {current}
  /\ current' = None
  /\ UNCHANGED <<fixup, producerVars, k, fixupVars, toc, finalized, outcome>>

\* Variant of Join: result.unwrap() without its question mark.
JoinIgnoringWorkers ==
  /\ cpc \in {"join", "failed"} /\ ~txOpen
  /\ IF cpc = "failed"
     THEN cpc' = "done" /\ outcome' = "error"
     ELSE cpc' = "finalize" /\ UNCHANGED outcome
  /\ UNCHANGED <<fixup, producerVars, rxOpen, current, k, fixupVars, loaded, containerVars>>

\* The scope waits for process_assets; the first error, of the closure and
\* then of the workers, ends the command.
Join ==
  /\ cpc \in {"join", "failed"} /\ ~txOpen
  /\ IF cpc = "failed" \/ producerFailed
     THEN cpc' = "done" /\ outcome' = "error"
     ELSE cpc' = "finalize" /\ UNCHANGED outcome
  /\ UNCHANGED <<fixup, producerVars, rxOpen, current, k, fixupVars, loaded, containerVars>>

\* IoStoreWriter::finalize: the header chunk, then the table of contents.
Finalize ==
  /\ cpc = "finalize"
  /\ cpc' = "done"
  /\ toc' = Append(toc, <<"header", None>>)
  /\ finalized' = TRUE
  /\ outcome' = "ok"
  /\ UNCHANGED <<fixup, producerVars, rxOpen, current, k, fixupVars, loaded, entry>>

FinalizeFails ==
  /\ cpc = "finalize"
  /\ cpc' = "done"
  /\ outcome' = "error"
  /\ UNCHANGED <<fixup, producerVars, rxOpen, current, k, fixupVars, loaded, containerVars>>

-----------------------------------------------------------------------------
Worker(w) ==
  \/ \E a \in Assets : StartAsset(w, a)
  \/ ConvertAsset(w) \/ ConvertFails(w) \/ SendFails(w)

Main ==
  \/ \E w \in Workers : Receive(w)
  \/ WriteReceivedPackage \/ WriteBulk \/ EndBulk \/ Disconnected
  \/ FixArcs \/ FixFails \/ EndFix \/ FlushPackage \/ EndFlush
  \/ WriteFails \/ Join \/ Finalize \/ FinalizeFails

\* The command has returned.
Returned == outcome # "running" /\ UNCHANGED vars

Next == (\E w \in Workers : Worker(w)) \/ EndProducer \/ Main \/ Returned

Spec == Init /\ [][Next]_vars

\* Threads that can run do run; a blocked sender is served because the main
\* thread goes on receiving.
FairSpec ==
  /\ Spec
  /\ \A w \in Workers : WF_vars(Worker(w))
  /\ WF_vars(EndProducer)
  /\ WF_vars(Main)

-----------------------------------------------------------------------------
\* The types of the variables.
TypeOK ==
  /\ fixup \in BOOLEAN /\ producerFailed \in BOOLEAN /\ txOpen \in BOOLEAN
  /\ rxOpen \in BOOLEAN /\ finalized \in BOOLEAN
  /\ todo \subseteq Assets /\ loaded \subseteq Assets
  /\ wpc \in [Workers -> {"idle", "convert", "send"}]
  /\ item \in [Workers -> Assets \cup {None}]
  /\ \A w \in Workers : item[w] = None <=> wpc[w] = "idle"
  /\ cpc \in {"receive", "package", "bulk", "fix", "flush", "join", "failed",
              "finalize", "done"}
  /\ current \in Assets \cup {None}
  /\ current # None <=> cpc \in {"package", "bulk"}
  /\ k \in Nat \ {0}
  /\ converted \in Seq(Assets)
  /\ toc \in Seq(ChunkKinds \X (Assets \cup {None}))
  /\ lookup \in [Packages -> Assets \cup {None}]
  /\ entry \in [Packages -> Assets \cup {None}]
  /\ arcs = [a \in Assets |-> arcs[a]]
  /\ \A a \in Assets :
       arcs[a] \in [Imports[a] -> Assets \cup {Placeholder, External}]
  /\ outcome \in {"running", "ok", "error"}

\* The chunks an asset contributes.
ChunksOf(a) ==
  {<<"package", a>>} \cup {<<BulkKinds[a][i], a>> : i \in DOMAIN BulkKinds[a]}

Positions(chunk) == {i \in DOMAIN toc : toc[i] = chunk}

\* All or nothing: a container that gets its table of contents holds every
\* chunk of every asset exactly once, whatever the workers' interleaving; a
\* command that met any error, in a worker or in a write, publishes nothing.
AllOrNothing ==
  /\ finalized => \A a \in Assets : \A c \in ChunksOf(a) : Cardinality(Positions(c)) = 1
  /\ finalized <=> outcome = "ok"

\* The asset whose package data a reader of the container finds under p: the
\* last chunk with that id (chunk_id_map keeps the last).
Visible(p) ==
  LET last == {i \in DOMAIN toc : toc[i][1] = "package" /\ PackageOf[toc[i][2]] = p}
  IN  IF last = {} THEN None
      ELSE toc[CHOOSE i \in last : \A j \in last : j <= i][2]

\* The store entry and the package data of a published package come from the
\* same asset, even when two assets name the same package.
EntryMatchesData == finalized => \A p \in Packages : entry[p] = Visible(p)

\* In a published container with fixed-up arcs every arc was resolved in the
\* asset that a reader finds under the imported package, and is external only
\* if the container does not hold that package.  No placeholder is left.
ArcsMatchReader ==
  finalized /\ fixup =>
    \A a \in Assets : \A p \in Imports[a] :
      arcs[a][p] = IF Visible(p) = None THEN External ELSE Visible(p)

\* Bulk data is not hoarded: at most one asset per worker and the one being
\* written have their bulk data in memory, although the fixup keeps every
\* package ("we do not have enough RAM to keep all the bulk data").
BulkDataBounded == Cardinality(loaded) <= Cardinality(Workers) + 1

\* The command always returns: no worker is left blocked in send by a main
\* thread that failed, and the main thread never waits for a sender that is gone.
CommandReturns == <>(outcome # "running")
=============================================================================
