------------------------------ MODULE ToLegacy ------------------------------
(***************************************************************************)
(* The to-legacy command (src/src/main.rs, action_to_legacy): rayon workers *)
(* convert the packages of a container, then the shader libraries are      *)
(* rebuilt one by one.  Each writes its files itself into a directory, or  *)
(* sends them over a rendezvous channel to the main thread, which writes   *)
(* the entries of a .pak and, at the very end, its index.                  *)
(*                                                                         *)
(* A package that cannot be converted or written is counted and skipped;   *)
(* a path outside the mount point stops the workers; an error of a shader  *)
(* library or of a .pak entry ends the command.                            *)
(***************************************************************************)
EXTENDS Naturals, Sequences, FiniteSets

CONSTANTS
  Workers,    \* rayon threads; one of them is the --no-parallel case
  Packages,
  Containers, \* the packages of each container, by descending priority
  Libraries,  \* the shader libraries, in order
  FilesOf,    \* the files of a package or a library, in the order of writes
  None

\* IoStoreBackend::packages: the packages of every container, each at its
\* position.  A package of two containers is listed twice.
Jobs == UNION {{c} \X DOMAIN Containers[c] : c \in DOMAIN Containers}

Listed == [j \in Jobs |-> Containers[j[1]][j[2]]]

\* The files that write_asset and action_to_legacy_shaders write, by their
\* extensions (a map has .umap for .uasset).
FileKinds == {"uasset", "uexp", "ubulk", "uptnl", "m.ubulk", "ushaderbytecode", "assetinfo"}

\* The files of the output: which of the files of a package or a library.
Entries == (DOMAIN FilesOf) \X FileKinds

\* A package or a library has at least one file, and none of a kind twice.
ASSUME LegacyAssumption ==
  /\ IsFiniteSet(Workers) /\ Workers # {}
  /\ Containers \in Seq(Seq(Packages))
  /\ Libraries \in Seq(DOMAIN FilesOf) /\ Packages \subseteq DOMAIN FilesOf
  /\ \A x \in DOMAIN FilesOf :
       /\ FilesOf[x] \in Seq(FileKinds) \ {<<>>}
       /\ \A m, n \in DOMAIN FilesOf[x] : FilesOf[x][m] = FilesOf[x][n] => m = n
  /\ None \notin Jobs \cup Entries

VARIABLES
  sink,     \* "pak" or "directory"
  asked,    \* what to convert: "assets", "shaders" or both
  todo,     \* packages_to_extract: the positions no worker has started
  wpc,      \* "idle", "build", "write" or "send", per worker
  job,      \* the position of the package a worker converts
  file,     \* the number of the file it writes
  status,   \* history: what became of each position
  failed,   \* failed_count
  stage,    \* of action_to_legacy_inner: "assets", "shaders", "ok" or "error"
  lpc,      \* "rebuild", "write" or "send", for the thread of the libraries
  library,  \* the shader library it rebuilds
  part,     \* the number of the file it writes
  rxOpen,   \* the main thread still receives
  main,     \* "receive", "write", "join", "failed", "index" or "done"
  current,  \* the entry the main thread is writing
  files,    \* the files or entries written, in order
  indexed,  \* the .pak has its index
  outcome   \* of the command

assetVars == <<todo, wpc, job, file, status, failed>>
shaderVars == <<lpc, library, part>>
mainVars == <<rxOpen, main, current, indexed, outcome>>
vars == <<sink, asked, assetVars, stage, shaderVars, mainVars, files>>

-----------------------------------------------------------------------------
Init ==
  /\ sink \in {"pak", "directory"}
  /\ todo = Jobs
  /\ wpc = [w \in Workers |-> "idle"]
  /\ job = [w \in Workers |-> None]
  /\ file = [w \in Workers |-> 1]
  /\ status = [j \in Jobs |-> "pending"]
  /\ failed = 0
  /\ asked \in (SUBSET {"assets", "shaders"}) \ {{}}
  /\ stage = IF "assets" \in asked THEN "assets" ELSE "shaders"
  /\ lpc = "rebuild"
  /\ library = 1
  /\ part = 1
  /\ rxOpen = TRUE
  /\ main = IF sink = "pak" THEN "receive" ELSE "join"
  /\ current = None
  /\ files = <<>>
  /\ indexed = FALSE
  /\ outcome = "running"

-----------------------------------------------------------------------------
(* The workers: action_to_legacy_assets.                                   *)

\* The worker is done with its package.
EndJob(w, result) ==
  /\ wpc' = [wpc EXCEPT ![w] = "idle"]
  /\ job' = [job EXCEPT ![w] = None]
  /\ status' = [status EXCEPT ![job[w]] = result]

\* An error of build_legacy is logged and counted.
FailJob(w) == EndJob(w, "failed") /\ failed' = failed + 1

\* The container cannot be opened or has no path for one of its packages.
ListingFails ==
  /\ stage = "assets" /\ todo = Jobs
  /\ stage' = "error"
  /\ UNCHANGED <<sink, asked, assetVars, shaderVars, mainVars, files>>

\* try_for_each goes on while no path was refused.
StartPackage(w, j) ==
  /\ stage = "assets" /\ wpc[w] = "idle" /\ j \in todo
  /\ \A i \in Jobs : status[i] # "refused"
  /\ todo' = todo \ {j}
  /\ wpc' = [wpc EXCEPT ![w] = "build"]
  /\ job' = [job EXCEPT ![w] = j]
  /\ file' = [file EXCEPT ![w] = 1]
  /\ UNCHANGED <<sink, asked, status, failed, stage, shaderVars, mainVars, files>>

\* The path of the package is not under ../../../.
RefusePath(w) ==
  /\ wpc[w] = "build"
  /\ EndJob(w, "refused")
  /\ UNCHANGED <<sink, asked, todo, file, failed, stage, shaderVars, mainVars, files>>

\* build_asset_from_zen and serialize_asset: nothing is written before every
\* file of the package is in memory.
BuildPackage(w) ==
  /\ wpc[w] = "build"
  /\ wpc' = [wpc EXCEPT ![w] = "write"]
  /\ UNCHANGED <<sink, asked, todo, job, file, status, failed, stage, shaderVars, mainVars, files>>

BuildFails(w) ==
  /\ wpc[w] = "build"
  /\ FailJob(w)
  /\ UNCHANGED <<sink, asked, todo, file, stage, shaderVars, mainVars, files>>

\* The file worker w is about to write.
FileOf(w) == <<Listed[job[w]], FilesOf[Listed[job[w]]][file[w]]>>

\* The worker goes on to its next file, if there is one.
NextFile(w) ==
  IF file[w] < Len(FilesOf[Listed[job[w]]])
  THEN /\ file' = [file EXCEPT ![w] = @ + 1]
       /\ wpc' = [wpc EXCEPT ![w] = "write"]
       /\ UNCHANGED <<job, status>>
  ELSE EndJob(w, "extracted") /\ UNCHANGED file

\* FSFileWriter: fs::write of the file.
WriteFile(w) ==
  /\ sink = "directory" /\ wpc[w] = "write"
  /\ files' = Append(files, FileOf(w))
  /\ NextFile(w)
  /\ UNCHANGED <<sink, asked, todo, failed, stage, shaderVars, mainVars>>

\* ParallelPakWriter: the entry is built; the worker blocks in tx.send.
BuildEntry(w) ==
  /\ sink = "pak" /\ wpc[w] = "write"
  /\ wpc' = [wpc EXCEPT ![w] = "send"]
  /\ UNCHANGED <<sink, asked, todo, job, file, status, failed, stage, shaderVars,
                 mainVars, files>>

\* Variant of WriteFileFails: the worker goes on with the next file.
SkipFile(w) ==
  /\ wpc[w] = "write"
  /\ NextFile(w)
  /\ UNCHANGED <<sink, asked, todo, failed, stage, shaderVars, mainVars, files>>

\* The file cannot be written or its entry cannot be built.  The files of the
\* package that are already written stay.
WriteFileFails(w) ==
  /\ wpc[w] = "write"
  /\ FailJob(w)
  /\ UNCHANGED <<sink, asked, todo, file, stage, shaderVars, mainVars, files>>

\* The receiver is gone: send returns an error like any other.
SendFails(w) ==
  /\ wpc[w] = "send" /\ ~rxOpen
  /\ FailJob(w)
  /\ UNCHANGED <<sink, asked, todo, file, stage, shaderVars, mainVars, files>>

\* Every started package is finished: the shaders follow, unless a path was
\* refused.  The count of failures does not matter.
EndAssets ==
  /\ stage = "assets"
  /\ \A w \in Workers : wpc[w] = "idle"
  /\ todo = {} \/ \E j \in Jobs : status[j] = "refused"
  /\ stage' = IF \E j \in Jobs : status[j] = "refused" THEN "error"
              ELSE IF "shaders" \in asked THEN "shaders" ELSE "ok"
  /\ UNCHANGED <<sink, asked, assetVars, shaderVars, mainVars, files>>

-----------------------------------------------------------------------------
(* The shader libraries: action_to_legacy_shaders.                         *)

RebuildLibrary ==
  /\ stage = "shaders" /\ library <= Len(Libraries) /\ lpc = "rebuild"
  /\ lpc' = "write"
  /\ UNCHANGED <<sink, asked, assetVars, stage, library, part, mainVars, files>>

\* The file of the library about to be written.
LibraryFile == <<Libraries[library], FilesOf[Libraries[library]][part]>>

NextPart ==
  IF part < Len(FilesOf[Libraries[library]])
  THEN part' = part + 1 /\ lpc' = "write" /\ UNCHANGED library
  ELSE part' = 1 /\ lpc' = "rebuild" /\ library' = library + 1

WriteLibraryFile ==
  /\ sink = "directory" /\ stage = "shaders" /\ lpc = "write"
  /\ files' = Append(files, LibraryFile)
  /\ NextPart
  /\ UNCHANGED <<sink, asked, assetVars, stage, mainVars>>

BuildLibraryEntry ==
  /\ sink = "pak" /\ stage = "shaders" /\ lpc = "write"
  /\ lpc' = "send"
  /\ UNCHANGED <<sink, asked, assetVars, stage, library, part, mainVars, files>>

\* The library cannot be rebuilt or written, or the receiver is gone.
LibraryFails ==
  /\ stage = "shaders" /\ library <= Len(Libraries)
  /\ lpc = "send" => ~rxOpen
  /\ stage' = "error"
  /\ UNCHANGED <<sink, asked, assetVars, shaderVars, mainVars, files>>

EndShaders ==
  /\ stage = "shaders" /\ library > Len(Libraries)
  /\ stage' = "ok"
  /\ UNCHANGED <<sink, asked, assetVars, shaderVars, mainVars, files>>

-----------------------------------------------------------------------------
(* The main thread: the closure of in_place_scope and what follows it.     *)

\* The rendezvous with a worker that sends an entry ...
Receive(w) ==
  /\ main = "receive" /\ wpc[w] = "send"
  /\ current' = FileOf(w)
  /\ NextFile(w)
  /\ main' = "write"
  /\ UNCHANGED <<sink, asked, todo, failed, stage, shaderVars, rxOpen, files, indexed, outcome>>

\* ... or with the thread that rebuilds the shader libraries.
ReceiveLibrary ==
  /\ main = "receive" /\ stage = "shaders" /\ lpc = "send"
  /\ current' = LibraryFile
  /\ NextPart
  /\ main' = "write"
  /\ UNCHANGED <<sink, asked, assetVars, stage, rxOpen, files, indexed, outcome>>

\* pak.write_entry
WriteEntry ==
  /\ main = "write"
  /\ files' = Append(files, current)
  /\ current' = None
  /\ main' = "receive"
  /\ UNCHANGED <<sink, asked, assetVars, stage, shaderVars, rxOpen, indexed, outcome>>

\* Variant of WriteEntryFails: the receiver outlives the failed loop.
KeepReceiver ==
  /\ main = "write"
  /\ current' = None
  /\ main' = "failed"
  /\ UNCHANGED <<sink, asked, assetVars, stage, shaderVars, rxOpen, files, indexed, outcome>>

\* The error leaves the loop over rx, which drops the receiver.
WriteEntryFails ==
  /\ main = "write"
  /\ current' = None
  /\ main' = "failed"
  /\ rxOpen' = FALSE
  /\ UNCHANGED <<sink, asked, assetVars, stage, shaderVars, files, indexed, outcome>>

\* action_to_legacy_inner has returned and its writer, the sender, is gone.
Disconnected ==
  /\ main = "receive" /\ stage \in {"ok", "error"}
  /\ main' = "join"
  /\ UNCHANGED <<sink, asked, assetVars, stage, shaderVars, rxOpen, current, files, indexed, outcome>>

\* Variant of Join: the result of the conversion is dropped.
JoinIgnoringInner ==
  /\ main \in {"join", "failed"} /\ stage \in {"ok", "error"}
  /\ IF main = "failed"
     THEN main' = "done" /\ outcome' = "error"
     ELSE IF sink = "pak" THEN main' = "index" /\ UNCHANGED outcome
     ELSE main' = "done" /\ outcome' = "ok"
  /\ UNCHANGED <<sink, asked, assetVars, stage, shaderVars, rxOpen, current, files, indexed>>

\* The conversion has returned.  The first error, of the entries and then of
\* the conversion, ends the command; without one a .pak still needs its index.
Join ==
  /\ main \in {"join", "failed"} /\ stage \in {"ok", "error"}
  /\ IF main = "failed" \/ stage = "error"
     THEN main' = "done" /\ outcome' = "error"
     ELSE IF sink = "pak" THEN main' = "index" /\ UNCHANGED outcome
     ELSE main' = "done" /\ outcome' = "ok"
  /\ UNCHANGED <<sink, asked, assetVars, stage, shaderVars, rxOpen, current, files, indexed>>

\* pak.write_index
WriteIndex ==
  /\ main = "index"
  /\ main' = "done"
  /\ \/ indexed' = TRUE /\ outcome' = "ok"
     \/ UNCHANGED indexed /\ outcome' = "error"
  /\ UNCHANGED <<sink, asked, assetVars, stage, shaderVars, rxOpen, current, files>>

-----------------------------------------------------------------------------
Worker(w) ==
  \/ \E j \in todo : StartPackage(w, j)
  \/ RefusePath(w) \/ BuildPackage(w) \/ BuildFails(w)
  \/ WriteFile(w) \/ BuildEntry(w) \/ WriteFileFails(w) \/ SendFails(w)

\* The thread that runs action_to_legacy_inner.
Inner ==
  \/ ListingFails \/ EndAssets
  \/ RebuildLibrary \/ WriteLibraryFile \/ BuildLibraryEntry \/ LibraryFails
  \/ EndShaders

Main ==
  \/ (\E w \in Workers : Receive(w)) \/ ReceiveLibrary
  \/ WriteEntry \/ WriteEntryFails \/ Disconnected \/ Join \/ WriteIndex

\* The command has returned.
Returned == outcome # "running" /\ UNCHANGED vars

Next == (\E w \in Workers : Worker(w)) \/ Inner \/ Main \/ Returned

Spec == Init /\ [][Next]_vars

\* Threads that are not blocked do run.
FairSpec ==
  /\ Spec
  /\ \A w \in Workers : WF_vars(Worker(w))
  /\ WF_vars(Inner)
  /\ WF_vars(Main)

-----------------------------------------------------------------------------
\* The types of the variables.
TypeOK ==
  /\ sink \in {"pak", "directory"}
  /\ asked \in (SUBSET {"assets", "shaders"}) \ {{}}
  /\ todo \subseteq Jobs
  /\ wpc \in [Workers -> {"idle", "build", "write", "send"}]
  /\ job \in [Workers -> Jobs \cup {None}]
  /\ file \in [Workers -> Nat \ {0}]
  /\ \A w \in Workers :
       /\ job[w] = None <=> wpc[w] = "idle"
       /\ job[w] # None => file[w] \in DOMAIN FilesOf[Listed[job[w]]]
  /\ status \in [Jobs -> {"pending", "extracted", "failed", "refused"}]
  /\ failed \in Nat
  /\ stage \in {"assets", "shaders", "ok", "error"}
  /\ lpc \in {"rebuild", "write", "send"}
  /\ library \in 1..(Len(Libraries) + 1)
  /\ part \in Nat \ {0} /\ (lpc = "rebuild" => part = 1)
  /\ lpc # "rebuild" =>
       library <= Len(Libraries) /\ part \in DOMAIN FilesOf[Libraries[library]]
  /\ rxOpen \in BOOLEAN /\ indexed \in BOOLEAN
  /\ main \in {"receive", "write", "join", "failed", "index", "done"}
  /\ current \in Entries \cup {None}
  /\ (current = None) <=> (main # "write")
  /\ files \in Seq(Entries)
  /\ outcome \in {"running", "ok", "error"}

Written == {files[i] : i \in DOMAIN files}

\* The files that a package or a library consists of.
AllFiles(x) == {<<x, FilesOf[x][i]>> : i \in DOMAIN FilesOf[x]}

\* A command that reports success has written every file of every shader library
\* it was asked for, and of every package but those that failed: all, unless it
\* counts failures, of which it then has the right number.  An entry handed to the
\* main thread and not written is never passed over in silence; a .pak has its
\* index only then.
CompleteWhenOk ==
  /\ outcome = "ok" =>
       /\ "assets" \in asked =>
            \A j \in Jobs : \/ AllFiles(Listed[j]) \subseteq Written
                            \/ status[j] = "failed" /\ failed > 0
       /\ "shaders" \in asked =>
            \A i \in DOMAIN Libraries : AllFiles(Libraries[i]) \subseteq Written
  /\ indexed <=> outcome = "ok" /\ sink = "pak"
  /\ failed = Cardinality({j \in Jobs : status[j] = "failed"})

\* However the workers interleave and wherever one fails, what is left of a
\* package begins with its .uasset: no file of a package is written, or enters
\* the .pak, before those that come before it in write_asset.
NoOrphanFiles ==
  \A i \in DOMAIN files :
    LET x == files[i][1] IN
    \A n \in DOMAIN FilesOf[x] :
      FilesOf[x][n] = files[i][2] =>
        \A m \in 1..(n - 1) : \E h \in 1..(i - 1) : files[h] = <<x, FilesOf[x][m]>>

\* The command always returns: a main thread that fails leaves no worker
\* blocked in send, and the conversion that ends lets the main thread go.
CommandReturns == <>(outcome # "running")

\* Every file is written once ("packages should already be unique in individual
\* containers", iostore.rs:447: what packages lists is meant to be unique).
FilesWrittenOnce == \A i, j \in DOMAIN files : files[i] = files[j] => i = j
=============================================================================
