--------------------------- MODULE ToLegacyProofs ---------------------------
(***************************************************************************)
(* Proofs about ToLegacy, for any workers, containers, packages, libraries *)
(* and files, with packages of several containers or without.              *)
(***************************************************************************)
EXTENDS ToLegacy, FiniteSetTheorems, TLAPS

-----------------------------------------------------------------------------
(* The inductive invariant.                                                *)

\* The stages of the command: what has ended when it goes on.
Stages ==
  /\ sink = "directory" =>
       main \in {"join", "done"} /\ lpc # "send" /\ \A w \in Workers : wpc[w] # "send"
  /\ main = "index" => sink = "pak"
  /\ main = "done" <=> outcome # "running"
  /\ main = "index" \/ outcome = "ok" => stage = "ok"
  /\ outcome = "error" => stage \in {"ok", "error"}
  /\ indexed <=> outcome = "ok" /\ sink = "pak"
  /\ stage # "assets" => \A w \in Workers : wpc[w] = "idle"
  /\ stage = "assets" => "assets" \in asked /\ lpc = "rebuild" /\ library = 1
  /\ "assets" \in asked /\ stage \in {"shaders", "ok"} =>
       todo = {} /\ \A j \in Jobs : status[j] # "refused"
  /\ "shaders" \in asked /\ stage = "ok" => library = Len(Libraries) + 1

\* A package is taken once, and its fate is open only as long as it is waiting
\* or in work.
OneTaker ==
  /\ \A w \in Workers : job[w] \notin todo
  /\ \A v, w \in Workers : job[v] = job[w] /\ job[v] # None => v = w
  /\ \A j \in Jobs :
       status[j] = "pending" <=> j \in todo \/ \E w \in Workers : job[w] = j

Failures == {j \in Jobs : status[j] = "failed"}

Counted == failed = Cardinality(Failures)

\* No entry was dropped.
Lossless == main # "failed" /\ outcome # "error"

\* The files that are written or in the hands of the main thread.
Handed == (Written \cup {current}) \ {None}

\* The first n files of x are written or about to be.
FirstHanded(handed, x, n) == \A m \in DOMAIN FilesOf[x] : m <= n => <<x, FilesOf[x][m]>> \in handed

\* The files of a package that a worker is at, of the packages that are extracted,
\* of the library in work and of those before it.
HandedSoFar ==
  Lossless =>
    /\ \A w \in Workers : job[w] # None => FirstHanded(Handed, Listed[job[w]], file[w] - 1)
    /\ \A j \in Jobs : status[j] = "extracted" => AllFiles(Listed[j]) \subseteq Handed
    /\ \A i \in DOMAIN Libraries : i < library => AllFiles(Libraries[i]) \subseteq Handed
    /\ library <= Len(Libraries) => FirstHanded(Handed, Libraries[library], part - 1)

\* The entry that is written next comes after the files before it.
InSequence ==
  main = "write" =>
    \E x \in DOMAIN FilesOf : \E n \in DOMAIN FilesOf[x] :
      current = <<x, FilesOf[x][n]>> /\ FirstHanded(Written, x, n - 1)

IInv ==
  /\ TypeOK /\ Stages /\ OneTaker /\ Counted /\ HandedSoFar /\ InSequence
  /\ NoOrphanFiles

-----------------------------------------------------------------------------
(* The invariant is inductive.                                             *)

USE DEF assetVars, shaderVars, mainVars

\* What the assumption says of the packages that are listed and of their files.
LEMMA JobFacts ==
  /\ None \notin Jobs /\ None \notin Entries
  /\ \A j \in Jobs : Listed[j] \in DOMAIN FilesOf
  /\ Len(Libraries) \in Nat /\ DOMAIN Libraries = 1..Len(Libraries)
  /\ \A i \in DOMAIN Libraries : Libraries[i] \in DOMAIN FilesOf
<1>1. Containers \in Seq(Seq(Packages)) /\ Packages \subseteq DOMAIN FilesOf
  BY LegacyAssumption
<1>2. ASSUME NEW j \in Jobs PROVE Listed[j] \in DOMAIN FilesOf
  <2>1. PICK c \in DOMAIN Containers : j \in {c} \X DOMAIN Containers[c]
    BY DEF Jobs
  <2>2. Containers[c] \in Seq(Packages) /\ j[1] = c /\ j[2] \in DOMAIN Containers[c]
    BY <1>1, <2>1
  <2>3. Containers[c][j[2]] \in Packages
    BY <2>2
  <2> QED
    BY <1>1, <2>2, <2>3 DEF Listed
<1>3. Libraries \in Seq(DOMAIN FilesOf)
  BY LegacyAssumption
<1> QED
  BY <1>2, <1>3, LegacyAssumption

LEMMA FileFacts ==
  ASSUME NEW x \in DOMAIN FilesOf
  PROVE  /\ Len(FilesOf[x]) \in Nat \ {0} /\ DOMAIN FilesOf[x] = 1..Len(FilesOf[x])
         /\ \A n \in DOMAIN FilesOf[x] :
              /\ <<x, FilesOf[x][n]>> \in Entries
              /\ \A m \in DOMAIN FilesOf[x] : FilesOf[x][m] = FilesOf[x][n] => m = n
<1>1. FilesOf[x] \in Seq(FileKinds) /\ FilesOf[x] # <<>>
  BY LegacyAssumption
<1>2. \A n \in DOMAIN FilesOf[x] : <<x, FilesOf[x][n]>> \in Entries
  BY <1>1 DEF Entries
<1> QED
  BY <1>1, <1>2, LegacyAssumption

\* The file a worker is at, and what it does after it.
LEMMA NextFileType ==
  ASSUME TypeOK, NEW w \in Workers, job[w] # None, wpc[w] # "idle", NextFile(w)
  PROVE  /\ FileOf(w) \in Entries
         /\ wpc' \in [Workers -> {"idle", "build", "write", "send"}]
         /\ job' \in [Workers -> Jobs \cup {None}]
         /\ file' \in [Workers -> Nat \ {0}]
         /\ status' \in [Jobs -> {"pending", "extracted", "failed", "refused"}]
         /\ \A v \in Workers : job'[v] = None <=> wpc'[v] = "idle"
         /\ \A v \in Workers : job'[v] # None => file'[v] \in DOMAIN FilesOf[Listed[job'[v]]]
<1>. /\ job[w] \in Jobs /\ Listed[job[w]] \in DOMAIN FilesOf
     /\ file[w] \in DOMAIN FilesOf[Listed[job[w]]]
     /\ wpc \in [Workers -> {"idle", "build", "write", "send"}]
     /\ job \in [Workers -> Jobs \cup {None}]
     /\ file \in [Workers -> Nat \ {0}]
     /\ status \in [Jobs -> {"pending", "extracted", "failed", "refused"}]
     /\ \A v \in Workers : job[v] = None <=> wpc[v] = "idle"
     /\ \A v \in Workers : job[v] # None => file[v] \in DOMAIN FilesOf[Listed[job[v]]]
  BY JobFacts DEF TypeOK
<1>. Len(FilesOf[Listed[job[w]]]) \in Nat
     /\ DOMAIN FilesOf[Listed[job[w]]] = 1..Len(FilesOf[Listed[job[w]]])
  BY FileFacts
<1>1. FileOf(w) \in Entries
  BY FileFacts DEF FileOf
<1>2. CASE file[w] < Len(FilesOf[Listed[job[w]]])
  <2>1. /\ file' = [file EXCEPT ![w] = @ + 1] /\ wpc' = [wpc EXCEPT ![w] = "write"]
        /\ job' = job /\ status' = status
    BY <1>2 DEF NextFile
  <2>2. file[w] + 1 \in DOMAIN FilesOf[Listed[job[w]]]
    BY <1>2
  <2>3. ASSUME NEW v \in Workers, job[v] # None
        PROVE  file'[v] \in DOMAIN FilesOf[Listed[job[v]]]
    BY <2>1, <2>2, <2>3
  <2> QED
    BY <1>1, <2>1, <2>3, JobFacts
<1>3. CASE ~(file[w] < Len(FilesOf[Listed[job[w]]]))
  BY <1>1, <1>3, JobFacts DEF NextFile, EndJob
<1> QED
  BY <1>2, <1>3

\* The same for the libraries.
LEMMA NextPartType ==
  ASSUME TypeOK, lpc # "rebuild", NextPart
  PROVE  /\ LibraryFile \in Entries
         /\ lpc' \in {"rebuild", "write", "send"}
         /\ library' \in 1..(Len(Libraries) + 1)
         /\ part' \in Nat \ {0} /\ (lpc' = "rebuild" => part' = 1)
         /\ lpc' # "rebuild" =>
              library' <= Len(Libraries) /\ part' \in DOMAIN FilesOf[Libraries[library']]
<1>. /\ library \in DOMAIN Libraries /\ Libraries[library] \in DOMAIN FilesOf
     /\ part \in DOMAIN FilesOf[Libraries[library]]
     /\ Len(Libraries) \in Nat /\ library \in 1..Len(Libraries)
  BY JobFacts DEF TypeOK
<1>. Len(FilesOf[Libraries[library]]) \in Nat
     /\ DOMAIN FilesOf[Libraries[library]] = 1..Len(FilesOf[Libraries[library]])
  BY FileFacts
<1>1. LibraryFile \in Entries
  BY FileFacts DEF LibraryFile
<1> QED
  BY <1>1 DEF NextPart

\* An entry more in the output.
LEMMA EntryWritten ==
  ASSUME TypeOK, NEW e \in Entries, files' = Append(files, e)
  PROVE  /\ files' \in Seq(Entries)
         /\ Written' = Written \cup {e}
         /\ Len(files) \in Nat /\ DOMAIN files = 1..Len(files)
         /\ DOMAIN files' = 1..(Len(files) + 1)
         /\ files'[Len(files) + 1] = e
         /\ \A i \in 1..Len(files) : files'[i] = files[i]
<1>1. files \in Seq(Entries)
  BY DEF TypeOK
<1>2. /\ files' \in Seq(Entries)
      /\ Len(files) \in Nat /\ DOMAIN files = 1..Len(files)
      /\ DOMAIN files' = 1..(Len(files) + 1)
      /\ files'[Len(files) + 1] = e
      /\ \A i \in 1..Len(files) : files'[i] = files[i]
  BY <1>1
<1>3. \A y : y \in Written' <=> y \in Written \cup {e}
  BY <1>2 DEF Written
<1> QED
  BY <1>2, <1>3

\* The parts of the invariant, each preserved by every step: the types ...
LEMMA TypesInductive ==
  ASSUME TypeOK, Stages, [Next]_vars
  PROVE  TypeOK'
<1> USE JobFacts DEF TypeOK, EndJob, FailJob
<1>1. ASSUME NEW w \in Workers, NEW j \in todo, StartPackage(w, j) PROVE TypeOK'
  <2>1. j \in Jobs /\ 1 \in DOMAIN FilesOf[Listed[j]]
    BY JobFacts, FileFacts
  <2> QED
    BY <1>1, <2>1 DEF StartPackage
<1>2. ASSUME NEW w \in Workers, RefusePath(w) PROVE TypeOK'
  BY <1>2 DEF RefusePath
<1>3. ASSUME NEW w \in Workers, BuildPackage(w) PROVE TypeOK'
  BY <1>3 DEF BuildPackage
<1>4. ASSUME NEW w \in Workers, BuildFails(w) PROVE TypeOK'
  BY <1>4 DEF BuildFails
<1>5. ASSUME NEW w \in Workers, WriteFile(w) PROVE TypeOK'
  <2>1. wpc[w] = "write" /\ job[w] # None /\ NextFile(w) /\ files' = Append(files, FileOf(w))
    BY <1>5 DEF WriteFile
  <2> HIDE DEF TypeOK
  <2>2. FileOf(w) \in Entries
    BY <2>1, NextFileType
  <2>3. files' \in Seq(Entries)
    BY <2>1, <2>2, EntryWritten
  <2> QED
    BY <1>5, <2>1, <2>3, NextFileType DEF WriteFile, TypeOK
<1>6. ASSUME NEW w \in Workers, BuildEntry(w) PROVE TypeOK'
  BY <1>6 DEF BuildEntry
<1>7. ASSUME NEW w \in Workers, WriteFileFails(w) PROVE TypeOK'
  BY <1>7 DEF WriteFileFails
<1>8. ASSUME NEW w \in Workers, SendFails(w) PROVE TypeOK'
  BY <1>8 DEF SendFails
<1>9. CASE ListingFails
  BY <1>9 DEF ListingFails
<1>10. CASE EndAssets
  BY <1>10 DEF EndAssets
<1>11. CASE RebuildLibrary
  <2>1. library \in DOMAIN Libraries /\ part = 1
    BY <1>11 DEF RebuildLibrary
  <2>2. part \in DOMAIN FilesOf[Libraries[library]]
    BY <2>1, FileFacts
  <2> QED
    BY <1>11, <2>1, <2>2 DEF RebuildLibrary
<1>12. CASE WriteLibraryFile
  <2>1. lpc # "rebuild" /\ NextPart /\ files' = Append(files, LibraryFile)
    BY <1>12 DEF WriteLibraryFile
  <2> HIDE DEF TypeOK
  <2>2. LibraryFile \in Entries
    BY <2>1, NextPartType
  <2>3. files' \in Seq(Entries)
    BY <2>1, <2>2, EntryWritten
  <2> QED
    BY <1>12, <2>1, <2>3, NextPartType DEF WriteLibraryFile, TypeOK
<1>13. CASE BuildLibraryEntry
  BY <1>13 DEF BuildLibraryEntry
<1>14. CASE LibraryFails
  BY <1>14 DEF LibraryFails
<1>15. CASE EndShaders
  BY <1>15 DEF EndShaders
<1>16. ASSUME NEW w \in Workers, Receive(w) PROVE TypeOK'
  <2>1. wpc[w] = "send" /\ job[w] # None /\ NextFile(w) /\ current' = FileOf(w)
    BY <1>16 DEF Receive
  <2> HIDE DEF TypeOK
  <2> QED
    BY <1>16, <2>1, NextFileType DEF Receive, TypeOK
<1>17. CASE ReceiveLibrary
  <2>1. lpc # "rebuild" /\ NextPart /\ current' = LibraryFile
    BY <1>17 DEF ReceiveLibrary
  <2> HIDE DEF TypeOK
  <2> QED
    BY <1>17, <2>1, NextPartType DEF ReceiveLibrary, TypeOK
<1>18. CASE WriteEntry
  BY <1>18 DEF WriteEntry
<1>19. CASE WriteEntryFails
  BY <1>19 DEF WriteEntryFails
<1>20. CASE Disconnected
  BY <1>20 DEF Disconnected
<1>21. CASE Join
  BY <1>21 DEF Join
<1>22. CASE WriteIndex
  BY <1>22 DEF WriteIndex
<1>23. CASE UNCHANGED vars
  BY <1>23 DEF vars
<1> QED
  BY <1>1, <1>2, <1>3, <1>4, <1>5, <1>6, <1>7, <1>8, <1>9, <1>10, <1>11, <1>12,
     <1>13, <1>14, <1>15, <1>16, <1>17, <1>18, <1>19, <1>20, <1>21, <1>22, <1>23
     DEF Next, Worker, Inner, Main, Returned

\* ... the stages of the command ...
LEMMA StagesInductive ==
  ASSUME TypeOK, Stages, OneTaker, [Next]_vars
  PROVE  Stages'
<1> USE JobFacts DEF TypeOK, Stages, EndJob, FailJob
<1>1. ASSUME NEW w \in Workers, NEW j \in todo, StartPackage(w, j) PROVE Stages'
  BY <1>1 DEF StartPackage
<1>2. ASSUME NEW w \in Workers, RefusePath(w) PROVE Stages'
  BY <1>2 DEF RefusePath
<1>3. ASSUME NEW w \in Workers, BuildPackage(w) PROVE Stages'
  BY <1>3 DEF BuildPackage
<1>4. ASSUME NEW w \in Workers, BuildFails(w) PROVE Stages'
  BY <1>4 DEF BuildFails
<1>5. ASSUME NEW w \in Workers, WriteFile(w) PROVE Stages'
  <2>1. CASE file[w] < Len(FilesOf[Listed[job[w]]])
    BY <1>5, <2>1 DEF WriteFile, NextFile
  <2>2. CASE ~(file[w] < Len(FilesOf[Listed[job[w]]]))
    BY <1>5, <2>2 DEF WriteFile, NextFile
  <2> QED
    BY <2>1, <2>2
<1>6. ASSUME NEW w \in Workers, BuildEntry(w) PROVE Stages'
  BY <1>6 DEF BuildEntry
<1>7. ASSUME NEW w \in Workers, WriteFileFails(w) PROVE Stages'
  BY <1>7 DEF WriteFileFails
<1>8. ASSUME NEW w \in Workers, SendFails(w) PROVE Stages'
  BY <1>8 DEF SendFails
<1>9. CASE ListingFails
  BY <1>9 DEF ListingFails, OneTaker
<1>10. CASE EndAssets
  BY <1>10 DEF EndAssets
<1>11. CASE RebuildLibrary
  BY <1>11 DEF RebuildLibrary
<1>12. CASE WriteLibraryFile
  BY <1>12 DEF WriteLibraryFile, NextPart
<1>13. CASE BuildLibraryEntry
  BY <1>13 DEF BuildLibraryEntry
<1>14. CASE LibraryFails
  BY <1>14 DEF LibraryFails
<1>15. CASE EndShaders
  BY <1>15 DEF EndShaders
<1>16. ASSUME NEW w \in Workers, Receive(w) PROVE Stages'
  BY <1>16 DEF Receive
<1>17. CASE ReceiveLibrary
  BY <1>17 DEF ReceiveLibrary
<1>18. CASE WriteEntry
  BY <1>18 DEF WriteEntry
<1>19. CASE WriteEntryFails
  BY <1>19 DEF WriteEntryFails
<1>20. CASE Disconnected
  BY <1>20 DEF Disconnected
<1>21. CASE Join
  BY <1>21 DEF Join
<1>22. CASE WriteIndex
  BY <1>22 DEF WriteIndex
<1>23. CASE UNCHANGED vars
  BY <1>23 DEF vars
<1> QED
  BY <1>1, <1>2, <1>3, <1>4, <1>5, <1>6, <1>7, <1>8, <1>9, <1>10, <1>11, <1>12,
     <1>13, <1>14, <1>15, <1>16, <1>17, <1>18, <1>19, <1>20, <1>21, <1>22, <1>23
     DEF Next, Worker, Inner, Main, Returned

\* ... who has a package ...
LEMMA OneTakerInductive ==
  ASSUME TypeOK, Stages, OneTaker, [Next]_vars
  PROVE  OneTaker'
<1> USE JobFacts DEF TypeOK, OneTaker, EndJob, FailJob
<1>1. ASSUME NEW w \in Workers, NEW j \in todo, StartPackage(w, j) PROVE OneTaker'
  BY <1>1 DEF StartPackage
<1>2. ASSUME NEW w \in Workers, RefusePath(w) PROVE OneTaker'
  BY <1>2 DEF RefusePath
<1>3. ASSUME NEW w \in Workers, BuildPackage(w) PROVE OneTaker'
  BY <1>3 DEF BuildPackage
<1>4. ASSUME NEW w \in Workers, BuildFails(w) PROVE OneTaker'
  BY <1>4 DEF BuildFails
<1>5. ASSUME NEW w \in Workers, WriteFile(w) PROVE OneTaker'
  <2>1. CASE file[w] < Len(FilesOf[Listed[job[w]]])
    BY <1>5, <2>1 DEF WriteFile, NextFile
  <2>2. CASE ~(file[w] < Len(FilesOf[Listed[job[w]]]))
    <3>1. EndJob(w, "extracted")
      BY <1>5, <2>2 DEF WriteFile, NextFile
    <3>2. todo' = todo /\ wpc[w] # "idle"
      BY <1>5 DEF WriteFile
    <3> QED
      BY <3>1, <3>2
  <2> QED
    BY <2>1, <2>2
<1>6. ASSUME NEW w \in Workers, BuildEntry(w) PROVE OneTaker'
  BY <1>6 DEF BuildEntry
<1>7. ASSUME NEW w \in Workers, WriteFileFails(w) PROVE OneTaker'
  BY <1>7 DEF WriteFileFails
<1>8. ASSUME NEW w \in Workers, SendFails(w) PROVE OneTaker'
  BY <1>8 DEF SendFails
<1>9. CASE ListingFails
  BY <1>9 DEF ListingFails
<1>10. CASE EndAssets
  BY <1>10 DEF EndAssets
<1>11. CASE RebuildLibrary
  BY <1>11 DEF RebuildLibrary
<1>12. CASE WriteLibraryFile
  BY <1>12 DEF WriteLibraryFile
<1>13. CASE BuildLibraryEntry
  BY <1>13 DEF BuildLibraryEntry
<1>14. CASE LibraryFails
  BY <1>14 DEF LibraryFails
<1>15. CASE EndShaders
  BY <1>15 DEF EndShaders
<1>16. ASSUME NEW w \in Workers, Receive(w) PROVE OneTaker'
  <2>1. CASE file[w] < Len(FilesOf[Listed[job[w]]])
    BY <1>16, <2>1 DEF Receive, NextFile
  <2>2. CASE ~(file[w] < Len(FilesOf[Listed[job[w]]]))
    <3>1. EndJob(w, "extracted")
      BY <1>16, <2>2 DEF Receive, NextFile
    <3>2. todo' = todo /\ wpc[w] # "idle"
      BY <1>16 DEF Receive
    <3> QED
      BY <3>1, <3>2
  <2> QED
    BY <2>1, <2>2
<1>17. CASE ReceiveLibrary
  BY <1>17 DEF ReceiveLibrary
<1>18. CASE WriteEntry
  BY <1>18 DEF WriteEntry
<1>19. CASE WriteEntryFails
  BY <1>19 DEF WriteEntryFails
<1>20. CASE Disconnected
  BY <1>20 DEF Disconnected
<1>21. CASE Join
  BY <1>21 DEF Join
<1>22. CASE WriteIndex
  BY <1>22 DEF WriteIndex
<1>23. CASE UNCHANGED vars
  BY <1>23 DEF vars
<1> QED
  BY <1>1, <1>2, <1>3, <1>4, <1>5, <1>6, <1>7, <1>8, <1>9, <1>10, <1>11, <1>12,
     <1>13, <1>14, <1>15, <1>16, <1>17, <1>18, <1>19, <1>20, <1>21, <1>22, <1>23
     DEF Next, Worker, Inner, Main, Returned

LEMMA JobsFinite == IsFiniteSet(Jobs)
<1> DEFINE positions(c) == {c} \X DOMAIN Containers[c]
           all == {positions(c) : c \in DOMAIN Containers}
<1>1. IsFiniteSet(DOMAIN Containers)
  <2>1. Len(Containers) \in Nat /\ DOMAIN Containers = 1..Len(Containers)
    BY LegacyAssumption
  <2> QED
    BY <2>1, FS_Interval
<1>2. IsFiniteSet(all)
  <2>1. [c \in DOMAIN Containers |-> positions(c)] \in Surjection(DOMAIN Containers, all)
    BY DEF Surjection
  <2> QED
    BY <1>1, <2>1, FS_Surjection
<1>3. ASSUME NEW T \in all PROVE IsFiniteSet(T)
  <2>1. PICK c \in DOMAIN Containers : T = {c} \X DOMAIN Containers[c]
    OBVIOUS
  <2>2. Len(Containers[c]) \in Nat /\ DOMAIN Containers[c] = 1..Len(Containers[c])
    BY <2>1, LegacyAssumption
  <2>3. IsFiniteSet({c}) /\ IsFiniteSet(DOMAIN Containers[c])
    <3>1. IsFiniteSet({c})
      BY FS_Singleton
    <3>2. IsFiniteSet(DOMAIN Containers[c])
      BY <2>2, FS_Interval
    <3> QED
      BY <3>1, <3>2
  <2> QED
    BY <2>1, <2>3, FS_Product
<1>4. Jobs = UNION all
  BY DEF Jobs
<1> HIDE DEF all
<1> QED
  BY <1>2, <1>3, <1>4, FS_UNION

\* ... the count of failures ...
LEMMA CountedInductive ==
  ASSUME TypeOK, OneTaker, Counted, [Next]_vars
  PROVE  Counted'
<1>1. ASSUME NEW w \in Workers, wpc[w] # "idle", FailJob(w) PROVE Counted'
  <2>1. job[w] \in Jobs /\ status[job[w]] = "pending" /\ failed \in Nat
    BY <1>1, JobFacts DEF TypeOK, OneTaker
  <2>2. Failures' = Failures \cup {job[w]} /\ job[w] \notin Failures /\ failed' = failed + 1
    BY <1>1, <2>1 DEF Failures, FailJob, EndJob, TypeOK
  <2>3. IsFiniteSet(Failures)
    BY JobsFinite, FS_Subset DEF Failures
  <2> QED
    BY <2>1, <2>2, <2>3, FS_AddElement DEF Counted
<1>2. ASSUME failed' = failed, \A j \in Jobs : status'[j] = "failed" <=> status[j] = "failed"
      PROVE  Counted'
  BY <1>2 DEF Counted, Failures
<1>3. ASSUME NEW w \in Workers, NEW r \in {"extracted", "refused"}, wpc[w] # "idle",
             EndJob(w, r), failed' = failed
      PROVE  Counted'
  <2>1. job[w] \in Jobs /\ status[job[w]] = "pending"
    BY <1>3, JobFacts DEF TypeOK, OneTaker
  <2> QED
    BY <1>2, <1>3, <2>1 DEF EndJob, TypeOK
<1>4. ASSUME NEW w \in Workers, wpc[w] # "idle", NextFile(w), failed' = failed PROVE Counted'
  BY <1>2, <1>3, <1>4 DEF NextFile
<1> QED
  BY <1>1, <1>2, <1>3, <1>4
     DEF Next, Worker, Inner, Main, Returned, vars, StartPackage, RefusePath, BuildPackage,
         BuildFails, WriteFile, BuildEntry, WriteFileFails, SendFails, ListingFails, EndAssets,
         RebuildLibrary, WriteLibraryFile, BuildLibraryEntry, LibraryFails, EndShaders, Receive,
         ReceiveLibrary, WriteEntry, WriteEntryFails, Disconnected, Join, WriteIndex

\* The files of the output only grow, and what the main thread takes it writes,
\* as long as no write fails.
LEMMA HandedSteps ==
  ASSUME TypeOK, Stages, [Next]_vars, Lossless'
  PROVE  /\ Lossless /\ Handed \subseteq Handed'
         /\ \A w \in Workers : WriteFile(w) \/ Receive(w) => FileOf(w) \in Handed'
         /\ WriteLibraryFile \/ ReceiveLibrary => LibraryFile \in Handed'
<1>0. Lossless
  BY DEF Lossless, TypeOK, Stages, Next, Worker, Inner, Main, Returned, vars, StartPackage,
         RefusePath, BuildPackage, BuildFails, WriteFile, BuildEntry, WriteFileFails, SendFails,
         ListingFails, EndAssets, RebuildLibrary, WriteLibraryFile, BuildLibraryEntry,
         LibraryFails, EndShaders, Receive, ReceiveLibrary, WriteEntry, WriteEntryFails,
         Disconnected, Join, WriteIndex
<1>1. ASSUME NEW e \in Entries, files' = Append(files, e), current' = current
      PROVE  Handed \subseteq Handed' /\ e \in Handed'
  BY <1>1, EntryWritten, JobFacts DEF Handed
<1>2. ASSUME NEW e \in Entries, current = None, current' = e, files' = files
      PROVE  Handed \subseteq Handed' /\ e \in Handed'
  BY <1>2, JobFacts DEF Handed, Written
<1>3. ASSUME UNCHANGED <<files, current>> PROVE Handed' = Handed
  BY <1>3 DEF Handed, Written
<1>4. ASSUME NEW w \in Workers, WriteFile(w) PROVE Handed \subseteq Handed' /\ FileOf(w) \in Handed'
  <2>1. /\ job[w] # None /\ wpc[w] # "idle" /\ NextFile(w) /\ current' = current
        /\ files' = Append(files, FileOf(w))
    BY <1>4 DEF WriteFile, TypeOK
  <2> QED
    BY <1>1, <2>1, NextFileType
<1>5. ASSUME NEW w \in Workers, Receive(w) PROVE Handed \subseteq Handed' /\ FileOf(w) \in Handed'
  <2>1. /\ job[w] # None /\ wpc[w] # "idle" /\ NextFile(w) /\ current = None
        /\ current' = FileOf(w) /\ files' = files
    BY <1>5 DEF Receive, TypeOK
  <2> QED
    BY <1>2, <2>1, NextFileType
<1>6. ASSUME WriteLibraryFile PROVE Handed \subseteq Handed' /\ LibraryFile \in Handed'
  <2>1. /\ lpc # "rebuild" /\ NextPart /\ current' = current /\ files' = Append(files, LibraryFile)
    BY <1>6 DEF WriteLibraryFile
  <2> QED
    BY <1>1, <2>1, NextPartType
<1>7. ASSUME ReceiveLibrary PROVE Handed \subseteq Handed' /\ LibraryFile \in Handed'
  <2>1. /\ lpc # "rebuild" /\ NextPart /\ current = None /\ current' = LibraryFile /\ files' = files
    BY <1>7 DEF ReceiveLibrary, TypeOK
  <2> QED
    BY <1>2, <2>1, NextPartType
<1>8. ASSUME WriteEntry PROVE Handed \subseteq Handed'
  <2>1. /\ current \in Entries /\ files' = Append(files, current) /\ main = "write"
    BY <1>8 DEF WriteEntry, TypeOK
  <2> QED
    BY <2>1, EntryWritten, JobFacts DEF Handed
<1>9. ~WriteEntryFails
  BY DEF WriteEntryFails, Lossless
<1>10. \/ \E w \in Workers : WriteFile(w) \/ Receive(w)
       \/ WriteLibraryFile \/ ReceiveLibrary \/ WriteEntry \/ WriteEntryFails
       \/ UNCHANGED <<files, current>>
  BY DEF Next, Worker, Inner, Main, Returned, vars, StartPackage, RefusePath, BuildPackage,
         BuildFails, BuildEntry, WriteFileFails, SendFails, ListingFails, EndAssets,
         RebuildLibrary, BuildLibraryEntry, LibraryFails, EndShaders, Disconnected, Join, WriteIndex
<1> QED
  BY <1>0, <1>3, <1>4, <1>5, <1>6, <1>7, <1>8, <1>9, <1>10

\* One file more of x is handed over, and then all of them.
LEMMA FirstHandedNext ==
  ASSUME NEW x \in DOMAIN FilesOf, NEW n \in DOMAIN FilesOf[x], NEW H, NEW G,
         H \subseteq G, FirstHanded(H, x, n - 1), <<x, FilesOf[x][n]>> \in G
  PROVE  /\ FirstHanded(G, x, n)
         /\ n = Len(FilesOf[x]) => AllFiles(x) \subseteq G
<1>1. DOMAIN FilesOf[x] = 1..Len(FilesOf[x]) /\ Len(FilesOf[x]) \in Nat
  BY FileFacts
<1>2. FirstHanded(G, x, n)
  BY <1>1 DEF FirstHanded
<1> QED
  BY <1>1, <1>2 DEF FirstHanded, AllFiles

LEMMA FirstHandedGrows ==
  ASSUME NEW x, NEW n, NEW H, NEW G, H \subseteq G, FirstHanded(H, x, n)
  PROVE  FirstHanded(G, x, n)
BY DEF FirstHanded

\* ... what is handed over of the packages in work and of those that are finished ...
LEMMA PackagesHanded ==
  ASSUME TypeOK, Stages, OneTaker, HandedSoFar, [Next]_vars, Lossless'
  PROVE  /\ \A w \in Workers : job'[w] # None => FirstHanded(Handed', Listed[job'[w]], file'[w] - 1)
         /\ \A j \in Jobs : status'[j] = "extracted" => AllFiles(Listed[j]) \subseteq Handed'
<1> DEFINE Goal == /\ \A w \in Workers : job'[w] # None => FirstHanded(Handed', Listed[job'[w]], file'[w] - 1)
                   /\ \A j \in Jobs : status'[j] = "extracted" => AllFiles(Listed[j]) \subseteq Handed'
<1>0. /\ Lossless /\ Handed \subseteq Handed'
      /\ \A w \in Workers : WriteFile(w) \/ Receive(w) => FileOf(w) \in Handed'
  BY HandedSteps
<1>. /\ \A w \in Workers : job[w] # None => FirstHanded(Handed', Listed[job[w]], file[w] - 1)
     /\ \A j \in Jobs : status[j] = "extracted" => AllFiles(Listed[j]) \subseteq Handed'
  BY <1>0, FirstHandedGrows DEF HandedSoFar
<1>. /\ job \in [Workers -> Jobs \cup {None}] /\ file \in [Workers -> Nat \ {0}]
     /\ status \in [Jobs -> {"pending", "extracted", "failed", "refused"}]
     /\ \A w \in Workers : job[w] = None <=> wpc[w] = "idle"
     /\ \A w \in Workers : job[w] # None => file[w] \in DOMAIN FilesOf[Listed[job[w]]]
  BY DEF TypeOK
<1>1. ASSUME NEW w \in Workers, NEW j \in todo, StartPackage(w, j) PROVE Goal
  <2>1. /\ job' = [job EXCEPT ![w] = j] /\ file' = [file EXCEPT ![w] = 1] /\ status' = status
        /\ j \in Jobs
    BY <1>1 DEF StartPackage, TypeOK
  <2>2. FirstHanded(Handed', Listed[j], 1 - 1)
    <3>1. DOMAIN FilesOf[Listed[j]] = 1..Len(FilesOf[Listed[j]])
      BY <2>1, JobFacts, FileFacts
    <3> QED
      BY <3>1 DEF FirstHanded
  <2> QED
    BY <2>1, <2>2
<1>2. ASSUME NEW w \in Workers, NEW r \in {"failed", "refused"}, EndJob(w, r), UNCHANGED file
      PROVE  Goal
  BY <1>2 DEF EndJob
<1>3. ASSUME NEW w \in Workers, WriteFile(w) \/ Receive(w) PROVE Goal
  <2> DEFINE x == Listed[job[w]]
  <2>1. /\ job[w] \in Jobs /\ x \in DOMAIN FilesOf /\ file[w] \in DOMAIN FilesOf[x]
        /\ NextFile(w) /\ <<x, FilesOf[x][file[w]]>> \in Handed'
    BY <1>0, <1>3, JobFacts DEF WriteFile, Receive, FileOf
  <2>2. /\ FirstHanded(Handed', x, file[w])
        /\ file[w] = Len(FilesOf[x]) => AllFiles(x) \subseteq Handed'
    <3>1. FirstHanded(Handed', x, file[w] - 1)
      BY <2>1, JobFacts
    <3> HIDE DEF x
    <3> QED
      BY <2>1, <3>1, FirstHandedNext
  <2>3. CASE file[w] < Len(FilesOf[x])
    <3>1. file' = [file EXCEPT ![w] = @ + 1] /\ job' = job /\ status' = status
      BY <2>1, <2>3 DEF NextFile
    <3>2. file'[w] - 1 = file[w]
      BY <3>1
    <3>3. ASSUME NEW v \in Workers, job[v] # None
          PROVE  FirstHanded(Handed', Listed[job[v]], file'[v] - 1)
      BY <2>2, <3>1, <3>2, <3>3
    <3> QED
      BY <3>1, <3>3
  <2>4. CASE ~(file[w] < Len(FilesOf[x]))
    <3>1. file[w] = Len(FilesOf[x])
      BY <2>1, <2>4, FileFacts
    <3>2. EndJob(w, "extracted") /\ file' = file
      BY <2>1, <2>4 DEF NextFile
    <3> QED
      BY <2>1, <2>2, <3>1, <3>2 DEF EndJob
  <2> QED
    BY <2>3, <2>4
<1>4. ASSUME UNCHANGED <<job, file, status>> PROVE Goal
  BY <1>4
<1> HIDE DEF Goal
<1>5. Goal
  BY <1>1, <1>2, <1>3, <1>4
     DEF Next, Worker, Inner, Main, Returned, vars, StartPackage, RefusePath, BuildPackage,
         BuildFails, BuildEntry, WriteFileFails, SendFails, FailJob, ListingFails, EndAssets,
         RebuildLibrary, WriteLibraryFile, BuildLibraryEntry, LibraryFails, EndShaders,
         ReceiveLibrary, WriteEntry, WriteEntryFails, Disconnected, Join, WriteIndex
<1> QED
  BY <1>5 DEF Goal

\* ... and of the libraries ...
LEMMA LibrariesHanded ==
  ASSUME TypeOK, Stages, HandedSoFar, [Next]_vars, Lossless'
  PROVE  /\ \A i \in DOMAIN Libraries : i < library' => AllFiles(Libraries[i]) \subseteq Handed'
         /\ library' <= Len(Libraries) => FirstHanded(Handed', Libraries[library'], part' - 1)
<1>0. /\ Lossless /\ Handed \subseteq Handed'
      /\ WriteLibraryFile \/ ReceiveLibrary => LibraryFile \in Handed'
  BY HandedSteps
<1>. /\ \A i \in DOMAIN Libraries : i < library => AllFiles(Libraries[i]) \subseteq Handed'
     /\ library <= Len(Libraries) => FirstHanded(Handed', Libraries[library], part - 1)
  BY <1>0, FirstHandedGrows DEF HandedSoFar
<1>1. CASE WriteLibraryFile \/ ReceiveLibrary
  <2> DEFINE x == Libraries[library]
  <2>1. /\ library \in DOMAIN Libraries /\ x \in DOMAIN FilesOf /\ part \in DOMAIN FilesOf[x]
        /\ NextPart /\ <<x, FilesOf[x][part]>> \in Handed'
        /\ library \in 1..Len(Libraries) /\ Len(Libraries) \in Nat
    <3>1. lpc # "rebuild" /\ NextPart
      BY <1>1 DEF WriteLibraryFile, ReceiveLibrary
    <3>2. library \in 1..Len(Libraries) /\ part \in DOMAIN FilesOf[x]
      BY <3>1, JobFacts DEF TypeOK
    <3>3. LibraryFile = <<x, FilesOf[x][part]>>
      BY DEF LibraryFile
    <3> QED
      BY <1>0, <1>1, <3>1, <3>2, <3>3, JobFacts
  <2>2. /\ FirstHanded(Handed', x, part)
        /\ part = Len(FilesOf[x]) => AllFiles(x) \subseteq Handed'
    <3>1. FirstHanded(Handed', x, part - 1)
      BY <2>1
    <3> HIDE DEF x
    <3> QED
      BY <2>1, <3>1, FirstHandedNext
  <2>3. CASE part < Len(FilesOf[x])
    <3>1. part' = part + 1 /\ library' = library /\ part' - 1 = part
      BY <2>1, <2>3, FileFacts DEF NextPart
    <3> QED
      BY <2>2, <3>1
  <2>4. CASE ~(part < Len(FilesOf[x]))
    <3>1. part = Len(FilesOf[x]) /\ part' = 1 /\ library' = library + 1
      BY <2>1, <2>4, FileFacts DEF NextPart
    <3>2. library' <= Len(Libraries) => FirstHanded(Handed', Libraries[library'], part' - 1)
      <4>1. ASSUME library + 1 <= Len(Libraries)
            PROVE  DOMAIN FilesOf[Libraries[library + 1]] = 1..Len(FilesOf[Libraries[library + 1]])
        BY <2>1, <4>1, JobFacts, FileFacts
      <4> QED
        BY <3>1, <4>1 DEF FirstHanded
    <3>3. ASSUME NEW i \in DOMAIN Libraries, i < library' PROVE AllFiles(Libraries[i]) \subseteq Handed'
      <4>1. i < library \/ i = library
        BY <2>1, <3>1, <3>3, JobFacts
      <4> QED
        BY <2>2, <3>1, <4>1
    <3> QED
      BY <3>2, <3>3
  <2> QED
    BY <2>3, <2>4
<1>2. CASE UNCHANGED <<library, part>>
  BY <1>2
<1> QED
  BY <1>1, <1>2
     DEF Next, Worker, Inner, Main, Returned, vars, StartPackage, RefusePath, BuildPackage,
         BuildFails, WriteFile, BuildEntry, WriteFileFails, SendFails, ListingFails, EndAssets,
         RebuildLibrary, BuildLibraryEntry, LibraryFails, EndShaders, Receive,
         WriteEntry, WriteEntryFails, Disconnected, Join, WriteIndex

LEMMA HandedInductive ==
  ASSUME TypeOK, Stages, OneTaker, HandedSoFar, [Next]_vars
  PROVE  HandedSoFar'
BY PackagesHanded, LibrariesHanded DEF HandedSoFar

\* ... the entry that the main thread writes next ...
LEMMA InSequenceInductive ==
  ASSUME TypeOK, Stages, HandedSoFar, InSequence, [Next]_vars
  PROVE  InSequence'
<1>1. ASSUME NEW x \in DOMAIN FilesOf, NEW n \in DOMAIN FilesOf[x], main = "receive", files' = files,
             current' = <<x, FilesOf[x][n]>>, FirstHanded(Handed, x, n - 1)
      PROVE  InSequence'
  <2>1. Handed = Written /\ Written' = Written
    <3>1. current = None /\ files \in Seq(Entries)
      BY <1>1 DEF TypeOK
    <3>2. None \notin Written
      BY <3>1, JobFacts DEF Written
    <3> QED
      BY <1>1, <3>1, <3>2 DEF Handed, Written
  <2>2. FirstHanded(Written', x, n - 1)
    BY <1>1, <2>1
  <2> QED
    BY <1>1, <2>2 DEF InSequence
<1>2. main = "receive" => Lossless
  BY DEF Lossless, Stages
<1>3. ASSUME NEW w \in Workers, Receive(w) PROVE InSequence'
  <2>1. /\ main = "receive" /\ files' = files /\ job[w] # None /\ job[w] \in Jobs
        /\ current' = <<Listed[job[w]], FilesOf[Listed[job[w]]][file[w]]>>
        /\ file[w] \in DOMAIN FilesOf[Listed[job[w]]]
    BY <1>3 DEF Receive, FileOf, TypeOK
  <2> QED
    BY <1>1, <1>2, <2>1, JobFacts DEF HandedSoFar
<1>4. CASE ReceiveLibrary
  <2>1. /\ main = "receive" /\ files' = files /\ library \in DOMAIN Libraries
        /\ library <= Len(Libraries)
        /\ current' = <<Libraries[library], FilesOf[Libraries[library]][part]>>
        /\ part \in DOMAIN FilesOf[Libraries[library]]
    BY <1>4, JobFacts DEF ReceiveLibrary, LibraryFile, TypeOK
  <2> QED
    BY <1>1, <1>2, <2>1, JobFacts DEF HandedSoFar
<1>5. CASE main' # "write"
  BY <1>5 DEF InSequence
<1>6. CASE UNCHANGED <<main, current, files>>
  BY <1>6 DEF InSequence, Written
<1>7. \/ \E w \in Workers : Receive(w)
      \/ ReceiveLibrary \/ main' # "write" \/ UNCHANGED <<main, current, files>>
  BY DEF Next, Worker, Inner, Main, Returned, vars, StartPackage, RefusePath, BuildPackage,
         BuildFails, WriteFile, BuildEntry, WriteFileFails, SendFails, ListingFails, EndAssets,
         RebuildLibrary, WriteLibraryFile, BuildLibraryEntry, LibraryFails, EndShaders,
         WriteEntry, WriteEntryFails, Disconnected, Join, WriteIndex, Stages
<1> QED
  BY <1>3, <1>4, <1>5, <1>6, <1>7

\* ... and the order of the files.
LEMMA NoOrphanInductive ==
  ASSUME TypeOK, Stages, HandedSoFar, InSequence, NoOrphanFiles, [Next]_vars
  PROVE  NoOrphanFiles'
<1>1. ASSUME NEW x \in DOMAIN FilesOf, NEW n \in DOMAIN FilesOf[x],
             files' = Append(files, <<x, FilesOf[x][n]>>), FirstHanded(Written, x, n - 1)
      PROVE  NoOrphanFiles'
  <2>1. /\ Len(files) \in Nat /\ DOMAIN files = 1..Len(files)
        /\ DOMAIN files' = 1..(Len(files) + 1)
        /\ files'[Len(files) + 1] = <<x, FilesOf[x][n]>>
        /\ \A i \in 1..Len(files) : files'[i] = files[i]
    BY <1>1, EntryWritten, FileFacts
  <2> SUFFICES ASSUME NEW i \in DOMAIN files', NEW c \in DOMAIN FilesOf[files'[i][1]],
                      FilesOf[files'[i][1]][c] = files'[i][2], NEW m \in 1..(c - 1)
               PROVE  \E h \in 1..(i - 1) : files'[h] = <<files'[i][1], FilesOf[files'[i][1]][m]>>
    BY DEF NoOrphanFiles
  <2>2. CASE i \in 1..Len(files)
    <3>1. files'[i] = files[i]
      BY <2>1, <2>2
    <3>2. /\ i \in DOMAIN files /\ c \in DOMAIN FilesOf[files[i][1]]
          /\ FilesOf[files[i][1]][c] = files[i][2]
      BY <2>1, <2>2, <3>1
    <3>3. PICK h \in 1..(i - 1) : files[h] = <<files[i][1], FilesOf[files[i][1]][m]>>
      BY <3>2 DEF NoOrphanFiles
    <3>4. files'[h] = files[h]
      BY <2>1, <2>2, <3>3
    <3> QED
      BY <3>1, <3>3, <3>4
  <2>3. CASE i = Len(files) + 1
    <3>1. files'[i][1] = x /\ files'[i][2] = FilesOf[x][n]
      BY <2>1, <2>3
    <3>2. c = n /\ DOMAIN FilesOf[x] = 1..Len(FilesOf[x]) /\ Len(FilesOf[x]) \in Nat
      BY <3>1, FileFacts
    <3>3. <<x, FilesOf[x][m]>> \in Written
      <4>1. m \in DOMAIN FilesOf[x] /\ m <= n - 1
        BY <3>2
      <4> QED
        BY <1>1, <4>1 DEF FirstHanded
    <3>4. PICK h \in 1..Len(files) : files[h] = <<x, FilesOf[x][m]>>
      BY <2>1, <3>3 DEF Written
    <3> QED
      BY <2>1, <2>3, <3>1, <3>4
  <2> QED
    BY <2>1, <2>2, <2>3
<1>2. ASSUME stage \in {"assets", "shaders"}, sink = "directory" PROVE Lossless /\ Handed = Written
  <2>1. main = "join" /\ Lossless
    BY <1>2 DEF Lossless, Stages, TypeOK
  <2>2. current = None /\ files \in Seq(Entries)
    BY <2>1 DEF TypeOK
  <2>3. None \notin Written
    BY <2>2, JobFacts DEF Written
  <2> QED
    BY <2>1, <2>2, <2>3 DEF Handed
<1>3. ASSUME NEW w \in Workers, WriteFile(w) PROVE NoOrphanFiles'
  <2>1. /\ job[w] # None /\ job[w] \in Jobs /\ sink = "directory" /\ stage = "assets"
        /\ file[w] \in DOMAIN FilesOf[Listed[job[w]]]
        /\ files' = Append(files, <<Listed[job[w]], FilesOf[Listed[job[w]]][file[w]]>>)
    BY <1>3 DEF WriteFile, FileOf, TypeOK, Stages
  <2> QED
    BY <1>1, <1>2, <2>1, JobFacts DEF HandedSoFar
<1>4. CASE WriteLibraryFile
  <2>1. /\ sink = "directory" /\ stage = "shaders" /\ library \in DOMAIN Libraries
        /\ library <= Len(Libraries) /\ part \in DOMAIN FilesOf[Libraries[library]]
        /\ files' = Append(files, <<Libraries[library], FilesOf[Libraries[library]][part]>>)
    BY <1>4, JobFacts DEF WriteLibraryFile, LibraryFile, TypeOK
  <2> QED
    BY <1>1, <1>2, <2>1, JobFacts DEF HandedSoFar
<1>5. CASE WriteEntry
  <2>1. PICK x \in DOMAIN FilesOf : \E n \in DOMAIN FilesOf[x] :
          current = <<x, FilesOf[x][n]>> /\ FirstHanded(Written, x, n - 1)
    BY <1>5 DEF WriteEntry, InSequence
  <2> QED
    BY <1>1, <1>5, <2>1 DEF WriteEntry
<1>6. CASE files' = files
  BY <1>6 DEF NoOrphanFiles
<1> QED
  BY <1>3, <1>4, <1>5, <1>6
     DEF Next, Worker, Inner, Main, Returned, vars, StartPackage, RefusePath, BuildPackage,
         BuildFails, BuildEntry, WriteFileFails, SendFails, ListingFails, EndAssets,
         RebuildLibrary, BuildLibraryEntry, LibraryFails, EndShaders, Receive, ReceiveLibrary,
         WriteEntryFails, Disconnected, Join, WriteIndex

\* The invariant holds before the first package is taken.
LEMMA InitEstablishes ==
  ASSUME Init
  PROVE  IInv
<1> USE JobFacts DEF Init
<1>1. TypeOK
  <2>1. /\ wpc \in [Workers -> {"idle", "build", "write", "send"}]
        /\ job \in [Workers -> Jobs \cup {None}]
        /\ file \in [Workers -> Nat \ {0}]
        /\ status \in [Jobs -> {"pending", "extracted", "failed", "refused"}]
        /\ \A w \in Workers : job[w] = None /\ wpc[w] = "idle"
    OBVIOUS
  <2>2. files \in Seq(Entries)
    OBVIOUS
  <2>3. rxOpen \in BOOLEAN /\ indexed \in BOOLEAN
    BY Zenon
  <2>4. library \in 1..(Len(Libraries) + 1) /\ part \in Nat \ {0} /\ failed \in Nat
    OBVIOUS
  <2>5. /\ sink \in {"pak", "directory"} /\ asked \in (SUBSET {"assets", "shaders"}) \ {{}}
        /\ todo = Jobs /\ stage \in {"assets", "shaders"} /\ lpc = "rebuild" /\ part = 1
        /\ main \in {"receive", "join"} /\ current = None /\ outcome = "running"
    OBVIOUS
  <2> HIDE DEF Init
  <2> QED
    BY <2>1, <2>2, <2>3, <2>4, <2>5 DEF TypeOK
<1>2. Stages
  BY DEF Stages
<1>3. OneTaker
  BY DEF OneTaker
<1>4. Counted
  <2>1. Failures = {}
    BY DEF Failures
  <2> QED
    BY <2>1, FS_EmptySet DEF Counted
<1>5. HandedSoFar
  <2>1. ASSUME NEW i \in DOMAIN Libraries PROVE ~(i < 1)
    BY <2>1
  <2>2. ASSUME 1 <= Len(Libraries) PROVE FirstHanded(Handed, Libraries[1], 1 - 1)
    BY <2>2, FileFacts DEF FirstHanded
  <2> QED
    BY <2>1, <2>2 DEF HandedSoFar
<1>6. InSequence
  BY DEF InSequence
<1>7. NoOrphanFiles
  BY DEF NoOrphanFiles
<1> QED
  BY <1>1, <1>2, <1>3, <1>4, <1>5, <1>6, <1>7 DEF IInv

-----------------------------------------------------------------------------
(* The theorems.                                                           *)

\* The invariant holds in every state of the command.
THEOREM CommandSafety == Spec => []IInv
<1>1. Init => IInv
  BY InitEstablishes
<1>2. IInv /\ [Next]_vars => IInv'
  BY TypesInductive, StagesInductive, OneTakerInductive, CountedInductive, HandedInductive,
     InSequenceInductive, NoOrphanInductive
     DEF IInv
<1> QED
  BY <1>1, <1>2, PTL DEF Spec

\* The variables of the to-legacy command have their types.
THEOREM TypeCorrect == Spec => []TypeOK
BY CommandSafety, PTL DEF IInv

\* No file of a package or of a library is written before those that come before
\* it, whatever fails.
THEOREM FilesInOrder == Spec => []NoOrphanFiles
BY CommandSafety, PTL DEF IInv

\* A command that reports success has written all files of the libraries it was
\* asked for and of the packages that it does not count as failed, so of all
\* packages if it counts none; the .pak has its index exactly then, and the
\* failures are counted.
THEOREM SuccessIsComplete == Spec => []CompleteWhenOk
<1>1. IInv => CompleteWhenOk
  <2> SUFFICES ASSUME IInv PROVE CompleteWhenOk
    OBVIOUS
  <2>1. ASSUME outcome = "ok"
        PROVE  /\ main = "done" /\ stage = "ok" /\ Lossless
               /\ Handed \subseteq Written
    <3>1. main = "done" /\ stage = "ok" /\ Lossless
      BY <2>1 DEF IInv, Stages, Lossless
    <3> QED
      BY <3>1 DEF IInv, TypeOK, Handed
  <2>2. ASSUME outcome = "ok", "shaders" \in asked, NEW i \in DOMAIN Libraries
        PROVE  AllFiles(Libraries[i]) \subseteq Written
    <3>1. i < library
      BY <2>1, <2>2, JobFacts DEF IInv, Stages
    <3> QED
      BY <2>1, <2>2, <3>1 DEF IInv, HandedSoFar
  <2>3. failed = Cardinality(Failures)
    BY DEF IInv, Counted
  <2>4. ASSUME outcome = "ok", "assets" \in asked, NEW j \in Jobs, status[j] # "failed"
        PROVE  AllFiles(Listed[j]) \subseteq Written
    <3>1. todo = {} /\ status[j] # "refused" /\ \A w \in Workers : job[w] = None
      BY <2>1, <2>4 DEF IInv, Stages, TypeOK
    <3>2. status[j] # "pending"
      BY <3>1, JobFacts DEF IInv, OneTaker
    <3>3. status[j] = "extracted"
      BY <2>4, <3>1, <3>2 DEF IInv, TypeOK
    <3> QED
      BY <2>1, <2>4, <3>3 DEF IInv, HandedSoFar
  <2>5. ASSUME NEW j \in Jobs, status[j] = "failed"
        PROVE  failed > 0
    <3>1. IsFiniteSet(Failures)
      BY JobsFinite, FS_Subset DEF Failures
    <3>2. j \in Failures
      BY <2>5 DEF Failures
    <3>3. Cardinality(Failures) \in Nat /\ Cardinality(Failures) # 0
      BY <3>1, <3>2, FS_CardinalityType, FS_EmptySet
    <3> QED
      BY <2>3, <3>3
  <2>6. indexed <=> outcome = "ok" /\ sink = "pak"
    BY DEF IInv, Stages
  <2>7. outcome = "ok" /\ "assets" \in asked =>
          \A j \in Jobs : \/ AllFiles(Listed[j]) \subseteq Written
                          \/ status[j] = "failed" /\ failed > 0
    BY <2>4, <2>5
  <2>8. failed = Cardinality({j \in Jobs : status[j] = "failed"})
    BY <2>3 DEF Failures
  <2> QED
    BY <2>2, <2>6, <2>7, <2>8, Zenon DEF CompleteWhenOk
<1> QED
  BY <1>1, CommandSafety, PTL
=============================================================================
