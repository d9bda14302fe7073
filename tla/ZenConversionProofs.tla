------------------------ MODULE ZenConversionProofs ------------------------
(***************************************************************************)
(* Proofs about ZenConversion, for any workers, assets, packages, imports  *)
(* and bulk data files, with two assets of one package or without.         *)
(***************************************************************************)
EXTENDS ZenConversion, FiniteSetTheorems, TLAPS

-----------------------------------------------------------------------------
(* Lists.                                                                  *)

In(s, x) == \E i \in DOMAIN s : s[i] = x
Distinct(s) == \A i, j \in DOMAIN s : s[i] = s[j] => i = j

\* a is the last of the first n assets of the list that have the package p;
\* None if there is none.
LastOf(s, n, p, a) ==
  \/ a = None /\ \A i \in DOMAIN s : i <= n => PackageOf[s[i]] # p
  \/ \E i \in DOMAIN s :
       /\ i <= n /\ a = s[i] /\ PackageOf[s[i]] = p
       /\ \A j \in DOMAIN s : i < j /\ j <= n => PackageOf[s[j]] # p

\* The chunk is the package data of an asset with the package p.
HasData(chunk, p) == chunk[1] = "package" /\ PackageOf[chunk[2]] = p

\* a is the asset of the last package data for p in the list of chunks.
LastData(s, p, a) ==
  \/ a = None /\ \A i \in DOMAIN s : ~HasData(s[i], p)
  \/ \E i \in DOMAIN s :
       /\ a = s[i][2] /\ HasData(s[i], p)
       /\ \A j \in DOMAIN s : i < j => ~HasData(s[j], p)

-----------------------------------------------------------------------------
(* The inductive invariant.                                                *)

\* No write and no fixup has failed, so that the container may still be published.
Going == cpc # "failed" /\ outcome # "error"

\* The assets the main thread is through with, but for the package data of the
\* fixup, which is written later.
Done ==
  {a \in Assets : IF fixup THEN In(converted, a)
                  ELSE In(toc, <<"package", a>>) /\ a # current}

\* How far the list of kept bundles has been written, and fixed up.
Flushed ==
  IF cpc = "flush" THEN k - 1
  ELSE IF cpc \in {"join", "finalize", "done"} THEN Len(converted) ELSE 0

Fixed == IF cpc = "fix" THEN k - 1 ELSE Len(converted)

\* The stages of the command: what has ended when the main thread goes on.
Stages ==
  /\ ~fixup => converted = <<>>
  /\ cpc = "package" => ~fixup
  /\ cpc \in {"fix", "flush"} => fixup /\ k <= Len(converted) + 1
  /\ cpc \in {"fix", "flush", "join", "finalize", "done"} => ~txOpen
  /\ ~txOpen => /\ \A w \in Workers : wpc[w] = "idle"
                /\ todo = {} \/ producerFailed
  /\ cpc = "finalize" \/ outcome = "ok" => ~producerFailed
  /\ outcome = "running" <=> cpc # "done"
  /\ finalized <=> outcome = "ok"

\* An asset is in one place at a time ...
OnePlace ==
  /\ \A w \in Workers : item[w] \notin todo
  /\ \A v, w \in Workers : item[v] = item[w] /\ item[v] # None => v = w
  /\ current \notin todo
  /\ current # None => \A w \in Workers : item[w] # current
  /\ \A a \in Assets : a \in Done =>
       a \notin todo /\ a # current /\ \A w \in Workers : item[w] # a
  /\ Distinct(converted)

\* ... and in none only after an error.
NoneLost ==
  ~producerFailed /\ Going =>
    \A a \in Assets : \/ a \in todo \/ a = current \/ a \in Done
                      \/ \E w \in Workers : item[w] = a

\* No chunk is written twice, and the header is the last one.
WrittenOnce ==
  Going => Distinct(toc) /\ (In(toc, <<"header", None>>) <=> finalized)

\* The bulk data that is written: all of a finished asset's, none of another one's
\* but what came before the write of the asset in work.
BulkWritten ==
  Going =>
    \A a \in Assets : \A i \in DOMAIN BulkKinds[a] :
      In(toc, <<BulkKinds[a][i], a>>)
        <=> a \in Done \/ (a = current /\ cpc = "bulk" /\ i < k)

\* Without fixup the package data is written before the bulk data ...
PackageFirst ==
  Going /\ ~fixup /\ current # None =>
    (In(toc, <<"package", current>>) <=> cpc = "bulk")

\* ... and otherwise at the end, in the order of the kept bundles.
PackagesFlushed ==
  Going /\ fixup =>
    \A a \in Assets :
      In(toc, <<"package", a>>)
        <=> \E i \in DOMAIN converted : converted[i] = a /\ i <= Flushed

WrittenSoFar == WrittenOnce /\ BulkWritten /\ PackageFirst /\ PackagesFlushed

\* The store entries are those of the last package data, and so is the lookup of
\* the fixup once everything is written.
LastWins ==
  /\ Going => \A p \in Packages : LastData(toc, p, entry[p])
  /\ fixup => \A p \in Packages : LastOf(converted, Len(converted), p, lookup[p])
  /\ fixup /\ Going => \A p \in Packages : LastOf(converted, Flushed, p, entry[p])

\* The arcs that have been fixed up.
FixedSoFar ==
  fixup /\ cpc \in {"fix", "flush", "join", "finalize", "done"} /\ Going =>
    \A i \in DOMAIN converted : i <= Fixed =>
      arcs[converted[i]] = [p \in Imports[converted[i]] |-> Resolve(p)]

\* Bulk data is in memory only for assets in work.
LoadedInWork == loaded \subseteq {item[w] : w \in Workers} \cup {current}

IInv ==
  /\ TypeOK /\ Stages /\ OnePlace /\ NoneLost /\ WrittenSoFar /\ LastWins
  /\ FixedSoFar /\ LoadedInWork

-----------------------------------------------------------------------------
(* Lemmas about lists.                                                     *)

\* A list of elements of S, with one more.
LEMMA AppendType ==
  ASSUME NEW S, NEW s \in Seq(S), NEW e \in S
  PROVE  Append(s, e) \in Seq(S)
OBVIOUS

\* What is in a list with one more element, and when it is without repetitions.
LEMMA InAppend ==
  ASSUME NEW S, NEW s \in Seq(S), NEW e \in S
  PROVE  /\ \A x : In(Append(s, e), x) <=> In(s, x) \/ x = e
         /\ Distinct(s) /\ ~In(s, e) => Distinct(Append(s, e))
<1> DEFINE t == Append(s, e)
<1>1. /\ t \in Seq(S) /\ Len(s) \in Nat
      /\ DOMAIN s = 1..Len(s) /\ DOMAIN t = 1..(Len(s) + 1)
      /\ \A i \in 1..Len(s) : t[i] = s[i]
      /\ t[Len(s) + 1] = e
  OBVIOUS
<1> HIDE DEF t
<1>2. \A x : In(t, x) <=> In(s, x) \/ x = e
  BY <1>1 DEF In
<1>3. ASSUME Distinct(s), ~In(s, e) PROVE Distinct(t)
  BY <1>1, <1>3 DEF In, Distinct
<1> QED
  BY <1>2, <1>3 DEF t

\* One more element is the last of its package.
LEMMA LastOfAppend ==
  ASSUME NEW s \in Seq(Assets), NEW e \in Assets, NEW p, NEW a
  PROVE  /\ PackageOf[e] = p => LastOf(Append(s, e), Len(Append(s, e)), p, e)
         /\ PackageOf[e] # p /\ LastOf(s, Len(s), p, a)
              => LastOf(Append(s, e), Len(Append(s, e)), p, a)
<1> DEFINE t == Append(s, e)
<1>1. /\ t \in Seq(Assets) /\ Len(s) \in Nat /\ Len(t) = Len(s) + 1
      /\ DOMAIN s = 1..Len(s) /\ DOMAIN t = 1..(Len(s) + 1)
      /\ \A i \in 1..Len(s) : t[i] = s[i]
      /\ t[Len(s) + 1] = e
  OBVIOUS
<1> HIDE DEF t
<1>2. PackageOf[e] = p => LastOf(t, Len(t), p, e)
  BY <1>1 DEF LastOf
<1>3. PackageOf[e] # p /\ LastOf(s, Len(s), p, a) => LastOf(t, Len(t), p, a)
  BY <1>1 DEF LastOf
<1> QED
  BY <1>2, <1>3 DEF t

\* The same for the next element of a list that is gone through.
LEMMA LastOfNext ==
  ASSUME NEW s \in Seq(Assets), NEW n \in Nat, n + 1 \in DOMAIN s, NEW p, NEW a
  PROVE  /\ PackageOf[s[n + 1]] = p => LastOf(s, n + 1, p, s[n + 1])
         /\ PackageOf[s[n + 1]] # p /\ LastOf(s, n, p, a) => LastOf(s, n + 1, p, a)
<1>1. Len(s) \in Nat /\ DOMAIN s = 1..Len(s)
  OBVIOUS
<1> QED
  BY <1>1 DEF LastOf

\* There is only one last asset.
LEMMA LastOfUnique ==
  ASSUME NEW s \in Seq(Assets), NEW n \in Nat, NEW p, NEW a, NEW b,
         LastOf(s, n, p, a), LastOf(s, n, p, b)
  PROVE  a = b
<1>1. Len(s) \in Nat /\ DOMAIN s = 1..Len(s)
  OBVIOUS
<1> QED
  BY <1>1 DEF LastOf

\* Package data at the end of the chunks is the last of its package; other
\* chunks do not count.
LEMMA LastDataAppend ==
  ASSUME NEW S, NEW s \in Seq(S), NEW c \in S, NEW p, NEW a
  PROVE  /\ HasData(c, p) => LastData(Append(s, c), p, c[2])
         /\ ~HasData(c, p) /\ LastData(s, p, a) => LastData(Append(s, c), p, a)
<1> DEFINE t == Append(s, c)
<1>1. /\ t \in Seq(S) /\ Len(s) \in Nat
      /\ DOMAIN s = 1..Len(s) /\ DOMAIN t = 1..(Len(s) + 1)
      /\ \A i \in 1..Len(s) : t[i] = s[i]
      /\ t[Len(s) + 1] = c
  OBVIOUS
<1> HIDE DEF t
<1>2. HasData(c, p) => LastData(t, p, c[2])
  BY <1>1 DEF LastData
<1>3. ~HasData(c, p) /\ LastData(s, p, a) => LastData(t, p, a)
  BY <1>1 DEF LastData
<1> QED
  BY <1>2, <1>3 DEF t
-----------------------------------------------------------------------------
(* The invariant is inductive.                                             *)

USE DEF producerVars, containerVars, fixupVars

\* What the assumption says of packages, and of bulk data.
LEMMA PackageFacts ==
  /\ None \notin Assets
  /\ PackageOf \in [Assets -> Packages]
  /\ \A a \in Assets : Imports[a] \subseteq Packages
BY ConversionAssumption

LEMMA BulkFacts ==
  ASSUME NEW a \in Assets
  PROVE  /\ Len(BulkKinds[a]) \in Nat /\ DOMAIN BulkKinds[a] = 1..Len(BulkKinds[a])
         /\ \A i \in DOMAIN BulkKinds[a] :
              /\ BulkKinds[a][i] \in ChunkKinds /\ BulkKinds[a][i] # "package"
              /\ \A j \in DOMAIN BulkKinds[a] : BulkKinds[a][i] = BulkKinds[a][j] => i = j
<1>1. BulkKinds[a] \in Seq(BulkFiles)
  BY ConversionAssumption
<1>2. \A i \in DOMAIN BulkKinds[a] :
        BulkKinds[a][i] \in ChunkKinds /\ BulkKinds[a][i] # "package"
  BY <1>1 DEF BulkFiles, ChunkKinds
<1> QED
  BY <1>1, <1>2, ConversionAssumption

\* The parts of the invariant, each preserved by every step: the types ...
LEMMA TypesInductive ==
  ASSUME TypeOK, Stages, [Next]_vars
  PROVE  TypeOK'
<1> USE PackageFacts DEF TypeOK, Stages, Release
<1>0. ASSUME NEW kind \in ChunkKinds, NEW a \in Assets \cup {None}
      PROVE  Append(toc, <<kind, a>>) \in Seq(ChunkKinds \X (Assets \cup {None}))
  BY AppendType
<1>. "package" \in ChunkKinds /\ "header" \in ChunkKinds
  BY DEF ChunkKinds
<1>1. ASSUME NEW w \in Workers, NEW a \in Assets, StartAsset(w, a) PROVE TypeOK'
  BY <1>1 DEF StartAsset
<1>2. ASSUME NEW w \in Workers, ConvertAsset(w) PROVE TypeOK'
  BY <1>2 DEF ConvertAsset
<1>3. ASSUME NEW w \in Workers, ConvertFails(w) PROVE TypeOK'
  BY <1>3 DEF ConvertFails
<1>4. ASSUME NEW w \in Workers, SendFails(w) PROVE TypeOK'
  BY <1>4 DEF SendFails
<1>5. CASE EndProducer
  BY <1>5 DEF EndProducer
<1>6. ASSUME NEW w \in Workers, Receive(w) PROVE TypeOK'
  BY <1>6 DEF Receive
<1>7. CASE WriteReceivedPackage
  <2>1. current \in Assets /\ PackageOf[current] \in Packages
    BY <1>7 DEF WriteReceivedPackage
  <2>2. toc' \in Seq(ChunkKinds \X (Assets \cup {None}))
    <3>1. toc' = Append(toc, <<"package", current>>)
      BY <1>7 DEF WriteReceivedPackage, WritePackage
    <3> QED
      BY <1>0, <2>1, <3>1
  <2>3. entry' \in [Packages -> Assets \cup {None}]
    BY <1>7, <2>1 DEF WriteReceivedPackage, WritePackage
  <2> QED
    BY <1>7, <2>2, <2>3 DEF WriteReceivedPackage, WritePackage
<1>8. CASE WriteBulk
  <2>1. current \in Assets /\ BulkKinds[current][k] \in ChunkKinds
    BY <1>8, BulkFacts DEF WriteBulk
  <2>2. toc' \in Seq(ChunkKinds \X (Assets \cup {None}))
    <3>1. toc' = Append(toc, <<BulkKinds[current][k], current>>)
      BY <1>8 DEF WriteBulk
    <3> QED
      BY <1>0, <2>1, <3>1
  <2> QED
    BY <1>8, <2>2 DEF WriteBulk
<1>9. CASE EndBulk
  <2>1. current \in Assets /\ PackageOf[current] \in Packages
    BY <1>9 DEF EndBulk
  <2>2. converted' \in Seq(Assets) /\ arcs' = arcs
    <3>1. /\ converted' = Append(converted, current) \/ converted' = converted
          /\ arcs' = arcs
      BY <1>9 DEF EndBulk, Keep
    <3>2. converted \in Seq(Assets)
      OBVIOUS
    <3>3. Append(converted, current) \in Seq(Assets)
      BY <2>1, <3>2, AppendType
    <3> QED
      BY <3>1, <3>2, <3>3
  <2>3. lookup' \in [Packages -> Assets \cup {None}]
    BY <1>9, <2>1 DEF EndBulk, Keep
  <2> QED
    BY <1>9, <2>2, <2>3 DEF EndBulk, ReleaseBulk
<1>10. CASE Disconnected
  BY <1>10 DEF Disconnected
<1>11. CASE FixArcs
  <2> DEFINE a == converted[k]
  <2>1. a \in Assets
    BY <1>11 DEF FixArcs
  <2>2. arcs' = [arcs EXCEPT ![a] = [p \in Imports[a] |-> Resolve(p)]]
    BY <1>11 DEF FixArcs
  <2>3. [p \in Imports[a] |-> Resolve(p)] \in [Imports[a] -> Assets \cup {Placeholder, External}]
    BY <2>1 DEF Resolve
  <2> HIDE DEF a
  <2>4. /\ arcs' = [b \in Assets |-> arcs'[b]]
        /\ \A b \in Assets : arcs'[b] \in [Imports[b] -> Assets \cup {Placeholder, External}]
    BY <2>1, <2>2, <2>3
  <2> QED
    BY <1>11, <2>4 DEF FixArcs
<1>12. CASE FixFails
  BY <1>12 DEF FixFails, HangUp
<1>13. CASE EndFix
  BY <1>13 DEF EndFix
<1>14. CASE FlushPackage
  <2>1. converted[k] \in Assets /\ PackageOf[converted[k]] \in Packages
    BY <1>14 DEF FlushPackage
  <2>2. toc' \in Seq(ChunkKinds \X (Assets \cup {None}))
    <3>1. toc' = Append(toc, <<"package", converted[k]>>)
      BY <1>14 DEF FlushPackage, WritePackage
    <3> QED
      BY <1>0, <2>1, <3>1
  <2>3. entry' \in [Packages -> Assets \cup {None}]
    BY <1>14, <2>1 DEF FlushPackage, WritePackage
  <2> QED
    BY <1>14, <2>2, <2>3 DEF FlushPackage, WritePackage
<1>15. CASE EndFlush
  BY <1>15 DEF EndFlush
<1>16. CASE WriteFails
  <2>1. PackageWritten \subseteq Assets
    BY <1>16 DEF WriteFails, PackageWritten
  <2>2. entry' \in [Packages -> Assets \cup {None}]
    BY <1>16, <2>1 DEF WriteFails
  <2> QED
    BY <1>16, <2>2 DEF WriteFails, HangUp
<1>17. CASE Join
  BY <1>17 DEF Join
<1>18. CASE Finalize
  <2>1. toc' \in Seq(ChunkKinds \X (Assets \cup {None}))
    <3>1. toc' = Append(toc, <<"header", None>>)
      BY <1>18 DEF Finalize
    <3> QED
      BY <1>0, <3>1
  <2> QED
    BY <1>18, <2>1 DEF Finalize
<1>19. CASE FinalizeFails
  BY <1>19 DEF FinalizeFails
<1>20. CASE UNCHANGED vars
  BY <1>20 DEF vars
<1> QED
  BY <1>1, <1>2, <1>3, <1>4, <1>5, <1>6, <1>7, <1>8, <1>9, <1>10, <1>11, <1>12,
     <1>13, <1>14, <1>15, <1>16, <1>17, <1>18, <1>19, <1>20
     DEF Next, Worker, Main, Returned

\* ... the stages of the command ...
LEMMA StagesInductive ==
  ASSUME TypeOK, Stages, [Next]_vars
  PROVE  Stages'
<1> USE DEF TypeOK, Stages, Release
<1>1. ASSUME NEW w \in Workers, NEW a \in Assets, StartAsset(w, a) PROVE Stages'
  BY <1>1 DEF StartAsset
<1>2. ASSUME NEW w \in Workers, ConvertAsset(w) PROVE Stages'
  BY <1>2 DEF ConvertAsset
<1>3. ASSUME NEW w \in Workers, ConvertFails(w) PROVE Stages'
  BY <1>3 DEF ConvertFails
<1>4. ASSUME NEW w \in Workers, SendFails(w) PROVE Stages'
  BY <1>4 DEF SendFails
<1>5. CASE EndProducer
  BY <1>5 DEF EndProducer
<1>6. ASSUME NEW w \in Workers, Receive(w) PROVE Stages'
  BY <1>6 DEF Receive
<1>7. CASE WriteReceivedPackage
  BY <1>7 DEF WriteReceivedPackage, WritePackage
<1>8. CASE WriteBulk
  BY <1>8 DEF WriteBulk
<1>9. CASE EndBulk
  BY <1>9 DEF EndBulk, Keep
<1>10. CASE Disconnected
  BY <1>10 DEF Disconnected
<1>11. CASE FixArcs
  BY <1>11 DEF FixArcs
<1>12. CASE FixFails
  BY <1>12 DEF FixFails, HangUp
<1>13. CASE EndFix
  BY <1>13 DEF EndFix
<1>14. CASE FlushPackage
  BY <1>14 DEF FlushPackage, WritePackage
<1>15. CASE EndFlush
  BY <1>15 DEF EndFlush
<1>16. CASE WriteFails
  BY <1>16 DEF WriteFails, PackageWritten
<1>17. CASE Join
  BY <1>17 DEF Join
<1>18. CASE Finalize
  BY <1>18 DEF Finalize
<1>19. CASE FinalizeFails
  BY <1>19 DEF FinalizeFails
<1>20. CASE UNCHANGED vars
  BY <1>20 DEF vars
<1> QED
  BY <1>1, <1>2, <1>3, <1>4, <1>5, <1>6, <1>7, <1>8, <1>9, <1>10, <1>11, <1>12,
     <1>13, <1>14, <1>15, <1>16, <1>17, <1>18, <1>19, <1>20
     DEF Next, Worker, Main, Returned

\* A chunk more in the table of contents.
LEMMA ChunkAdded ==
  ASSUME TypeOK, NEW kind \in ChunkKinds, NEW b \in Assets \cup {None},
         toc' = Append(toc, <<kind, b>>)
  PROVE  /\ \A x : In(toc', x) <=> In(toc, x) \/ x = <<kind, b>>
         /\ Distinct(toc) /\ ~In(toc, <<kind, b>>) => Distinct(toc')
<1>1. toc \in Seq(ChunkKinds \X (Assets \cup {None}))
  BY DEF TypeOK
<1>2. <<kind, b>> \in ChunkKinds \X (Assets \cup {None})
  OBVIOUS
<1>3. /\ \A x : In(Append(toc, <<kind, b>>), x) <=> In(toc, x) \/ x = <<kind, b>>
      /\ Distinct(toc) /\ ~In(toc, <<kind, b>>) => Distinct(Append(toc, <<kind, b>>))
  BY <1>1, <1>2, InAppend
<1> QED
  BY <1>3

\* A bundle more that is kept.
LEMMA BundleAdded ==
  ASSUME TypeOK, NEW a \in Assets, converted' = Append(converted, a)
  PROVE  /\ \A x : In(converted', x) <=> In(converted, x) \/ x = a
         /\ Distinct(converted) /\ ~In(converted, a) => Distinct(converted')
BY InAppend DEF TypeOK

\* An asset is finished once and stays so, and becomes so only with its bulk data.
LEMMA DoneStays ==
  ASSUME TypeOK, Stages, OnePlace, [Next]_vars, NEW a \in Assets
  PROVE  /\ a \in Done => a \in Done'
         /\ a \in Done' => \/ a \in Done
                           \/ a = current /\ current' = None
<1> USE PackageFacts DEF Done
<1> DEFINE Goal == /\ a \in Done => a \in Done'
                   /\ a \in Done' => \/ a \in Done
                                     \/ a = current /\ current' = None
<1>0. "package" \in ChunkKinds /\ "header" \in ChunkKinds
  BY DEF ChunkKinds
<1>1. ASSUME UNCHANGED <<fixup, toc, converted, current>> PROVE Goal
  BY <1>1
<1>2. ASSUME NEW w \in Workers, Receive(w) PROVE Goal
  BY <1>2 DEF Receive, TypeOK, OnePlace
<1>3. CASE WriteReceivedPackage
  <2>1. current \in Assets /\ fixup' = fixup /\ current' = current /\ converted' = converted
    BY <1>3 DEF WriteReceivedPackage, TypeOK
  <2>2. \A x : In(toc', x) <=> In(toc, x) \/ x = <<"package", current>>
    BY <1>0, <1>3, <2>1, ChunkAdded DEF WriteReceivedPackage, WritePackage
  <2> QED
    BY <2>1, <2>2
<1>4. CASE WriteBulk
  <2>1. /\ current \in Assets /\ fixup' = fixup /\ current' = current /\ converted' = converted
        /\ k \in DOMAIN BulkKinds[current]
        /\ toc' = Append(toc, <<BulkKinds[current][k], current>>)
    BY <1>4, BulkFacts DEF WriteBulk, TypeOK
  <2>2. BulkKinds[current][k] \in ChunkKinds /\ BulkKinds[current][k] # "package"
    BY <2>1, BulkFacts
  <2>3. \A x : In(toc', x) <=> In(toc, x) \/ x = <<BulkKinds[current][k], current>>
    BY <2>1, <2>2, ChunkAdded
  <2> QED
    BY <2>1, <2>2, <2>3
<1>5. CASE EndBulk
  <2>1. current \in Assets /\ fixup' = fixup /\ current' = None /\ toc' = toc
    BY <1>5 DEF EndBulk, TypeOK
  <2>2. CASE fixup
    <3>1. \A x : In(converted', x) <=> In(converted, x) \/ x = current
      BY <1>5, <2>1, <2>2, BundleAdded DEF EndBulk, Keep
    <3> QED
      BY <1>5, <2>1, <2>2, <3>1
  <2>3. CASE ~fixup
    BY <1>5, <2>1, <2>3
  <2> QED
    BY <2>2, <2>3
<1>6. CASE FlushPackage
  BY <1>6 DEF FlushPackage, Stages
<1>7. CASE WriteFails
  BY <1>7 DEF WriteFails
<1>8. CASE Finalize
  <2>1. fixup' = fixup /\ current' = current /\ converted' = converted
    BY <1>8 DEF Finalize
  <2>2. \A x : In(toc', x) <=> In(toc, x) \/ x = <<"header", None>>
    BY <1>0, <1>8, ChunkAdded DEF Finalize
  <2> QED
    BY <2>1, <2>2
<1> HIDE DEF Goal
<1> QED
  BY <1>1, <1>2, <1>3, <1>4, <1>5, <1>6, <1>7, <1>8
     DEF Goal, Next, Worker, Main, Returned, vars, StartAsset, ConvertAsset, ConvertFails, SendFails,
         EndProducer, Disconnected, FixArcs, FixFails, EndFix, EndFlush, Join, FinalizeFails

\* ... the place of an asset, which no step gives it twice ...
LEMMA OnePlaceInductive ==
  ASSUME TypeOK, Stages, OnePlace, [Next]_vars
  PROVE  OnePlace'
<1>0. \A a \in Assets : a \in Done' => a \in Done \/ (a = current /\ current' = None)
  BY DoneStays
<1>. /\ todo \subseteq Assets
     /\ item \in [Workers -> Assets \cup {None}]
     /\ \A w \in Workers : item[w] = None <=> wpc[w] = "idle"
     /\ current \in Assets \cup {None}
     /\ current # None <=> cpc \in {"package", "bulk"}
  BY DEF TypeOK
<1> USE <1>0, PackageFacts DEF OnePlace, Release
<1>1. ASSUME NEW w \in Workers, NEW a \in Assets, StartAsset(w, a) PROVE OnePlace'
  BY <1>1 DEF StartAsset
<1>2. ASSUME NEW w \in Workers, ConvertAsset(w) PROVE OnePlace'
  BY <1>2 DEF ConvertAsset
<1>3. ASSUME NEW w \in Workers, ConvertFails(w) PROVE OnePlace'
  BY <1>3 DEF ConvertFails
<1>4. ASSUME NEW w \in Workers, SendFails(w) PROVE OnePlace'
  BY <1>4 DEF SendFails
<1>5. CASE EndProducer
  BY <1>5 DEF EndProducer
<1>6. ASSUME NEW w \in Workers, Receive(w) PROVE OnePlace'
  BY <1>6 DEF Receive
<1>7. CASE WriteReceivedPackage
  BY <1>7 DEF WriteReceivedPackage
<1>8. CASE WriteBulk
  BY <1>8 DEF WriteBulk
<1>9. CASE EndBulk
  <2>1. /\ current \in Assets /\ current \notin Done
        /\ current' = None /\ item' = item /\ todo' = todo /\ fixup' = fixup
    BY <1>9 DEF EndBulk
  <2>2. Distinct(converted')
    <3>1. CASE fixup
      <4>1. converted' = Append(converted, current)
        BY <1>9, <3>1 DEF EndBulk, Keep
      <4>2. ~In(converted, current)
        BY <2>1, <3>1 DEF Done
      <4> QED
        BY <2>1, <4>1, <4>2, BundleAdded
    <3>2. CASE ~fixup
      BY <1>9, <3>2 DEF EndBulk
    <3> QED
      BY <3>1, <3>2
  <2> QED
    BY <2>1, <2>2
<1>10. CASE Disconnected
  BY <1>10 DEF Disconnected
<1>11. CASE FixArcs
  BY <1>11 DEF FixArcs
<1>12. CASE FixFails
  BY <1>12 DEF FixFails
<1>13. CASE EndFix
  BY <1>13 DEF EndFix
<1>14. CASE FlushPackage
  BY <1>14 DEF FlushPackage
<1>15. CASE EndFlush
  BY <1>15 DEF EndFlush
<1>16. CASE WriteFails
  BY <1>16 DEF WriteFails
<1>17. CASE Join
  BY <1>17 DEF Join
<1>18. CASE Finalize
  BY <1>18 DEF Finalize
<1>19. CASE FinalizeFails
  BY <1>19 DEF FinalizeFails
<1>20. CASE UNCHANGED vars
  BY <1>20 DEF vars
<1> QED
  BY <1>1, <1>2, <1>3, <1>4, <1>5, <1>6, <1>7, <1>8, <1>9, <1>10, <1>11, <1>12,
     <1>13, <1>14, <1>15, <1>16, <1>17, <1>18, <1>19, <1>20
     DEF Next, Worker, Main, Returned

\* ... nor takes from it without an error ...
LEMMA NoneLostInductive ==
  ASSUME TypeOK, Stages, OnePlace, NoneLost, WrittenSoFar, [Next]_vars
  PROVE  NoneLost'
<1>0. \A a \in Assets : a \in Done => a \in Done'
  BY DoneStays
<1>. /\ item \in [Workers -> Assets \cup {None}]
     /\ \A w \in Workers : item[w] = None <=> wpc[w] = "idle"
     /\ current \in Assets \cup {None}
     /\ current # None <=> cpc \in {"package", "bulk"}
  BY DEF TypeOK
<1> USE <1>0, PackageFacts DEF NoneLost, Going, Release
<1>1. ASSUME NEW w \in Workers, NEW a \in Assets, StartAsset(w, a) PROVE NoneLost'
  BY <1>1 DEF StartAsset
<1>2. ASSUME NEW w \in Workers, ConvertAsset(w) PROVE NoneLost'
  BY <1>2 DEF ConvertAsset
<1>3. ASSUME NEW w \in Workers, ConvertFails(w) PROVE NoneLost'
  BY <1>3 DEF ConvertFails
<1>4. ASSUME NEW w \in Workers, SendFails(w) PROVE NoneLost'
  BY <1>4 DEF SendFails
<1>5. CASE EndProducer
  BY <1>5 DEF EndProducer
<1>6. ASSUME NEW w \in Workers, Receive(w) PROVE NoneLost'
  BY <1>6 DEF Receive
<1>7. CASE WriteReceivedPackage
  BY <1>7 DEF WriteReceivedPackage
<1>8. CASE WriteBulk
  BY <1>8 DEF WriteBulk
<1>9. CASE EndBulk
  <2>1. /\ current \in Assets /\ fixup' = fixup /\ toc' = toc /\ current' = None
        /\ Going /\ cpc = "bulk"
    BY <1>9 DEF EndBulk, TypeOK, Stages
  <2>2. current \in Done'
    <3>1. CASE fixup
      <4>1. In(converted', current)
        BY <1>9, <2>1, <3>1, BundleAdded DEF EndBulk, Keep
      <4> QED
        BY <2>1, <3>1, <4>1 DEF Done
    <3>2. CASE ~fixup
      <4>1. In(toc, <<"package", current>>)
        BY <2>1, <3>2 DEF WrittenSoFar, PackageFirst
      <4> QED
        BY <2>1, <3>2, <4>1 DEF Done
    <3> QED
      BY <3>1, <3>2
  <2> QED
    BY <1>9, <2>1, <2>2 DEF EndBulk
<1>10. CASE Disconnected
  BY <1>10 DEF Disconnected
<1>11. CASE FixArcs
  BY <1>11 DEF FixArcs
<1>12. CASE FixFails
  BY <1>12 DEF FixFails
<1>13. CASE EndFix
  BY <1>13 DEF EndFix
<1>14. CASE FlushPackage
  BY <1>14 DEF FlushPackage
<1>15. CASE EndFlush
  BY <1>15 DEF EndFlush
<1>16. CASE WriteFails
  BY <1>16 DEF WriteFails
<1>17. CASE Join
  BY <1>17 DEF Join
<1>18. CASE Finalize
  BY <1>18 DEF Finalize, Stages, TypeOK
<1>19. CASE FinalizeFails
  BY <1>19 DEF FinalizeFails
<1>20. CASE UNCHANGED vars
  BY <1>20 DEF vars
<1> QED
  BY <1>1, <1>2, <1>3, <1>4, <1>5, <1>6, <1>7, <1>8, <1>9, <1>10, <1>11, <1>12,
     <1>13, <1>14, <1>15, <1>16, <1>17, <1>18, <1>19, <1>20
     DEF Next, Worker, Main, Returned

\* A command that has failed does not recover.
LEMMA GoingBefore ==
  ASSUME TypeOK, Stages, [Next]_vars, Going'
  PROVE  Going
BY DEF Going, Stages, TypeOK, Next, Worker, Main, Returned, vars, StartAsset, ConvertAsset,
       ConvertFails, SendFails, EndProducer, Receive, WriteReceivedPackage, WritePackage, WriteBulk,
       EndBulk, Disconnected, FixArcs, FixFails, EndFix, FlushPackage, EndFlush, WriteFails,
       Join, Finalize, FinalizeFails

\* What the chunks are after a step that writes one.
LEMMA TocSteps ==
  ASSUME TypeOK, Stages, [Next]_vars
  PROVE  \/ UNCHANGED <<toc, finalized>>
         \/ \E kind \in ChunkKinds, b \in Assets \cup {None} :
              /\ toc' = Append(toc, <<kind, b>>)
              /\ \A x : In(toc', x) <=> In(toc, x) \/ x = <<kind, b>>
              /\ Distinct(toc) /\ ~In(toc, <<kind, b>>) => Distinct(toc')
              /\ \/ /\ WriteReceivedPackage \/ FlushPackage
                    /\ kind = "package" /\ b \in Assets
                    /\ b = IF cpc = "package" THEN current ELSE converted[k]
                 \/ /\ WriteBulk
                    /\ b = current /\ b \in Assets
                    /\ k \in DOMAIN BulkKinds[b] /\ kind = BulkKinds[b][k]
                 \/ Finalize /\ kind = "header" /\ b = None
<1>0. "package" \in ChunkKinds /\ "header" \in ChunkKinds
  BY DEF ChunkKinds
<1>1. CASE WriteReceivedPackage
  <2>1. /\ current \in Assets /\ cpc = "package"
        /\ toc' = Append(toc, <<"package", current>>)
    BY <1>1 DEF TypeOK, WriteReceivedPackage, WritePackage
  <2>2. /\ \A x : In(toc', x) <=> In(toc, x) \/ x = <<"package", current>>
        /\ Distinct(toc) /\ ~In(toc, <<"package", current>>) => Distinct(toc')
    BY <1>0, <2>1, ChunkAdded
  <2> QED
    BY <1>0, <1>1, <2>1, <2>2
<1>2. CASE FlushPackage
  <2>1. /\ converted[k] \in Assets /\ cpc = "flush"
        /\ toc' = Append(toc, <<"package", converted[k]>>)
    BY <1>2 DEF TypeOK, FlushPackage, WritePackage
  <2>2. /\ \A x : In(toc', x) <=> In(toc, x) \/ x = <<"package", converted[k]>>
        /\ Distinct(toc) /\ ~In(toc, <<"package", converted[k]>>) => Distinct(toc')
    BY <1>0, <2>1, ChunkAdded
  <2> QED
    BY <1>0, <1>2, <2>1, <2>2
<1>3. CASE WriteBulk
  <2>1. /\ current \in Assets /\ k \in DOMAIN BulkKinds[current]
        /\ toc' = Append(toc, <<BulkKinds[current][k], current>>)
    BY <1>3, BulkFacts DEF WriteBulk, TypeOK
  <2>2. BulkKinds[current][k] \in ChunkKinds
    BY <2>1, BulkFacts
  <2>3. /\ \A x : In(toc', x) <=> In(toc, x) \/ x = <<BulkKinds[current][k], current>>
        /\ Distinct(toc) /\ ~In(toc, <<BulkKinds[current][k], current>>) => Distinct(toc')
    BY <2>1, <2>2, ChunkAdded
  <2> QED
    BY <1>3, <2>1, <2>2, <2>3
<1>4. CASE Finalize
  <2>1. toc' = Append(toc, <<"header", None>>)
    BY <1>4 DEF Finalize
  <2>2. /\ \A x : In(toc', x) <=> In(toc, x) \/ x = <<"header", None>>
        /\ Distinct(toc) /\ ~In(toc, <<"header", None>>) => Distinct(toc')
    BY <1>0, <2>1, ChunkAdded
  <2> QED
    BY <1>0, <1>4, <2>1, <2>2
<1>5. \/ UNCHANGED <<toc, finalized>>
      \/ WriteReceivedPackage \/ FlushPackage \/ WriteBulk \/ Finalize
  BY DEF Next, Worker, Main, Returned, vars, StartAsset, ConvertAsset, ConvertFails, SendFails,
         EndProducer, Receive, EndBulk, Disconnected, FixArcs, FixFails, EndFix, EndFlush,
         WriteFails, Join, FinalizeFails
<1> QED
  BY <1>1, <1>2, <1>3, <1>4, <1>5

\* ... the chunks, of which no step repeats one ...
LEMMA WrittenOnceInductive ==
  ASSUME TypeOK, Stages, OnePlace, WrittenSoFar, [Next]_vars
  PROVE  WrittenOnce'
<1> SUFFICES ASSUME Going' PROVE Distinct(toc') /\ (In(toc', <<"header", None>>) <=> finalized')
  BY DEF WrittenOnce
<1>. /\ Going
     /\ Distinct(toc) /\ (In(toc, <<"header", None>>) <=> finalized)
     /\ current \in Assets \cup {None} /\ converted \in Seq(Assets) /\ k \in Nat \ {0}
  BY GoingBefore DEF WrittenSoFar, WrittenOnce, TypeOK
<1>1. CASE UNCHANGED <<toc, finalized>>
  BY <1>1
<1>3. ASSUME WriteReceivedPackage, current \in Assets, cpc = "package" PROVE ~In(toc, <<"package", current>>)
  BY <1>3, PackageFacts DEF WrittenSoFar, PackageFirst, Stages
<1>4. ASSUME FlushPackage PROVE ~In(toc, <<"package", converted[k]>>) /\ cpc # "package"
  <2>1. /\ cpc = "flush" /\ k \in DOMAIN converted /\ fixup /\ converted[k] \in Assets
        /\ Flushed = k - 1
    BY <1>4 DEF FlushPackage, Stages, Flushed
  <2>2. ASSUME In(toc, <<"package", converted[k]>>) PROVE FALSE
    <3>1. PICK i \in DOMAIN converted : converted[i] = converted[k] /\ i <= k - 1
      BY <2>1, <2>2 DEF WrittenSoFar, PackagesFlushed
    <3>2. i = k
      BY <2>1, <3>1 DEF OnePlace, Distinct
    <3> QED
      BY <3>1, <3>2
  <2> QED
    BY <2>1, <2>2
<1>5. ASSUME WriteBulk, current \in Assets, k \in DOMAIN BulkKinds[current]
      PROVE  /\ ~In(toc, <<BulkKinds[current][k], current>>)
             /\ BulkKinds[current][k] # "header"
  <2>1. BulkKinds[current] \in Seq(BulkFiles)
    BY <1>5, ConversionAssumption
  <2>2. BulkKinds[current][k] \in BulkFiles
    BY <1>5, <2>1
  <2>3. current \notin Done
    BY <1>5 DEF OnePlace
  <2>4. In(toc, <<BulkKinds[current][k], current>>)
          => current \in Done \/ (current = current /\ cpc = "bulk" /\ k < k)
    BY <1>5 DEF WrittenSoFar, BulkWritten
  <2>5. ~In(toc, <<BulkKinds[current][k], current>>)
    BY <2>3, <2>4
  <2> QED
    BY <2>2, <2>5 DEF BulkFiles
<1>6. ASSUME Finalize PROVE ~In(toc, <<"header", None>>) /\ finalized'
  BY <1>6 DEF Finalize, Stages, TypeOK
<1>7. WriteReceivedPackage \/ FlushPackage \/ WriteBulk => finalized' = finalized
  BY DEF WriteReceivedPackage, FlushPackage, WriteBulk, WritePackage
<1>8. ASSUME NEW kind \in ChunkKinds, NEW b \in Assets \cup {None},
             \A x : In(toc', x) <=> In(toc, x) \/ x = <<kind, b>>,
             Distinct(toc) /\ ~In(toc, <<kind, b>>) => Distinct(toc'),
             \/ /\ WriteReceivedPackage \/ FlushPackage
                /\ kind = "package" /\ b \in Assets
                /\ b = IF cpc = "package" THEN current ELSE converted[k]
             \/ /\ WriteBulk
                /\ b = current /\ b \in Assets
                /\ k \in DOMAIN BulkKinds[b] /\ kind = BulkKinds[b][k]
             \/ Finalize /\ kind = "header" /\ b = None
      PROVE  Distinct(toc') /\ (In(toc', <<"header", None>>) <=> finalized')
  <2>1. CASE WriteReceivedPackage
    <3>1. cpc = "package"
      BY <2>1 DEF WriteReceivedPackage
    <3>2. b = current /\ kind = "package" /\ finalized' = finalized
      BY <1>8, <2>1, <3>1, <1>7 DEF FlushPackage, WriteBulk, Finalize
    <3> QED
      BY <1>3, <1>8, <2>1, <3>1, <3>2
  <2>2. CASE FlushPackage
    <3>1. cpc = "flush"
      BY <2>2 DEF FlushPackage
    <3>2. b = converted[k] /\ kind = "package" /\ finalized' = finalized
      BY <1>8, <2>2, <3>1, <1>7 DEF WriteReceivedPackage, WriteBulk, Finalize
    <3> QED
      BY <1>4, <1>8, <2>2, <3>2
  <2>3. CASE WriteBulk
    <3>1. cpc = "bulk"
      BY <2>3 DEF WriteBulk
    <3>2. /\ b = current /\ b \in Assets /\ k \in DOMAIN BulkKinds[b]
          /\ kind = BulkKinds[b][k] /\ finalized' = finalized
      BY <1>8, <2>3, <3>1, <1>7 DEF WriteReceivedPackage, FlushPackage, Finalize
    <3> QED
      BY <1>5, <1>8, <2>3, <3>2
  <2>4. CASE Finalize
    <3>1. cpc = "finalize"
      BY <2>4 DEF Finalize
    <3>2. kind = "header" /\ b = None
      BY <1>8, <2>4, <3>1 DEF WriteReceivedPackage, FlushPackage, WriteBulk
    <3> QED
      BY <1>6, <1>8, <2>4, <3>2
  <2> QED
    BY <1>8, <2>1, <2>2, <2>3, <2>4
<1> QED
  BY <1>1, <1>8, TocSteps

\* Which chunk a step writes, as the other parts of the invariant need it.
LEMMA ChunkOfStep ==
  ASSUME TypeOK, Stages, [Next]_vars, NEW kind, NEW a \in Assets
  PROVE  /\ In(toc', <<kind, a>>) =>
              \/ In(toc, <<kind, a>>)
              \/ kind = "package" /\ WriteReceivedPackage /\ a = current /\ cpc = "package"
              \/ kind = "package" /\ FlushPackage /\ a = converted[k] /\ cpc = "flush"
              \/ WriteBulk /\ a = current /\ k \in DOMAIN BulkKinds[a]
                   /\ kind = BulkKinds[a][k]
         /\ In(toc, <<kind, a>>) => In(toc', <<kind, a>>)
         /\ WriteReceivedPackage => In(toc', <<"package", current>>)
         /\ FlushPackage => In(toc', <<"package", converted[k]>>)
         /\ WriteBulk => In(toc', <<BulkKinds[current][k], current>>)
<1>1. /\ WriteReceivedPackage => cpc = "package" /\ toc' # toc
      /\ FlushPackage => cpc = "flush" /\ toc' # toc
      /\ WriteBulk => cpc = "bulk" /\ toc' # toc
      /\ Finalize => cpc = "finalize"
  <2>1. toc \in Seq(ChunkKinds \X (Assets \cup {None}))
    BY DEF TypeOK
  <2>2. \A x : Append(toc, x) # toc
    <3>1. \A x : Len(Append(toc, x)) = Len(toc) + 1 /\ Len(toc) \in Nat
      BY <2>1
    <3> QED
      BY <3>1
  <2> QED
    BY <2>2 DEF WriteReceivedPackage, FlushPackage, WriteBulk, Finalize, WritePackage
<1> QED
  BY <1>1, TocSteps, PackageFacts

\* ... the bulk data, which is written in its order ...
LEMMA BulkWrittenInductive ==
  ASSUME TypeOK, Stages, OnePlace, WrittenSoFar, [Next]_vars
  PROVE  BulkWritten'
<1> SUFFICES ASSUME Going', NEW a \in Assets, NEW i \in DOMAIN BulkKinds[a]
             PROVE  In(toc', <<BulkKinds[a][i], a>>)
                      <=> a \in Done' \/ (a = current' /\ cpc' = "bulk" /\ i < k')
  BY DEF BulkWritten
<1> DEFINE chunk == <<BulkKinds[a][i], a>>
<1>. Going
  BY GoingBefore
<1>. In(toc, chunk) <=> a \in Done \/ (a = current /\ cpc = "bulk" /\ i < k)
  BY DEF WrittenSoFar, BulkWritten
<1>. /\ a \in Done => a # current
     /\ a # None
  BY PackageFacts DEF OnePlace
<1>. /\ a \in Done => a \in Done'
     /\ a \in Done' => a \in Done \/ (a = current /\ current' = None)
  BY DoneStays
<1>. k \in Nat \ {0} /\ i \in Nat \ {0} /\ Len(BulkKinds[a]) \in Nat /\ i <= Len(BulkKinds[a])
  BY BulkFacts DEF TypeOK
<1> HIDE DEF chunk
<1>1. /\ In(toc', chunk) =>
            In(toc, chunk) \/ (WriteBulk /\ a = current /\ i = k)
      /\ In(toc, chunk) => In(toc', chunk)
      /\ WriteBulk /\ a = current /\ i = k => In(toc', chunk)
  <2>1. BulkKinds[a][i] # "package"
    BY BulkFacts
  <2>2. k \in DOMAIN BulkKinds[a] /\ BulkKinds[a][i] = BulkKinds[a][k] => i = k
    BY BulkFacts
  <2> QED
    BY <2>1, <2>2, ChunkOfStep DEF chunk
<1>2. CASE WriteBulk
  <2>1. current' = current /\ current # None /\ cpc = "bulk" /\ cpc' = "bulk" /\ k' = k + 1
    BY <1>2 DEF WriteBulk, TypeOK
  <2> QED
    BY <1>1, <1>2, <2>1 DEF chunk
<1>3. CASE EndBulk
  <2>1. /\ current' = None /\ cpc = "bulk" /\ cpc' = "receive" /\ current \in Assets
        /\ a = current => i < k
    BY <1>3, BulkFacts DEF EndBulk, TypeOK
  <2>2. current \in Done'
    <3>1. CASE fixup
      <4>1. In(converted', current)
        BY <1>3, <2>1, <3>1, BundleAdded DEF EndBulk, Keep
      <4> QED
        BY <1>3, <2>1, <3>1, <4>1 DEF Done, EndBulk
    <3>2. CASE ~fixup
      <4>1. In(toc, <<"package", current>>)
        BY <2>1, <3>2, GoingBefore, PackageFacts DEF WrittenSoFar, PackageFirst
      <4> QED
        BY <1>3, <2>1, <3>2, <4>1, PackageFacts DEF Done, EndBulk
    <3> QED
      BY <3>1, <3>2
  <2>3. ~WriteBulk
    BY <1>3, <2>1 DEF WriteBulk
  <2> QED
    BY <1>1, <2>1, <2>2, <2>3 DEF chunk
<1>4. ASSUME NEW w \in Workers, Receive(w)
      PROVE  current' # None /\ cpc = "receive" /\ current = None /\ k' = 1 /\ ~WriteBulk
  BY <1>4 DEF Receive, TypeOK, WriteBulk
<1>5. CASE WriteReceivedPackage
  BY <1>1, <1>5 DEF chunk, WriteReceivedPackage, WriteBulk, TypeOK
<1>6. CASE UNCHANGED <<current, cpc, k>>
  BY <1>1, <1>6, <1>2 DEF chunk
<1>7. ASSUME cpc # "bulk", cpc' # "bulk", current' = current
      PROVE  In(toc', chunk)
               <=> a \in Done' \/ (a = current' /\ cpc' = "bulk" /\ i < k')
  BY <1>1, <1>7 DEF chunk, WriteBulk, TypeOK
<1>8. \/ \E w \in Workers : Receive(w)
      \/ WriteReceivedPackage \/ WriteBulk \/ EndBulk
      \/ UNCHANGED <<current, cpc, k>>
      \/ cpc # "bulk" /\ cpc' # "bulk" /\ current' = current
  BY DEF Next, Worker, Main, Returned, vars, StartAsset, ConvertAsset, ConvertFails, SendFails,
         EndProducer, Disconnected, FixArcs, FixFails, EndFix, FlushPackage, EndFlush,
         WriteFails, Join, Finalize, FinalizeFails, Going
<1> QED
  BY <1>1, <1>2, <1>3, <1>4, <1>5, <1>6, <1>7, <1>8 DEF chunk

\* ... the package data of a bundle that is written as it arrives ...
LEMMA PackageFirstInductive ==
  ASSUME TypeOK, Stages, OnePlace, WrittenSoFar, [Next]_vars
  PROVE  PackageFirst'
<1> SUFFICES ASSUME Going', ~fixup, current' # None
             PROVE  In(toc', <<"package", current'>>) <=> cpc' = "bulk"
  <2>1. fixup' = fixup
    BY DEF Next, Worker, Main, Returned, vars, StartAsset, ConvertAsset, ConvertFails, SendFails,
           EndProducer, Receive, WriteReceivedPackage, WriteBulk, EndBulk, Disconnected, FixArcs,
           FixFails, EndFix, FlushPackage, EndFlush, WriteFails, Join, Finalize, FinalizeFails
  <2> QED
    BY <2>1 DEF PackageFirst
<1>. Going
  BY GoingBefore
<1>. current # None => (In(toc, <<"package", current>>) <=> cpc = "bulk")
  BY DEF WrittenSoFar, PackageFirst
<1>. current \in Assets \cup {None} /\ (current # None <=> cpc \in {"package", "bulk"})
  BY DEF TypeOK
<1>1. ASSUME NEW w \in Workers, Receive(w)
      PROVE  In(toc', <<"package", current'>>) <=> cpc' = "bulk"
  <2>1. /\ cpc = "receive" /\ toc' = toc /\ current' = item[w] /\ cpc' = "package"
        /\ item[w] \in Assets /\ current = None
    BY <1>1, PackageFacts DEF Receive, TypeOK
  <2>2. item[w] \notin Done
    BY <2>1 DEF OnePlace
  <2> QED
    BY <2>1, <2>2, PackageFacts DEF Done
<1>2. CASE WriteReceivedPackage
  BY <1>2, ChunkOfStep DEF WriteReceivedPackage, TypeOK
<1>3. CASE WriteBulk
  <2>1. current \in Assets /\ current' = current /\ cpc = "bulk" /\ cpc' = "bulk"
    BY <1>3 DEF WriteBulk
  <2> QED
    BY <2>1, ChunkOfStep, PackageFacts
<1>4. CASE EndBulk
  BY <1>4 DEF EndBulk
<1>5. CASE UNCHANGED <<toc, current, cpc>>
  BY <1>5
<1>6. \/ \E w \in Workers : Receive(w)
      \/ WriteReceivedPackage \/ WriteBulk \/ EndBulk
      \/ UNCHANGED <<toc, current, cpc>>
      \/ cpc \notin {"package", "bulk"} /\ current' = current
  BY DEF Next, Worker, Main, Returned, vars, StartAsset, ConvertAsset, ConvertFails, SendFails,
         EndProducer, Disconnected, FixArcs, FixFails, EndFix, FlushPackage, EndFlush,
         WriteFails, Join, Finalize, FinalizeFails, Going
<1> QED
  BY <1>1, <1>2, <1>3, <1>4, <1>5, <1>6

\* ... or after the fixup ...
LEMMA PackagesFlushedInductive ==
  ASSUME TypeOK, Stages, OnePlace, WrittenSoFar, [Next]_vars
  PROVE  PackagesFlushed'
<1>0. fixup' = fixup
  BY DEF Next, Worker, Main, Returned, vars, StartAsset, ConvertAsset, ConvertFails, SendFails,
         EndProducer, Receive, WriteReceivedPackage, WriteBulk, EndBulk, Disconnected, FixArcs,
         FixFails, EndFix, FlushPackage, EndFlush, WriteFails, Join, Finalize, FinalizeFails
<1> SUFFICES ASSUME Going', fixup, NEW a \in Assets
             PROVE  In(toc', <<"package", a>>)
                      <=> \E i \in DOMAIN converted' : converted'[i] = a /\ i <= Flushed'
  BY <1>0 DEF PackagesFlushed
<1>. Going
  BY GoingBefore
<1>. In(toc, <<"package", a>>) <=> \E i \in DOMAIN converted : converted[i] = a /\ i <= Flushed
  BY DEF WrittenSoFar, PackagesFlushed
<1>. /\ k \in Nat \ {0} /\ converted \in Seq(Assets)
     /\ Len(converted) \in Nat /\ DOMAIN converted = 1..Len(converted)
  BY DEF TypeOK
<1>1. ASSUME NEW s \in Seq(Assets), NEW i \in DOMAIN s PROVE i \in Nat /\ ~(i <= 0)
  BY <1>1
<1>2. ~WriteReceivedPackage
  BY DEF WriteReceivedPackage, Stages
<1>3. ~FlushPackage => (In(toc', <<"package", a>>) <=> In(toc, <<"package", a>>))
  BY <1>2, BulkFacts, ChunkOfStep
<1>4. CASE FlushPackage
  <2>1. /\ cpc = "flush" /\ cpc' = "flush" /\ k \in DOMAIN converted
        /\ k' = k + 1 /\ converted' = converted /\ converted[k] \in Assets
    BY <1>4 DEF FlushPackage
  <2>2. Flushed = k - 1 /\ Flushed' = k
    BY <2>1 DEF Flushed
  <2>3. In(toc', <<"package", a>>) <=> In(toc, <<"package", a>>) \/ a = converted[k]
    BY <1>2, <1>4, <2>1, BulkFacts, ChunkOfStep DEF WriteBulk
  <2> QED
    BY <2>1, <2>2, <2>3
<1>5. CASE EndBulk
  <2>1. cpc = "bulk" /\ cpc' = "receive" /\ current \in Assets
    BY <1>5 DEF EndBulk, TypeOK
  <2>2. converted' \in Seq(Assets)
    BY <1>5, <2>1, AppendType DEF EndBulk, Keep
  <2>3. Flushed = 0 /\ Flushed' = 0
    BY <2>1 DEF Flushed
  <2>4. ~FlushPackage
    BY <2>1 DEF FlushPackage
  <2> QED
    BY <1>1, <1>3, <2>2, <2>3, <2>4
<1>6. ASSUME converted' = converted, Flushed' = Flushed, ~FlushPackage
      PROVE  In(toc', <<"package", a>>)
               <=> \E i \in DOMAIN converted' : converted'[i] = a /\ i <= Flushed'
  BY <1>3, <1>6
<1>7. \/ FlushPackage \/ EndBulk
      \/ converted' = converted /\ UNCHANGED <<cpc, k>>
      \/ converted' = converted /\ cpc \in {"receive", "package", "bulk", "fix"}
           /\ cpc' \in {"package", "bulk", "fix"}
      \/ EndFix \/ EndFlush
      \/ converted' = converted /\ cpc \in {"join", "finalize"} /\ cpc' \in {"finalize", "done"}
  BY DEF Next, Worker, Main, Returned, vars, StartAsset, ConvertAsset, ConvertFails, SendFails,
         EndProducer, Receive, WriteReceivedPackage, WriteBulk, Disconnected, FixArcs, FixFails,
         WriteFails, Join, Finalize, FinalizeFails, Going
<1>8. CASE EndFix
  BY <1>6, <1>8 DEF EndFix, Flushed, FlushPackage
<1>9. CASE EndFlush
  BY <1>6, <1>9 DEF EndFlush, Flushed, FlushPackage, Stages
<1> QED
  BY <1>4, <1>5, <1>6, <1>7, <1>8, <1>9 DEF Flushed

\* Package data written with its store entry keeps the two together.
LEMMA WritePackageKeepsLast ==
  ASSUME TypeOK, NEW a \in Assets, WritePackage(a), NEW p \in Packages,
         LastData(toc, p, entry[p])
  PROVE  LastData(toc', p, entry'[p])
<1> DEFINE c == <<"package", a>>
<1>1. toc \in Seq(ChunkKinds \X (Assets \cup {None})) /\ c \in ChunkKinds \X (Assets \cup {None})
  BY DEF TypeOK, ChunkKinds
<1>2. HasData(c, p) <=> PackageOf[a] = p
  BY DEF HasData
<1>3. c[2] = a
  OBVIOUS
<1>4. entry' = [entry EXCEPT ![PackageOf[a]] = a] /\ toc' = Append(toc, c)
  BY DEF WritePackage
<1>5. entry'[p] = IF PackageOf[a] = p THEN a ELSE entry[p]
  BY <1>4 DEF TypeOK
<1> HIDE DEF c
<1> QED
  BY <1>1, <1>2, <1>3, <1>4, <1>5, LastDataAppend

\* No asset is among the first 0 of a list.
LEMMA LastOfNone ==
  ASSUME NEW s \in Seq(Assets), NEW p, NEW a
  PROVE  LastOf(s, 0, p, a) <=> a = None
<1>1. Len(s) \in Nat /\ DOMAIN s = 1..Len(s)
  OBVIOUS
<1> QED
  BY <1>1 DEF LastOf

\* ... the store entries and the lookup, which the last package replaces ...
LEMMA LastWinsInductive ==
  ASSUME TypeOK, Stages, OnePlace, WrittenSoFar, LastWins, [Next]_vars
  PROVE  LastWins'
<1>0. fixup' = fixup
  BY DEF Next, Worker, Main, Returned, vars, StartAsset, ConvertAsset, ConvertFails, SendFails,
         EndProducer, Receive, WriteReceivedPackage, WriteBulk, EndBulk, Disconnected, FixArcs,
         FixFails, EndFix, FlushPackage, EndFlush, WriteFails, Join, Finalize, FinalizeFails
<1>. /\ k \in Nat \ {0} /\ converted \in Seq(Assets)
     /\ Len(converted) \in Nat /\ DOMAIN converted = 1..Len(converted)
     /\ toc \in Seq(ChunkKinds \X (Assets \cup {None}))
     /\ current \in Assets \cup {None}
  BY DEF TypeOK
<1>1. ASSUME Going', NEW p \in Packages PROVE LastData(toc', p, entry'[p])
  <2>. Going /\ LastData(toc, p, entry[p])
    BY <1>1, GoingBefore DEF LastWins
  <2>1. CASE WriteReceivedPackage
    BY <2>1, WritePackageKeepsLast DEF WriteReceivedPackage, TypeOK
  <2>2. CASE FlushPackage
    BY <2>2, WritePackageKeepsLast DEF FlushPackage
  <2>3. ASSUME NEW kind \in ChunkKinds, NEW b \in Assets \cup {None}, kind # "package",
               toc' = Append(toc, <<kind, b>>), entry' = entry
        PROVE  LastData(toc', p, entry'[p])
    <3>1. ~HasData(<<kind, b>>, p)
      BY <2>3 DEF HasData
    <3>2. <<kind, b>> \in ChunkKinds \X (Assets \cup {None})
      OBVIOUS
    <3> QED
      BY <2>3, <3>1, <3>2, LastDataAppend
  <2>4. CASE WriteBulk
    <3>1. /\ current \in Assets /\ k \in DOMAIN BulkKinds[current] /\ entry' = entry
          /\ toc' = Append(toc, <<BulkKinds[current][k], current>>)
      BY <2>4, BulkFacts DEF WriteBulk, TypeOK
    <3>2. BulkKinds[current][k] \in ChunkKinds /\ BulkKinds[current][k] # "package"
      BY <3>1, BulkFacts
    <3> QED
      BY <2>3, <3>1, <3>2
  <2>5. CASE Finalize
    BY <2>3, <2>5 DEF Finalize, ChunkKinds
  <2>6. \/ UNCHANGED <<toc, entry>>
        \/ WriteReceivedPackage \/ FlushPackage \/ WriteBulk \/ Finalize
    BY <1>1 DEF Next, Worker, Main, Returned, vars, StartAsset, ConvertAsset, ConvertFails, SendFails,
       EndProducer, Receive, EndBulk, Disconnected, FixArcs, FixFails, EndFix, EndFlush,
       WriteFails, Join, FinalizeFails, Going
  <2> QED
    BY <2>1, <2>2, <2>4, <2>5, <2>6
<1>2. ASSUME fixup, NEW p \in Packages PROVE LastOf(converted', Len(converted'), p, lookup'[p])
  <2>. LastOf(converted, Len(converted), p, lookup[p])
    BY <1>2 DEF LastWins
  <2>1. CASE EndBulk
    <3>1. /\ current \in Assets /\ converted' = Append(converted, current)
          /\ lookup'[p] = IF PackageOf[current] = p THEN current ELSE lookup[p]
      BY <1>2, <2>1 DEF EndBulk, Keep, TypeOK
    <3> QED
      BY <3>1, LastOfAppend
  <2>2. EndBulk \/ UNCHANGED <<converted, lookup>>
    BY DEF Next, Worker, Main, Returned, vars, StartAsset, ConvertAsset, ConvertFails, SendFails,
       EndProducer, Receive, WriteReceivedPackage, WriteBulk, Disconnected, FixArcs, FixFails, EndFix,
       FlushPackage, EndFlush, WriteFails, Join, Finalize, FinalizeFails
  <2> QED
    BY <2>1, <2>2
<1>3. ASSUME fixup, Going', NEW p \in Packages PROVE LastOf(converted', Flushed', p, entry'[p])
  <2>. Going /\ LastOf(converted, Flushed, p, entry[p])
    BY <1>3, GoingBefore DEF LastWins
  <2>1. CASE FlushPackage
    <3>1. /\ cpc = "flush" /\ cpc' = "flush" /\ k \in DOMAIN converted
          /\ k' = k + 1 /\ converted' = converted /\ converted[k] \in Assets
          /\ entry'[p] = IF PackageOf[converted[k]] = p THEN converted[k] ELSE entry[p]
      BY <2>1, PackageFacts DEF FlushPackage, WritePackage, TypeOK
    <3>2. Flushed = k - 1 /\ Flushed' = (k - 1) + 1 /\ k - 1 \in Nat /\ (k - 1) + 1 = k
      BY <3>1 DEF Flushed
    <3> HIDE DEF Flushed
    <3>3. (k - 1) + 1 \in DOMAIN converted
      BY <3>1, <3>2
    <3>4. /\ PackageOf[converted[k]] = p => LastOf(converted, (k - 1) + 1, p, converted[k])
          /\ PackageOf[converted[k]] # p => LastOf(converted, (k - 1) + 1, p, entry[p])
      BY <3>2, <3>3, LastOfNext
    <3> QED
      BY <3>1, <3>2, <3>4
  <2>2. CASE EndBulk
    <3>1. cpc = "bulk" /\ cpc' = "receive" /\ current \in Assets /\ entry' = entry
      BY <2>2 DEF EndBulk, TypeOK
    <3>2. converted' \in Seq(Assets)
      <4>1. converted' = Append(converted, current)
        BY <1>3, <2>2 DEF EndBulk, Keep
      <4>2. Append(converted, current) \in Seq(Assets)
        BY <3>1, AppendType
      <4> QED
        BY <4>1, <4>2
    <3>3. Flushed = 0 /\ Flushed' = 0
      BY <3>1 DEF Flushed
    <3> QED
      BY <3>1, <3>2, <3>3, LastOfNone
  <2>3. \/ FlushPackage \/ EndBulk
        \/ UNCHANGED <<converted, entry, cpc, k>>
        \/ UNCHANGED <<converted, entry>> /\ cpc \in {"receive", "package", "bulk", "fix"}
             /\ cpc' \in {"package", "bulk", "fix"}
        \/ EndFix \/ EndFlush
        \/ UNCHANGED <<converted, entry>> /\ cpc \in {"join", "finalize"} /\ cpc' \in {"finalize", "done"}
    BY <1>3 DEF Next, Worker, Main, Returned, vars, StartAsset, ConvertAsset, ConvertFails, SendFails,
         EndProducer, Receive, WriteReceivedPackage, WriteBulk, Disconnected, FixArcs, FixFails,
         WriteFails, Join, Finalize, FinalizeFails, Going, Stages
  <2>4. CASE EndFix
    BY <2>4 DEF EndFix, Flushed
  <2>5. CASE EndFlush
    BY <2>5 DEF EndFlush, Flushed, Stages
  <2> QED
    BY <2>1, <2>2, <2>3, <2>4, <2>5 DEF Flushed
<1> QED
  BY <1>0, <1>1, <1>2, <1>3 DEF LastWins

\* ... the arcs, which nothing changes once they are fixed up ...
LEMMA FixedSoFarInductive ==
  ASSUME TypeOK, Stages, FixedSoFar, [Next]_vars
  PROVE  FixedSoFar'
<1>0. fixup' = fixup
  BY DEF Next, Worker, Main, Returned, vars, StartAsset, ConvertAsset, ConvertFails, SendFails,
         EndProducer, Receive, WriteReceivedPackage, WriteBulk, EndBulk, Disconnected, FixArcs,
         FixFails, EndFix, FlushPackage, EndFlush, WriteFails, Join, Finalize, FinalizeFails
<1> SUFFICES ASSUME fixup, cpc' \in {"fix", "flush", "join", "finalize", "done"}, Going',
                    NEW i \in DOMAIN converted', i <= Fixed'
             PROVE  arcs'[converted'[i]]
                      = [p \in Imports[converted'[i]] |->
                           IF lookup'[p] = None THEN External ELSE lookup'[p]]
  BY <1>0 DEF FixedSoFar, Resolve
<1>. Going
  BY GoingBefore
<1>. /\ k \in Nat \ {0} /\ converted \in Seq(Assets)
     /\ Len(converted) \in Nat /\ DOMAIN converted = 1..Len(converted)
  BY DEF TypeOK
<1>1. CASE Disconnected
  BY <1>1 DEF Disconnected, Fixed
<1>2. CASE FixArcs
  <2>1. /\ cpc = "fix" /\ cpc' = "fix" /\ k \in DOMAIN converted
        /\ k' = k + 1 /\ converted' = converted /\ lookup' = lookup
        /\ converted[k] \in Assets /\ converted[i] \in Assets
        /\ arcs' = [arcs EXCEPT ![converted[k]] = [p \in Imports[converted[k]] |-> Resolve(p)]]
    BY <1>2 DEF FixArcs
  <2>2. Fixed = k - 1 /\ i \in 1..k
    BY <2>1 DEF Fixed
  <2>3. CASE converted[i] = converted[k]
    <3>1. arcs'[converted[i]] = [p \in Imports[converted[i]] |-> Resolve(p)]
      BY <2>1, <2>3 DEF TypeOK
    <3> QED
      BY <2>1, <3>1 DEF Resolve
  <2>4. CASE converted[i] # converted[k]
    <3>1. arcs'[converted[i]] = arcs[converted[i]] /\ i <= k - 1
      BY <2>1, <2>2, <2>4 DEF TypeOK
    <3>2. arcs[converted[i]] = [p \in Imports[converted[i]] |-> Resolve(p)]
      BY <2>1, <2>2, <3>1 DEF FixedSoFar
    <3> QED
      BY <2>1, <3>1, <3>2 DEF Resolve
  <2> QED
    BY <2>3, <2>4
<1>3. ASSUME UNCHANGED <<converted, lookup, arcs>>, Fixed' = Fixed,
             cpc \in {"fix", "flush", "join", "finalize", "done"}
      PROVE  arcs'[converted'[i]]
               = [p \in Imports[converted'[i]] |->
                    IF lookup'[p] = None THEN External ELSE lookup'[p]]
  BY <1>3 DEF FixedSoFar, Resolve
<1>4. CASE EndFix
  BY <1>3, <1>4 DEF EndFix, Fixed, Stages
<1>5. CASE UNCHANGED <<cpc, k, converted, lookup, arcs>>
  BY <1>3, <1>5 DEF Fixed
<1>6. CASE /\ cpc \in {"flush", "join", "finalize", "done"} /\ cpc' # "fix"
           /\ UNCHANGED <<converted, lookup, arcs>>
  BY <1>3, <1>6 DEF Fixed
<1>7. \/ Disconnected \/ FixArcs \/ EndFix
      \/ UNCHANGED <<cpc, k, converted, lookup, arcs>>
      \/ /\ cpc \in {"flush", "join", "finalize", "done"} /\ cpc' # "fix"
         /\ UNCHANGED <<converted, lookup, arcs>>
  BY DEF Next, Worker, Main, Returned, vars, StartAsset, ConvertAsset, ConvertFails, SendFails,
         EndProducer, Receive, WriteReceivedPackage, WriteBulk, EndBulk, FixFails, FlushPackage,
         EndFlush, WriteFails, Join, Finalize, FinalizeFails, Going
<1> QED
  BY <1>1, <1>2, <1>4, <1>5, <1>6, <1>7

\* ... and the bulk data in memory.
LEMMA LoadedInWorkInductive ==
  ASSUME TypeOK, LoadedInWork, [Next]_vars
  PROVE  LoadedInWork'
<1> SUFFICES ASSUME NEW a \in loaded', a # current'
             PROVE  \E w \in Workers : item'[w] = a
  BY DEF LoadedInWork
<1>. item \in [Workers -> Assets \cup {None}] /\ None \notin loaded
  BY PackageFacts DEF TypeOK
<1>1. a \in loaded /\ a # current => \E w \in Workers : item[w] = a
  BY DEF LoadedInWork
<1>2. ASSUME NEW w \in Workers, NEW b \in Assets, StartAsset(w, b)
      PROVE  \E v \in Workers : item'[v] = a
  <2>1. wpc[w] = "idle" /\ item[w] = None /\ item' = [item EXCEPT ![w] = b] /\ current' = current
        /\ loaded' = loaded \cup {b}
    BY <1>2 DEF StartAsset, TypeOK
  <2> QED
    BY <1>1, <2>1
<1>3. ASSUME NEW w \in Workers, ConvertFails(w) \/ SendFails(w)
      PROVE  \E v \in Workers : item'[v] = a
  BY <1>1, <1>3 DEF ConvertFails, SendFails, Release
<1>4. ASSUME NEW w \in Workers, Receive(w)
      PROVE  \E v \in Workers : item'[v] = a
  <2>1. /\ current = None /\ current' = item[w] /\ loaded' = loaded
        /\ item' = [item EXCEPT ![w] = None]
    BY <1>4 DEF Receive, Release, TypeOK
  <2> QED
    BY <1>1, <2>1
<1>5. CASE EndBulk \/ WriteFails
  BY <1>1, <1>5 DEF EndBulk, ReleaseBulk, WriteFails
<1>6. CASE UNCHANGED <<item, current, loaded>>
  BY <1>1, <1>6
<1> QED
  BY <1>2, <1>3, <1>4, <1>5, <1>6
     DEF Next, Worker, Main, Returned, vars, ConvertAsset, EndProducer, WriteReceivedPackage,
         WriteBulk, Disconnected, FixArcs, FixFails, EndFix, FlushPackage, EndFlush, Join,
         Finalize, FinalizeFails

\* The invariant holds before the first asset is taken.
LEMMA InitEstablishes ==
  ASSUME Init
  PROVE  IInv
<1> USE PackageFacts DEF Init
<1>1. TypeOK
  <2>1. /\ arcs = [a \in Assets |-> arcs[a]]
        /\ \A a \in Assets : arcs[a] \in [Imports[a] -> Assets \cup {Placeholder, External}]
    OBVIOUS
  <2>2. converted \in Seq(Assets) /\ toc \in Seq(ChunkKinds \X (Assets \cup {None}))
    OBVIOUS
  <2>3. /\ wpc \in [Workers -> {"idle", "convert", "send"}]
        /\ item \in [Workers -> Assets \cup {None}]
        /\ \A w \in Workers : item[w] = None <=> wpc[w] = "idle"
    OBVIOUS
  <2>4. lookup \in [Packages -> Assets \cup {None}] /\ entry \in [Packages -> Assets \cup {None}]
    OBVIOUS
  <2> HIDE DEF Init
  <2>5. /\ fixup \in BOOLEAN /\ producerFailed \in BOOLEAN /\ txOpen \in BOOLEAN
        /\ rxOpen \in BOOLEAN /\ finalized \in BOOLEAN
    BY Zenon DEF Init
  <2>6. /\ todo = Assets /\ loaded = {} /\ cpc = "receive"
        /\ current = None /\ k \in Nat \ {0} /\ outcome = "running"
    BY DEF Init
  <2> QED
    BY <2>1, <2>2, <2>3, <2>4, <2>5, <2>6 DEF TypeOK
<1>2. Stages
  BY DEF Stages
<1>3. converted = <<>> /\ toc = <<>> /\ DOMAIN converted = {} /\ DOMAIN toc = {}
  OBVIOUS
<1>4. /\ \A x : ~In(converted, x) /\ ~In(toc, x)
      /\ Distinct(converted) /\ Distinct(toc)
      /\ \A p, n : LastOf(converted, n, p, None) /\ LastData(toc, p, None)
  BY <1>3 DEF In, Distinct, LastOf, LastData
<1>5. Done = {}
  BY <1>4 DEF Done
<1>6. OnePlace
  BY <1>4, <1>5 DEF OnePlace
<1>7. NoneLost
  BY DEF NoneLost
<1>8. WrittenSoFar
  BY <1>3, <1>4, <1>5 DEF WrittenSoFar, WrittenOnce, BulkWritten, PackageFirst, PackagesFlushed
<1>9. LastWins
  BY <1>4 DEF LastWins
<1>10. FixedSoFar
  BY DEF FixedSoFar
<1>11. LoadedInWork
  BY DEF LoadedInWork
<1> QED
  BY <1>1, <1>2, <1>6, <1>7, <1>8, <1>9, <1>10, <1>11 DEF IInv

-----------------------------------------------------------------------------
(* The theorems.                                                           *)

\* The invariant holds in every state of the command.
THEOREM ConversionSafety == Spec => []IInv
<1>1. Init => IInv
  BY InitEstablishes
<1>2. IInv /\ [Next]_vars => IInv'
  BY TypesInductive, StagesInductive, OnePlaceInductive, NoneLostInductive, WrittenOnceInductive,
     BulkWrittenInductive, PackageFirstInductive, PackagesFlushedInductive, LastWinsInductive,
     FixedSoFarInductive, LoadedInWorkInductive
     DEF IInv, WrittenSoFar
<1> QED
  BY <1>1, <1>2, PTL DEF Spec

\* The variables of the to-zen command have their types, for any workers and assets.
THEOREM TypeCorrect == Spec => []TypeOK
BY ConversionSafety, PTL DEF IInv

\* One of two assets that are the last package data of p is the other one.
LEMMA LastDataVisible ==
  ASSUME TypeOK, NEW p \in Packages, NEW a, LastData(toc, p, a)
  PROVE  a = Visible(p)
<1> DEFINE last == {i \in DOMAIN toc : toc[i][1] = "package" /\ PackageOf[toc[i][2]] = p}
<1>. Len(toc) \in Nat /\ DOMAIN toc = 1..Len(toc)
  BY DEF TypeOK
<1>1. CASE last = {}
  BY <1>1 DEF LastData, HasData, Visible
<1>2. CASE last # {}
  <2>1. PICK i \in last : a = toc[i][2] /\ \A j \in last : j <= i
    BY <1>2 DEF LastData, HasData
  <2>2. \A m \in last : (\A j \in last : j <= m) => m = i
    BY <2>1
  <2>3. (CHOOSE m \in last : \A j \in last : j <= m) = i
    BY <2>1, <2>2
  <2> QED
    BY <1>2, <2>1, <2>3 DEF Visible
<1> QED
  BY <1>1, <1>2

\* In a published container, every asset is finished.
LEMMA PublishedAll ==
  ASSUME IInv, finalized
  PROVE  /\ Going /\ cpc = "done" /\ outcome = "ok" /\ \A a \in Assets : a \in Done
         /\ Flushed = Len(converted) /\ Fixed = Len(converted)
<1>1. Going /\ cpc = "done" /\ outcome = "ok" /\ ~producerFailed /\ ~txOpen
  BY DEF IInv, Stages, Going, TypeOK
<1>2. todo = {} /\ current = None /\ \A w \in Workers : item[w] = None
  BY <1>1 DEF IInv, Stages, TypeOK
<1>3. \A a \in Assets : a \in Done
  BY <1>1, <1>2, PackageFacts DEF IInv, NoneLost
<1> QED
  BY <1>1, <1>3 DEF Flushed, Fixed

\* A command that publishes a container has written every chunk of every asset
\* exactly once, and one that met an error in a worker or in a write publishes none.
THEOREM PublishesAllOrNothing == Spec => []AllOrNothing
<1>1. IInv => AllOrNothing
  <2> SUFFICES ASSUME IInv, finalized, NEW a \in Assets, NEW c \in ChunksOf(a)
               PROVE  Cardinality(Positions(c)) = 1
    BY DEF AllOrNothing, IInv, Stages
  <2>1. a \in Done /\ Going /\ Distinct(toc) /\ a # current
    BY PublishedAll DEF IInv, WrittenSoFar, WrittenOnce, OnePlace
  <2>2. In(toc, c)
    <3>1. CASE c = <<"package", a>>
      <4>1. CASE fixup
        <5>1. In(converted, a)
          BY <2>1, <4>1 DEF Done
        <5>2. PICK i \in DOMAIN converted : converted[i] = a
          BY <5>1 DEF In
        <5>3. i <= Flushed
          BY <5>2, PublishedAll DEF IInv, TypeOK
        <5> QED
          BY <2>1, <3>1, <4>1, <5>2, <5>3 DEF IInv, WrittenSoFar, PackagesFlushed
      <4>2. CASE ~fixup
        BY <2>1, <3>1, <4>2 DEF Done
      <4> QED
        BY <4>1, <4>2
    <3>2. ASSUME NEW i \in DOMAIN BulkKinds[a], c = <<BulkKinds[a][i], a>> PROVE In(toc, c)
      BY <2>1, <3>2 DEF IInv, WrittenSoFar, BulkWritten
    <3> QED
      BY <3>1, <3>2 DEF ChunksOf
  <2>3. PICK i \in DOMAIN toc : toc[i] = c
    BY <2>2 DEF In
  <2>4. Positions(c) = {i}
    BY <2>1, <2>3 DEF Positions, Distinct
  <2> QED
    BY <2>4, FS_Singleton
<1> QED
  BY <1>1, ConversionSafety, PTL

\* The store entry that a published header has for a package and the package data
\* that a reader finds are of the same asset, also when two assets name one package.
THEOREM EntriesMatchData == Spec => []EntryMatchesData
<1>1. IInv => EntryMatchesData
  BY PublishedAll, LastDataVisible DEF IInv, LastWins, EntryMatchesData
<1> QED
  BY <1>1, ConversionSafety, PTL

\* Every arc of a published container was resolved in the asset that a reader finds
\* under the imported package, and is external only if there is none.
THEOREM ArcsMatch == Spec => []ArcsMatchReader
<1>1. IInv => ArcsMatchReader
  <2> SUFFICES ASSUME IInv, finalized, fixup, NEW a \in Assets, NEW p \in Imports[a]
               PROVE  arcs[a][p] = IF Visible(p) = None THEN External ELSE Visible(p)
    BY DEF ArcsMatchReader
  <2>1. /\ Going /\ cpc = "done" /\ a \in Done /\ p \in Packages
        /\ Flushed = Len(converted) /\ Fixed = Len(converted)
        /\ converted \in Seq(Assets) /\ Len(converted) \in Nat
    BY PublishedAll, PackageFacts DEF IInv, TypeOK
  <2>2. entry[p] = Visible(p)
    BY <2>1, LastDataVisible DEF IInv, LastWins
  <2>3. lookup[p] = entry[p]
    BY <2>1, LastOfUnique DEF IInv, LastWins
  <2>4. PICK i \in DOMAIN converted : converted[i] = a
    BY <2>1 DEF Done, In
  <2>5. arcs[a] = [q \in Imports[a] |-> Resolve(q)]
    BY <2>1, <2>4 DEF IInv, FixedSoFar
  <2> QED
    BY <2>2, <2>3, <2>5 DEF Resolve
<1> QED
  BY <1>1, ConversionSafety, PTL

\* No more assets have their bulk data in memory than there are workers, and the
\* one that is being written.
THEOREM BulkBounded == Spec => []BulkDataBounded
<1>1. IInv => BulkDataBounded
  <2> SUFFICES ASSUME IInv PROVE Cardinality(loaded) <= Cardinality(Workers) + 1
    BY DEF BulkDataBounded
  <2> DEFINE items == {item[w] : w \in Workers}
  <2>1. IsFiniteSet(Workers)
    BY ConversionAssumption
  <2>2. IsFiniteSet(items) /\ Cardinality(items) <= Cardinality(Workers)
    <3>1. ASSUME NEW T, T = {item[w] : w \in Workers}
          PROVE  IsFiniteSet(T) /\ Cardinality(T) <= Cardinality(Workers)
      <4>1. [w \in Workers |-> item[w]] \in Surjection(Workers, T)
        BY <3>1 DEF Surjection
      <4> QED
        BY <2>1, <4>1, FS_Surjection
    <3> QED
      BY <3>1
  <2> HIDE DEF items
  <2>3. /\ IsFiniteSet(items \cup {current})
        /\ Cardinality(items \cup {current}) <= Cardinality(items) + 1
        /\ Cardinality(items) \in Nat /\ Cardinality(Workers) \in Nat
        /\ Cardinality(items \cup {current}) \in Nat
    <3>1. Cardinality(items) \in Nat /\ Cardinality(Workers) \in Nat
      BY <2>1, <2>2, FS_CardinalityType
    <3>2. /\ IsFiniteSet(items \cup {current})
          /\ \/ Cardinality(items \cup {current}) = Cardinality(items)
             \/ Cardinality(items \cup {current}) = Cardinality(items) + 1
      BY <2>2, FS_AddElement
    <3> QED
      BY <3>1, <3>2
  <2>4. loaded \subseteq items \cup {current}
    BY DEF IInv, LoadedInWork, items
  <2>5. Cardinality(loaded) <= Cardinality(items \cup {current}) /\ Cardinality(loaded) \in Nat
    BY <2>3, <2>4, FS_Subset, FS_CardinalityType
  <2> QED
    BY <2>2, <2>3, <2>5
<1> QED
  BY <1>1, ConversionSafety, PTL
=============================================================================
