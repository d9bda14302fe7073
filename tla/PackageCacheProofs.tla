------------------------- MODULE PackageCacheProofs -------------------------
(***************************************************************************)
(* Proofs about PackageCache, for any workers, packages and number of      *)
(* lookups.                                                                *)
(***************************************************************************)
EXTENDS PackageCache, TLAPS

USE CacheAssumption DEF Answers, Outcomes, Places, Inside

\* A load counts itself and goes on to record its outcome.
LEMMA LoadStep ==
  ASSUME NEW t \in Threads, Load(t)
  PROVE  /\ pc[t] = "load"
         /\ \E place \in {"publish", "reject"} : pc' = [pc EXCEPT ![t] = place]
         /\ loads' = [loads EXCEPT ![arg[t]] = loads[arg[t]] + 1]
         /\ UNCHANGED <<cache, failed, keyOwner, arg, found, result, lookups>>
BY DEF Load, Goto

\* Types and the discipline of the package locks are kept by every step.
LEMMA LocksInductive ==
  ASSUME TypeOK, LockDiscipline, [Next]_vars
  PROVE  TypeOK' /\ LockDiscipline'
<1> USE DEF TypeOK, LockDiscipline, Goto, Return, Known
<1>1. ASSUME NEW t \in Threads, NEW p \in Packages, Call(t, p)
      PROVE  TypeOK' /\ LockDiscipline'
  BY <1>1 DEF Call
<1>2. ASSUME NEW t \in Threads, ProbeHit(t)
      PROVE  TypeOK' /\ LockDiscipline'
  BY <1>2 DEF ProbeHit
<1>3. ASSUME NEW t \in Threads, ProbeMiss(t)
      PROVE  TypeOK' /\ LockDiscipline'
  BY <1>3 DEF ProbeMiss
<1>4. ASSUME NEW t \in Threads, LockPackage(t)
      PROVE  TypeOK' /\ LockDiscipline'
  BY <1>4 DEF LockPackage
<1>5. ASSUME NEW t \in Threads, Reprobe(t)
      PROVE  TypeOK' /\ LockDiscipline'
  BY <1>5 DEF Reprobe
<1>6. ASSUME NEW t \in Threads, Load(t)
      PROVE  TypeOK' /\ LockDiscipline'
  <2>0. /\ pc[t] = "load"
        /\ loads' = [loads EXCEPT ![arg[t]] = loads[arg[t]] + 1]
        /\ cache' = cache /\ failed' = failed /\ keyOwner' = keyOwner /\ arg' = arg
        /\ found' = found /\ result' = result /\ lookups' = lookups
    BY <1>6, LoadStep
  <2>1. PICK place \in {"publish", "reject"} : pc' = [pc EXCEPT ![t] = place]
    BY <1>6, LoadStep
  <2>2. TypeOK'
    BY <2>0, <2>1
  <2>3. LockDiscipline'
    BY <2>0, <2>1
  <2> QED
    BY <2>2, <2>3
<1>7. ASSUME NEW t \in Threads, Publish(t) \/ Reject(t)
      PROVE  TypeOK' /\ LockDiscipline'
  BY <1>7 DEF Publish, Reject
<1>8. ASSUME NEW t \in Threads, Unlock(t)
      PROVE  TypeOK' /\ LockDiscipline'
  BY <1>8 DEF Unlock
<1>9. CASE UNCHANGED vars
  BY <1>9 DEF vars
<1> QED
  BY <1>1, <1>2, <1>3, <1>4, <1>5, <1>6, <1>7, <1>8, <1>9 DEF Next, Finished

\* What the loads have to do with the records, and what is returned.
RecordInv == LoadsAccounted /\ OneVerdict /\ ReturnsTheAnswer

\* A step that neither loads, records nor enters or leaves the loading places
\* keeps the accounts.
LEMMA RecordsInductive ==
  ASSUME TypeOK, LockDiscipline, RecordInv, [Next]_vars
  PROVE  RecordInv'
<1> USE DEF TypeOK, LockDiscipline, RecordInv, LoadsAccounted, OneVerdict,
            ReturnsTheAnswer, Recorded, Publishing, Goto, Return, Known
<1>1. ASSUME NEW t \in Threads, NEW p \in Packages, Call(t, p) PROVE RecordInv'
  BY <1>1 DEF Call
<1>2. ASSUME NEW t \in Threads, ProbeHit(t) PROVE RecordInv'
  BY <1>2 DEF ProbeHit
<1>3. ASSUME NEW t \in Threads, ProbeMiss(t) PROVE RecordInv'
  BY <1>3 DEF ProbeMiss
<1>4. ASSUME NEW t \in Threads, LockPackage(t) PROVE RecordInv'
  BY <1>4 DEF LockPackage
<1>5. ASSUME NEW t \in Threads, Reprobe(t) PROVE RecordInv'
  BY <1>5 DEF Reprobe
<1>6. ASSUME NEW t \in Threads, Load(t) PROVE RecordInv'
  <2>0. /\ pc[t] = "load"
        /\ loads' = [loads EXCEPT ![arg[t]] = loads[arg[t]] + 1]
        /\ cache' = cache /\ failed' = failed /\ keyOwner' = keyOwner /\ arg' = arg
        /\ found' = found /\ result' = result /\ lookups' = lookups
    BY <1>6, LoadStep
  <2>1. PICK place \in {"publish", "reject"} : pc' = [pc EXCEPT ![t] = place]
    BY <1>6, LoadStep
  <2>2. /\ arg[t] \in Packages /\ arg[t] \notin Recorded /\ loads[arg[t]] = 0
        /\ \A u \in Threads : arg[u] = arg[t] /\ pc[u] \in Inside => u = t
    BY <2>0
  <2>3. \A p \in Packages : Publishing(p)' <=> Publishing(p) \/ p = arg[t]
    BY <2>0, <2>1, <2>2
  <2>4. Recorded' = Recorded
    BY <2>0
  <2>5. \A p \in Packages : loads'[p] = IF p = arg[t] THEN 1 ELSE loads[p]
    BY <2>0, <2>2
  <2>6. LoadsAccounted'
    <3>1. \A p \in Packages : loads'[p] = IF p \in Recorded' \/ Publishing(p)' THEN 1 ELSE 0
      <4> HIDE DEF Recorded, Publishing
      <4> QED
        BY <2>2, <2>3, <2>4, <2>5
    <3>2. \A p \in Packages : p \in Recorded' =>
            \A u \in Threads : arg'[u] = p => pc'[u] \notin {"load", "publish", "reject"}
      BY <2>0, <2>1, <2>2
    <3> QED
      BY <3>1, <3>2
  <2>7. OneVerdict' /\ ReturnsTheAnswer'
    BY <2>0, <2>1
  <2> QED
    BY <2>6, <2>7
<1>7. ASSUME NEW t \in Threads, Publish(t) PROVE RecordInv'
  BY <1>7 DEF Publish
<1>8. ASSUME NEW t \in Threads, Reject(t) PROVE RecordInv'
  BY <1>8 DEF Reject
<1>9. ASSUME NEW t \in Threads, Unlock(t) PROVE RecordInv'
  BY <1>9 DEF Unlock
<1>10. CASE UNCHANGED vars
  BY <1>10 DEF vars
<1> QED
  BY <1>1, <1>2, <1>3, <1>4, <1>5, <1>6, <1>7, <1>8, <1>9, <1>10 DEF Next, Finished

\* The inductive invariant holds in every reachable state of the cache.
THEOREM CacheSafety == Spec => []IInv
<1>1. Init => IInv
  BY DEF Init, IInv, TypeOK, LockDiscipline, LoadsAccounted, OneVerdict,
         ReturnsTheAnswer, Recorded, Publishing
<1>2. IInv /\ [Next]_vars => IInv'
  BY LocksInductive, RecordsInductive DEF IInv, RecordInv
<1> QED
  BY <1>1, <1>2, PTL DEF Spec

\* Types are kept by every step of every worker.
THEOREM TypeCorrect == Spec => []TypeOK
BY CacheSafety, PTL DEF IInv

\* No package is loaded twice, however the workers interleave and whether the
\* load succeeds or fails.
THEOREM LoadedOnce == Spec => []SingleLoad
<1>1. IInv => SingleLoad
  BY DEF IInv, TypeOK, LoadsAccounted, SingleLoad
<1> QED
  BY <1>1, CacheSafety, PTL

\* No package is ever both cached and failed.
THEOREM VerdictUnique == Spec => []OneVerdict
BY CacheSafety, PTL DEF IInv

\* Only the holder of a package's lock is in its critical section.
THEOREM LocksRespected == Spec => []LockDiscipline
BY CacheSafety, PTL DEF IInv

\* Each step of lookup is a step of the abstract table, or invisible to it.
LEMMA StepRefines ==
  ASSUME IInv, [Next]_vars
  PROVE  [Memo!Next]_Memo!vars
<1> DEFINE memo == [p \in Packages |-> Known(p)]
<1> USE DEF Memo!vars, Memo!Next, Memo!Answers
<1> USE DEF IInv, TypeOK, OneVerdict, LoadsAccounted, ReturnsTheAnswer, LockDiscipline,
            Recorded, Publishing, Goto, Return, Known
<1>1. ASSUME NEW t \in Threads, NEW p \in Packages, Call(t, p)
      PROVE  Memo!Ask(t, p)
  BY <1>1 DEF Call, Memo!Ask
<1>2. ASSUME NEW t \in Threads, ProbeHit(t)
      PROVE  Memo!Reply(t)
  <2>1. arg[t] \in Packages /\ memo[arg[t]] = Known(arg[t]) /\ memo[arg[t]] \in Answers
    BY <1>2 DEF ProbeHit
  <2>2. memo' = memo
    BY <1>2 DEF ProbeHit
  <2>3. result' = [result EXCEPT ![t] = memo[arg[t]]]
    BY <1>2, <2>1 DEF ProbeHit
  <2>4. arg' = [arg EXCEPT ![t] = Nobody]
    BY <1>2 DEF ProbeHit
  <2> QED
    BY ONLY <2>1, <2>2, <2>3, <2>4 DEF Memo!Reply, Memo!Answers, Answers
<1>3. ASSUME NEW t \in Threads, ProbeMiss(t) \/ LockPackage(t) \/ Reprobe(t) \/ Load(t)
      PROVE  UNCHANGED Memo!vars
  BY <1>3 DEF ProbeMiss, LockPackage, Reprobe, Load
<1>4. ASSUME NEW t \in Threads, Publish(t)
      PROVE  Memo!Settle(arg[t], "header")
  <2>1. arg[t] \notin Recorded
    BY <1>4 DEF Publish
  <2>2. memo' = [memo EXCEPT ![arg[t]] = "header"]
    BY <1>4, <2>1 DEF Publish
  <2> QED
    BY <1>4, <2>1, <2>2 DEF Publish, Memo!Settle
<1>5. ASSUME NEW t \in Threads, Reject(t)
      PROVE  Memo!Settle(arg[t], "failure")
  <2>1. arg[t] \notin Recorded
    BY <1>5 DEF Reject
  <2>2. memo' = [memo EXCEPT ![arg[t]] = "failure"]
    <3>1. cache' = cache /\ failed' = failed \cup {arg[t]}
      BY <1>5 DEF Reject
    <3>2. \A p \in Packages :
            memo'[p] = IF p = arg[t] THEN "failure" ELSE memo[p]
      <4>1. \A p \in Packages : memo[p] = Known(p) /\ memo'[p] = Known(p)'
        OBVIOUS
      <4> HIDE DEF memo
      <4> QED
        BY <2>1, <3>1, <4>1
    <3>3. /\ memo' = [p \in Packages |-> memo'[p]]
          /\ memo = [p \in Packages |-> memo[p]]
      OBVIOUS
    <3> HIDE DEF memo
    <3> QED
      BY <3>2, <3>3
  <2> QED
    BY <1>5, <2>1, <2>2 DEF Reject, Memo!Settle
<1>6. ASSUME NEW t \in Threads, Unlock(t)
      PROVE  Memo!Reply(t)
  <2>1. arg[t] \in Packages /\ memo[arg[t]] = found[t] /\ found[t] \in Answers
    BY <1>6 DEF Unlock
  <2>2. memo' = memo
    BY <1>6 DEF Unlock
  <2>3. result' = [result EXCEPT ![t] = memo[arg[t]]]
    BY <1>6, <2>1 DEF Unlock
  <2>4. arg' = [arg EXCEPT ![t] = Nobody]
    BY <1>6 DEF Unlock
  <2> QED
    BY ONLY <2>1, <2>2, <2>3, <2>4 DEF Memo!Reply, Memo!Answers, Answers
<1>7. CASE UNCHANGED vars
  BY <1>7 DEF vars
<1>8. ASSUME NEW t \in Threads, Publish(t) \/ Reject(t)
      PROVE  arg[t] \in Packages
  BY <1>8 DEF Publish, Reject
<1> QED
  BY <1>1, <1>2, <1>3, <1>4, <1>5, <1>6, <1>7, <1>8 DEF Next, Finished

\* The cache with its locks implements the table that settles each package
\* once: what every worker is told about a package is the same for all time.
THEOREM CacheActsAsMemo == Spec => ActsAsMemo
<1>1. Init => Memo!Init
  BY DEF Init, Memo!Init, Known
<1> QED
  BY <1>1, StepRefines, CacheSafety, PTL DEF Spec, ActsAsMemo, Memo!Spec
=============================================================================
