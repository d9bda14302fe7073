--------------------------- MODULE FilePoolProofs ---------------------------
(***************************************************************************)
(* Proofs about FilePool, for any number of threads, handles and reads.    *)
(***************************************************************************)
EXTENDS FilePool, FiniteSetTheorems, TLAPS

USE PoolAssumption DEF Handles, None

\* What a pool step preserves without looking at where the handles are.
TypeInv == TypeOK /\ HeldWhileReading /\ SleepersAreOverLimit

\* Threads waiting for the lock are finitely many, so they can be counted.
LEMMA LoopersFinite ==
  /\ IsFiniteSet(At("loop"))
  /\ Cardinality(At("loop")) \in Nat
<1>1. At("loop") \subseteq Threads
  BY DEF At
<1> QED
  BY <1>1, FS_Subset, FS_CardinalityType

\* Taking the head off a queue without repetitions: the rest has no
\* repetitions, does not hold the head, and loses nothing else.
LEMMA TailOfDistinct ==
  ASSUME NEW S, NEW q \in Seq(S), q # <<>>,
         \A i, j \in DOMAIN q : q[i] = q[j] => i = j
  PROVE  /\ q[1] \in S
         /\ \A i \in DOMAIN Tail(q) : Tail(q)[i] # q[1]
         /\ \A i \in DOMAIN Tail(q) : \E k \in DOMAIN q : Tail(q)[i] = q[k]
         /\ \A i, j \in DOMAIN Tail(q) : Tail(q)[i] = Tail(q)[j] => i = j
         /\ {Tail(q)[i] : i \in DOMAIN Tail(q)} \cup {q[1]}
              = {q[i] : i \in DOMAIN q}
<1> DEFINE r == Tail(q)
<1>1. /\ Len(q) \in Nat \ {0} /\ DOMAIN q = 1..Len(q)
      /\ DOMAIN r = 1..(Len(q) - 1)
  OBVIOUS
<1>2. ASSUME NEW i \in DOMAIN r
      PROVE  /\ r[i] = q[i + 1]
             /\ i + 1 \in DOMAIN q /\ i + 1 # 1
             /\ i \in Nat
  BY <1>1
<1>3. 1 \in DOMAIN q /\ q[1] \in S
  BY <1>1
<1> HIDE DEF r
<1>4. \A i \in DOMAIN r : r[i] # q[1]
  BY <1>2, <1>3
<1>5. \A i, j \in DOMAIN r : r[i] = r[j] => i = j
  <2> SUFFICES ASSUME NEW i \in DOMAIN r, NEW j \in DOMAIN r, r[i] = r[j]
               PROVE  i = j
    OBVIOUS
  <2>1. i + 1 = j + 1
    BY <1>2
  <2> QED
    BY <2>1, <1>2
<1>6. \A k \in DOMAIN q : k # 1 => k - 1 \in DOMAIN r /\ (k - 1) + 1 = k
  BY <1>1
<1>7. {r[i] : i \in DOMAIN r} \cup {q[1]} = {q[i] : i \in DOMAIN q}
  <2>1. ASSUME NEW k \in DOMAIN q, k # 1
        PROVE  \E i \in DOMAIN r : r[i] = q[k]
    BY <1>2, <1>6, <2>1
  <2> QED
    BY <1>2, <1>3, <2>1
<1> QED
  BY <1>2, <1>3, <1>4, <1>5, <1>7 DEF r

\* Types, ownership only while reading, and sleeping only over the limit.
LEMMA TypeInvInductive ==
  ASSUME TypeInv, [Next]_vars
  PROVE  TypeInv'
<1> USE DEF TypeInv, TypeOK, HeldWhileReading, SleepersAreOverLimit, Places, At
<1>1. ASSUME NEW t \in Threads, CallAcquire(t) PROVE TypeInv'
  BY <1>1 DEF CallAcquire
<1>2. ASSUME NEW t \in Threads, TakeAvailable(t) PROVE TypeInv'
  BY <1>2 DEF TakeAvailable
<1>3. ASSUME NEW t \in Threads, OpenHandle(t) PROVE TypeInv'
  BY <1>3 DEF OpenHandle
<1>4. ASSUME NEW t \in Threads, OpenFails(t) PROVE TypeInv'
  BY <1>4 DEF OpenFails
<1>5. ASSUME NEW t \in Threads, Sleep(t) PROVE TypeInv'
  BY <1>5 DEF Sleep
<1>6. ASSUME NEW t \in Threads, SpuriousWake(t) PROVE TypeInv'
  BY <1>6 DEF SpuriousWake
<1>7. ASSUME NEW t \in Threads, DropHandle(t) PROVE TypeInv'
  <2>1. held[t] \in Handles
    BY <1>7 DEF DropHandle
  <2>2. \E S \in SUBSET At("asleep") :
          pc' = [u \in Threads |-> IF u = t THEN "idle"
                                   ELSE IF u \in S THEN "loop" ELSE pc[u]]
    <3>1. CASE At("asleep") = {}
      BY <1>7, <3>1 DEF DropHandle, NotifyOne
    <3>2. CASE At("asleep") # {}
      <4>1. PICK s \in At("asleep") :
              pc' = [pc EXCEPT ![t] = "idle", ![s] = "loop"]
        BY <1>7, <3>2 DEF DropHandle, NotifyOne
      <4>2. s # t
        BY <1>7 DEF DropHandle
      <4> QED
        BY <4>1, <4>2, {s} \in SUBSET At("asleep")
    <3> QED
      BY <3>1, <3>2
  <2>3. PICK S \in SUBSET At("asleep") :
          pc' = [u \in Threads |-> IF u = t THEN "idle"
                                   ELSE IF u \in S THEN "loop" ELSE pc[u]]
    BY <2>2
  <2>4. TypeOK' /\ HeldWhileReading'
    BY <1>7, <2>1, <2>3 DEF DropHandle
  <2>5. At("asleep")' \subseteq At("asleep")
    BY <2>3
  <2> QED
    BY <1>7, <2>4, <2>5 DEF DropHandle
<1>8. CASE UNCHANGED vars
  BY <1>8 DEF vars
<1> QED
  BY <1>1, <1>2, <1>3, <1>4, <1>5, <1>6, <1>7, <1>8 DEF Next, Finished

\* The handles stay where exactly one owner has them.
LEMMA HandlesInductive ==
  ASSUME TypeInv, HandlesExclusive, NoHandleLeaks, [Next]_vars
  PROVE  HandlesExclusive' /\ NoHandleLeaks'
<1> USE DEF TypeInv, TypeOK, HeldWhileReading, HandlesExclusive, NoHandleLeaks, At,
            IdleHandles, OwnedHandles
<1>0. CASE UNCHANGED <<available, activeCount, held>> /\ At("reading")' = At("reading")
  BY <1>0
<1>1. ASSUME NEW t \in Threads, CallAcquire(t)
      PROVE  HandlesExclusive' /\ NoHandleLeaks'
  BY <1>0, <1>1 DEF CallAcquire
<1>2. ASSUME NEW t \in Threads, TakeAvailable(t)
      PROVE  HandlesExclusive' /\ NoHandleLeaks'
  <2>0. available \in Seq(Handles) /\ available # <<>>
    BY <1>2 DEF TakeAvailable
  <2>1. /\ held' = [held EXCEPT ![t] = available[1]]
        /\ available' = Tail(available)
        /\ held[t] = None
    BY <1>2 DEF TakeAvailable
  <2> DEFINE rest == Tail(available)
  <2>8. /\ available[1] \in Handles
        /\ \A i \in DOMAIN rest : rest[i] # available[1]
        /\ \A i \in DOMAIN rest : \E k \in DOMAIN available : rest[i] = available[k]
        /\ \A i, j \in DOMAIN rest : rest[i] = rest[j] => i = j
        /\ {rest[i] : i \in DOMAIN rest} \cup {available[1]}
             = {available[i] : i \in DOMAIN available}
    <3>1. \A i, j \in DOMAIN available : available[i] = available[j] => i = j
      OBVIOUS
    <3> QED
      BY <2>0, <3>1, TailOfDistinct
  <2> HIDE DEF rest
  <2>9. available' = rest
    BY <2>1 DEF rest
  <2>2. HandlesExclusive'
    <3>1. \A u \in Threads : held[u] # available[1]
      BY <2>0
    <3>2. \A u \in Threads, i \in DOMAIN rest : held[u] # rest[i]
      BY <2>8
    <3>3. \A u, v \in Threads : held'[u] = held'[v] /\ held'[u] # None => u = v
      BY <2>1, <3>1
    <3>4. \A i, j \in DOMAIN available' : available'[i] = available'[j] => i = j
      BY ONLY <2>8, <2>9
    <3>5. \A u \in Threads, i \in DOMAIN rest : held'[u] # rest[i]
      BY <2>1, <2>8, <3>2
    <3> QED
      BY ONLY <2>9, <3>3, <3>4, <3>5 DEF HandlesExclusive
  <2>3. At("reading")' = At("reading") \cup {t}
    BY <1>2 DEF TakeAvailable
  <2>4. IdleHandles' \cup {available[1]} = IdleHandles
    <3>1. IdleHandles' = {rest[i] : i \in DOMAIN rest}
      BY ONLY <2>9 DEF IdleHandles
    <3>2. IdleHandles = {available[i] : i \in DOMAIN available}
      BY DEF IdleHandles
    <3> HIDE DEF IdleHandles
    <3> QED
      BY ONLY <2>8, <3>1, <3>2
  <2>5. OwnedHandles' = OwnedHandles \cup {available[1]}
    BY <1>2, <2>1, <2>3 DEF TakeAvailable
  <2>6. activeCount' = activeCount
    BY <1>2 DEF TakeAvailable
  <2>7. NoHandleLeaks'
    <3> HIDE DEF IdleHandles, OwnedHandles
    <3> QED
      BY <2>4, <2>5, <2>6
  <2> QED
    BY <2>2, <2>7
<1>3. ASSUME NEW t \in Threads, OpenHandle(t)
      PROVE  HandlesExclusive' /\ NoHandleLeaks'
  <2>1. /\ available = <<>> /\ available' = available
        /\ At("reading")' = At("reading") \cup {t}
        /\ held' = [held EXCEPT ![t] = activeCount + 1]
    BY <1>3 DEF OpenHandle
  <2>2. \A u \in Threads : held[u] # activeCount + 1
    BY <2>1
  <2>3. 1..activeCount' = 1..activeCount \cup {activeCount + 1}
    BY <1>3 DEF OpenHandle
  <2>4. OwnedHandles' = OwnedHandles \cup {activeCount + 1}
    BY <1>3, <2>1 DEF OpenHandle
  <2>5. HandlesExclusive'
    BY <2>1, <2>2
  <2>6. IdleHandles' = IdleHandles
    BY <2>1
  <2>7. NoHandleLeaks'
    <3> HIDE DEF IdleHandles, OwnedHandles
    <3> QED
      BY <2>3, <2>4, <2>6
  <2> QED
    BY <2>5, <2>7
<1>4. ASSUME NEW t \in Threads, OpenFails(t)
      PROVE  HandlesExclusive' /\ NoHandleLeaks'
  BY <1>0, <1>4 DEF OpenFails
<1>5. ASSUME NEW t \in Threads, Sleep(t)
      PROVE  HandlesExclusive' /\ NoHandleLeaks'
  BY <1>0, <1>5 DEF Sleep
<1>6. ASSUME NEW t \in Threads, SpuriousWake(t)
      PROVE  HandlesExclusive' /\ NoHandleLeaks'
  BY <1>0, <1>6 DEF SpuriousWake
<1>7. ASSUME NEW t \in Threads, DropHandle(t)
      PROVE  HandlesExclusive' /\ NoHandleLeaks'
  <2>1. /\ held[t] \in Handles
        /\ available' = Append(available, held[t])
        /\ held' = [held EXCEPT ![t] = None]
        /\ activeCount' = activeCount
    BY <1>7 DEF DropHandle
  <2>2. /\ Len(available) \in Nat
        /\ DOMAIN available' = DOMAIN available \cup {Len(available) + 1}
        /\ available'[Len(available) + 1] = held[t]
        /\ \A i \in DOMAIN available : available'[i] = available[i]
    BY <2>1
  <2>3. HandlesExclusive'
    BY <2>1, <2>2
  <2>4. At("reading")' = At("reading") \ {t}
    BY <1>7 DEF DropHandle, NotifyOne, Places
  <2>5. t \in At("reading")
    BY <1>7 DEF DropHandle
  <2>6. IdleHandles' = IdleHandles \cup {held[t]}
    BY <2>2
  <2>7. OwnedHandles' \cup {held[t]} = OwnedHandles
    BY <2>1, <2>4, <2>5
  <2>8. NoHandleLeaks'
    <3> HIDE DEF IdleHandles, OwnedHandles
    <3> QED
      BY <2>1, <2>6, <2>7
  <2> QED
    BY <2>3, <2>8
<1>8. CASE UNCHANGED vars
  BY <1>0, <1>8 DEF vars
<1> QED
  BY <1>1, <1>2, <1>3, <1>4, <1>5, <1>6, <1>7, <1>8 DEF Next, Finished

\* While a thread sleeps, idle handles never outnumber the threads on their
\* way to the loop head.
LEMMA WakeupInductive ==
  ASSUME TypeInv, NoLostWakeup, [Next]_vars
  PROVE  NoLostWakeup'
<1> USE DEF TypeInv, TypeOK, NoLostWakeup
<1> DEFINE loopers == At("loop")
<1>0. /\ IsFiniteSet(loopers)
      /\ Cardinality(loopers) \in Nat
      /\ Cardinality(loopers') \in Nat
  <2>1. loopers' \subseteq Threads
    BY DEF At
  <2> QED
    BY <2>1, LoopersFinite, FS_Subset, FS_CardinalityType
<1>1. ASSUME NEW t \in Threads, CallAcquire(t) PROVE NoLostWakeup'
  <2>1. /\ t \notin loopers /\ loopers' = loopers \cup {t}
        /\ At("asleep")' = At("asleep") /\ available' = available
    BY <1>1 DEF CallAcquire, At
  <2>2. Cardinality(loopers') = Cardinality(loopers) + 1
    BY <1>0, <2>1, FS_AddElement
  <2> QED
    BY <1>0, <2>1, <2>2
<1>2. ASSUME NEW t \in Threads, TakeAvailable(t) PROVE NoLostWakeup'
  <2>1. /\ t \in loopers /\ loopers' = loopers \ {t}
        /\ At("asleep")' = At("asleep")
        /\ Len(available') = Len(available) - 1 /\ Len(available) \in Nat
    BY <1>2 DEF TakeAvailable, At
  <2>2. Cardinality(loopers') = Cardinality(loopers) - 1
    BY <1>0, <2>1, FS_RemoveElement
  <2> QED
    BY <1>0, <2>1, <2>2
<1>3. ASSUME NEW t \in Threads, OpenHandle(t) \/ OpenFails(t) \/ Sleep(t)
      PROVE  NoLostWakeup'
  <2>1. Len(available') = 0
    BY <1>3 DEF OpenHandle, OpenFails, Sleep
  <2> QED
    BY <1>0, <2>1
<1>4. ASSUME NEW t \in Threads, SpuriousWake(t) PROVE NoLostWakeup'
  <2>1. /\ t \notin loopers /\ loopers' = loopers \cup {t}
        /\ At("asleep")' \subseteq At("asleep") /\ available' = available
    BY <1>4 DEF SpuriousWake, At
  <2>2. Cardinality(loopers') = Cardinality(loopers) + 1
    BY <1>0, <2>1, FS_AddElement
  <2> QED
    BY <1>0, <2>1, <2>2
<1>5. ASSUME NEW t \in Threads, DropHandle(t) PROVE NoLostWakeup'
  <2>1. CASE At("asleep") = {}
    <3>1. At("asleep")' = {}
      BY <1>5, <2>1 DEF DropHandle, NotifyOne, At
    <3> QED
      BY <3>1
  <2>2. CASE At("asleep") # {}
    <3>1. PICK s \in At("asleep") :
            pc' = [pc EXCEPT ![t] = "idle", ![s] = "loop"]
      BY <1>5, <2>2 DEF DropHandle, NotifyOne
    <3>2. s \notin loopers /\ loopers' = loopers \cup {s}
      BY <1>5, <3>1 DEF DropHandle, At
    <3>3. Cardinality(loopers') = Cardinality(loopers) + 1
      BY <1>0, <3>2, FS_AddElement
    <3>4. Len(available') = Len(available) + 1 /\ Len(available) \in Nat
      <4>1. held[t] \in Handles
        BY <1>5 DEF DropHandle, HeldWhileReading
      <4> QED
        BY <1>5, <4>1 DEF DropHandle
    <3> QED
      BY <1>0, <2>2, <3>3, <3>4
  <2> QED
    BY <2>1, <2>2
<1>6. CASE UNCHANGED vars
  <2>1. /\ loopers' = loopers
        /\ At("asleep")' = At("asleep") /\ available' = available
    BY <1>6 DEF vars, At
  <2> QED
    BY <2>1
<1> QED
  BY <1>1, <1>2, <1>3, <1>4, <1>5, <1>6 DEF Next, Finished

\* The inductive invariant holds: types, ownership, exclusivity, no leak, no
\* lost wakeup, in every reachable state of the pool.
THEOREM PoolSafety == Spec => []IInv
<1>1. Init => IInv
  <2> SUFFICES ASSUME Init PROVE IInv
    OBVIOUS
  <2>1. At("reading") = {} /\ At("asleep") = {}
    BY DEF Init, At
  <2>2. TypeOK /\ HeldWhileReading /\ SleepersAreOverLimit /\ NoLostWakeup
    BY <2>1 DEF Init, TypeOK, Places, HeldWhileReading, SleepersAreOverLimit, NoLostWakeup
  <2>3. HandlesExclusive /\ NoHandleLeaks
    BY <2>1 DEF Init, HandlesExclusive, NoHandleLeaks, IdleHandles, OwnedHandles
  <2> QED
    BY <2>2, <2>3 DEF IInv
<1>2. IInv /\ [Next]_vars => IInv'
  BY TypeInvInductive, HandlesInductive, WakeupInductive DEF IInv, TypeInv
<1> QED
  BY <1>1, <1>2, PTL DEF Spec

\* active_count and every other variable keep their types: no more than
\* max_handles files are ever open.
THEOREM TypeCorrect == Spec => []TypeOK
BY PoolSafety, PTL DEF IInv

\* No two reads ever share a file handle (PooledFileHandle is exclusive).
THEOREM Exclusive == Spec => []HandlesExclusive
BY PoolSafety, PTL DEF IInv

\* Failed opens and drops leak no handle of the pool.
THEOREM NoLeak == Spec => []NoHandleLeaks
BY PoolSafety, PTL DEF IInv

\* notify_one in Drop is enough: a sleeper is never left behind.
THEOREM WakeupsNotLost == Spec => []NoLostWakeup
BY PoolSafety, PTL DEF IInv
=============================================================================
