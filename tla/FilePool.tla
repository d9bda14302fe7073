------------------------------ MODULE FilePool ------------------------------
(***************************************************************************)
(* The pool of read handles on one file (src/src/file_pool.rs), as the     *)
(* rayon threads of a conversion use it: every read of a .ucas container   *)
(* or of a .pak takes a handle, reads with it and drops it, whatever the   *)
(* outcome of the read (IoStoreContainer::read, PakFileReader::read).      *)
(*                                                                         *)
(* The state behind the pool's Mutex changes in one step: acquire holds    *)
(* the lock from its loop head until it returns or sleeps on the Condvar,  *)
(* and dropping a handle holds it while the handle is pushed back and one  *)
(* sleeper is notified.  A Condvar may also wake a sleeper for no reason.  *)
(***************************************************************************)
EXTENDS Naturals, Sequences, FiniteSets

CONSTANTS
  Threads,     \* the threads that read the file
  MaxHandles,  \* max_handles of the pool
  MaxReads     \* bound: how many reads each thread makes

ASSUME PoolAssumption ==
  /\ IsFiniteSet(Threads)
  /\ MaxHandles \in Nat \ {0}
  /\ MaxReads \in Nat

VARIABLES
  available,    \* PoolState.available_files, a FIFO of idle handles
  activeCount,  \* PoolState.active_count, handles ever opened
  pc,           \* where each thread is
  held,         \* the handle each thread's PooledFileHandle owns, or None
  reads         \* how many reads each thread has left to make

vars == <<available, activeCount, pc, held, reads>>

None == 0

\* Handles are numbered in the order they are opened.
Handles == 1..MaxHandles

\* "idle": not in the pool; "loop": at the head of acquire's loop, about to
\* take the lock; "asleep": in condvar.wait; "reading": owns a handle.
Places == {"idle", "loop", "asleep", "reading"}

At(place) == {t \in Threads : pc[t] = place}

-----------------------------------------------------------------------------
\* FilePool::new
Init ==
  /\ available = <<>>
  /\ activeCount = 0
  /\ pc = [t \in Threads |-> "idle"]
  /\ held = [t \in Threads |-> None]
  /\ reads = [t \in Threads |-> MaxReads]

\* A thread calls acquire.
CallAcquire(t) ==
  /\ pc[t] = "idle"
  /\ reads[t] > 0
  /\ pc' = [pc EXCEPT ![t] = "loop"]
  /\ reads' = [reads EXCEPT ![t] = @ - 1]
  /\ UNCHANGED <<available, activeCount, held>>

\* Variant of TakeAvailable: the handle is used without leaving the queue.
PeekAvailable(t) ==
  /\ pc[t] = "loop"
  /\ available # <<>>
  /\ held' = [held EXCEPT ![t] = Head(available)]
  /\ pc' = [pc EXCEPT ![t] = "reading"]
  /\ UNCHANGED <<available, activeCount, reads>>

\* An idle handle exists: the oldest one is handed out.
TakeAvailable(t) ==
  /\ pc[t] = "loop"
  /\ available # <<>>
  /\ held' = [held EXCEPT ![t] = Head(available)]
  /\ available' = Tail(available)
  /\ pc' = [pc EXCEPT ![t] = "reading"]
  /\ UNCHANGED <<activeCount, reads>>

\* None is idle and the limit is not reached: a new handle is opened.
OpenHandle(t) ==
  /\ pc[t] = "loop"
  /\ available = <<>>
  /\ activeCount < MaxHandles
  /\ activeCount' = activeCount + 1
  /\ held' = [held EXCEPT ![t] = activeCount + 1]
  /\ pc' = [pc EXCEPT ![t] = "reading"]
  /\ UNCHANGED <<available, reads>>

\* Variant of OpenFails: the handle is counted before File::open is tried.
CountThenOpenFails(t) ==
  /\ pc[t] = "loop"
  /\ available = <<>>
  /\ activeCount < MaxHandles
  /\ activeCount' = activeCount + 1
  /\ pc' = [pc EXCEPT ![t] = "idle"]
  /\ UNCHANGED <<available, held, reads>>

\* File::open fails: acquire returns the error before it counts the handle.
OpenFails(t) ==
  /\ pc[t] = "loop"
  /\ available = <<>>
  /\ activeCount < MaxHandles
  /\ pc' = [pc EXCEPT ![t] = "idle"]
  /\ UNCHANGED <<available, activeCount, held, reads>>

\* Every handle is in use: the thread sleeps, releasing the lock.
Sleep(t) ==
  /\ pc[t] = "loop"
  /\ available = <<>>
  /\ activeCount >= MaxHandles
  /\ pc' = [pc EXCEPT ![t] = "asleep"]
  /\ UNCHANGED <<available, activeCount, held, reads>>

\* A Condvar may wake a thread nobody notified; it goes back to the loop head.
SpuriousWake(t) ==
  /\ pc[t] = "asleep"
  /\ pc' = [pc EXCEPT ![t] = "loop"]
  /\ UNCHANGED <<available, activeCount, held, reads>>

\* Variant of NotifyOne: the drop forgets notify_one.
NotifyNobody(t, place) == pc' = [pc EXCEPT ![t] = place]

\* notify_one: some sleeper, if there is one, goes back to the loop head while
\* thread t goes on to place.
NotifyOne(t, place) ==
  IF At("asleep") = {}
  THEN pc' = [pc EXCEPT ![t] = place]
  ELSE \E s \in At("asleep") : pc' = [pc EXCEPT ![t] = place, ![s] = "loop"]

\* The read is over, well or badly: PooledFileHandle::drop returns the handle.
DropHandle(t) ==
  /\ pc[t] = "reading"
  /\ available' = Append(available, held[t])
  /\ held' = [held EXCEPT ![t] = None]
  /\ NotifyOne(t, "idle")
  /\ UNCHANGED <<activeCount, reads>>

Acquire(t) == TakeAvailable(t) \/ OpenHandle(t) \/ OpenFails(t) \/ Sleep(t)

\* Every thread has made its reads.
Finished ==
  /\ \A t \in Threads : pc[t] = "idle" /\ reads[t] = 0
  /\ UNCHANGED vars

Next ==
  \/ \E t \in Threads :
       \/ CallAcquire(t)
       \/ TakeAvailable(t)
       \/ OpenHandle(t)
       \/ OpenFails(t)
       \/ Sleep(t)
       \/ SpuriousWake(t)
       \/ DropHandle(t)
  \/ Finished

Spec == Init /\ [][Next]_vars

\* The scheduler runs a thread that is not blocked; nothing is promised of a
\* sleeping thread, of the order in which sleepers are notified, or of who
\* wins the lock.
FairSpec ==
  /\ Spec
  /\ \A t \in Threads : WF_vars(Acquire(t)) /\ WF_vars(DropHandle(t))

-----------------------------------------------------------------------------
\* The types of the variables.
TypeOK ==
  /\ available \in Seq(Handles)
  /\ activeCount \in 0..MaxHandles
  /\ pc \in [Threads -> Places]
  /\ held \in [Threads -> Handles \cup {None}]
  /\ reads \in [Threads -> 0..MaxReads]

\* Where the opened handles are.
IdleHandles == {available[i] : i \in DOMAIN available}
OwnedHandles == {held[t] : t \in At("reading")}

\* A handle is never in two places: not owned by two threads (their seeks and
\* reads would interleave on one file position), not idle in the pool twice,
\* not idle and owned at once.
HandlesExclusive ==
  /\ \A t, u \in Threads : held[t] = held[u] /\ held[t] # None => t = u
  /\ \A i, j \in DOMAIN available : available[i] = available[j] => i = j
  /\ \A t \in Threads, i \in DOMAIN available : held[t] # available[i]

\* No handle leaks: each of the active_count handles that were opened is idle
\* in the pool or owned by a thread that is reading, whatever mix of failed
\* opens, sleeps and drops happened before.
NoHandleLeaks == 1..activeCount = IdleHandles \cup OwnedHandles

\* No wakeup is lost: while a thread sleeps in acquire, every idle handle has
\* some thread on its way to the loop head to take it.
NoLostWakeup ==
  At("asleep") # {} => Cardinality(At("loop")) >= Len(available)

\* A thread sleeps only once the pool is exhausted: the limit of open handles
\* is reached and stays reached.
SleepersAreOverLimit ==
  At("asleep") # {} => activeCount = MaxHandles

\* A thread owns a handle exactly while it reads.
HeldWhileReading ==
  \A t \in Threads : held[t] # None <=> pc[t] = "reading"

\* The inductive invariant behind the safety properties.
IInv ==
  /\ TypeOK
  /\ HeldWhileReading
  /\ SleepersAreOverLimit
  /\ HandlesExclusive
  /\ NoHandleLeaks
  /\ NoLostWakeup

\* Every call of acquire ends and its handle is given back: no thread sleeps
\* for ever while handles come and go.
EveryReadReturns ==
  \A t \in Threads : pc[t] # "idle" ~> pc[t] = "idle"
=============================================================================
