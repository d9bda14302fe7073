---------------------------- MODULE PackageCache ----------------------------
(***************************************************************************)
(* FZenPackageContext::lookup (src/src/asset_conversion.rs): the cache of  *)
(* package headers that the workers of a to-legacy conversion share.       *)
(*                                                                         *)
(* A worker probes the cache under the read lock of inner_state, then      *)
(* takes the lock of the package (a KeyMutex), probes again, loads the     *)
(* package from the store, records the outcome under the write lock and    *)
(* gives the package's lock back when it returns.  A critical section of   *)
(* inner_state touches nothing else and is one step.                       *)
(*                                                                         *)
(* The store may answer two reads of one chunk differently (a file that    *)
(* cannot be read now and can be read later), so the outcome of a load is  *)
(* free.  The two "failed to retrieve version" returns of lookup are left  *)
(* out: a store that found the chunk has a container, hence a TOC version, *)
(* and one that found the store entry has a container header.              *)
(***************************************************************************)
EXTENDS Naturals

CONSTANTS
  Threads,    \* the workers
  Packages,   \* the package ids they look up
  Nobody,     \* the owner of a free lock
  MaxLookups  \* bound: how many lookups each worker makes

ASSUME CacheAssumption ==
  /\ Nobody \notin Threads \cup Packages
  /\ MaxLookups \in Nat

VARIABLES
  cache,     \* the ids in package_headers_cache
  failed,    \* packages_failed_load
  keyOwner,  \* who holds each package's lock
  pc,        \* where each worker is in lookup
  arg,       \* the id it looks up, or Nobody
  found,     \* the answer it is about to return, "unknown" until it has one
  result,    \* what its last lookup returned, "unknown" before the first
  lookups,   \* how many lookups it has left to make
  loads      \* history: how often each id was loaded from the store

vars == <<cache, failed, keyOwner, pc, arg, found, result, lookups, loads>>

Answers == {"header", "failure"}
Outcomes == {"ok", "unreadable", "no store entry", "bad header"}
Places == {"idle", "probe", "lock", "reprobe", "load", "publish", "reject", "unlock"}

\* Where a worker holds the lock of the package it looks up.
Inside == {"reprobe", "load", "publish", "reject", "unlock"}

-----------------------------------------------------------------------------
\* FZenPackageContext::create
Init ==
  /\ cache = {}
  /\ failed = {}
  /\ keyOwner = [p \in Packages |-> Nobody]
  /\ pc = [t \in Threads |-> "idle"]
  /\ arg = [t \in Threads |-> Nobody]
  /\ found = [t \in Threads |-> "unknown"]
  /\ result = [t \in Threads |-> "unknown"]
  /\ lookups = [t \in Threads |-> MaxLookups]
  /\ loads = [p \in Packages |-> 0]

Goto(t, place) == pc' = [pc EXCEPT ![t] = place]

\* A worker calls lookup(p).
Call(t, p) ==
  /\ pc[t] = "idle"
  /\ lookups[t] > 0
  /\ lookups' = [lookups EXCEPT ![t] = @ - 1]
  /\ arg' = [arg EXCEPT ![t] = p]
  /\ Goto(t, "probe")
  /\ UNCHANGED <<cache, failed, keyOwner, found, result, loads>>

\* What try_lookup finds: the cache is asked before the failures.
Known(p) ==
  IF p \in cache THEN "header" ELSE IF p \in failed THEN "failure" ELSE "unknown"

\* The lookup returns answer a.
Return(t, a) ==
  /\ result' = [result EXCEPT ![t] = a]
  /\ found' = [found EXCEPT ![t] = "unknown"]
  /\ arg' = [arg EXCEPT ![t] = Nobody]
  /\ Goto(t, "idle")

\* The first try_lookup settles it, without any package lock.
ProbeHit(t) ==
  /\ pc[t] = "probe"
  /\ Known(arg[t]) # "unknown"
  /\ Return(t, Known(arg[t]))
  /\ UNCHANGED <<cache, failed, keyOwner, lookups, loads>>

ProbeMiss(t) ==
  /\ pc[t] = "probe"
  /\ Known(arg[t]) = "unknown"
  /\ Goto(t, "lock")
  /\ UNCHANGED <<cache, failed, keyOwner, arg, found, result, lookups, loads>>

\* package_lookup_locks.lock
LockPackage(t) ==
  /\ pc[t] = "lock"
  /\ keyOwner[arg[t]] = Nobody
  /\ keyOwner' = [keyOwner EXCEPT ![arg[t]] = t]
  /\ Goto(t, "reprobe")
  /\ UNCHANGED <<cache, failed, arg, found, result, lookups, loads>>

\* Variant of Reprobe: no second try_lookup under the package's lock.
NoReprobe(t) ==
  /\ pc[t] = "reprobe"
  /\ Goto(t, "load")
  /\ UNCHANGED <<cache, failed, keyOwner, arg, found, result, lookups, loads>>

\* The second try_lookup: another worker may have settled it meanwhile.
Reprobe(t) ==
  /\ pc[t] = "reprobe"
  /\ found' = [found EXCEPT ![t] = Known(arg[t])]
  /\ Goto(t, IF Known(arg[t]) = "unknown" THEN "load" ELSE "unlock")
  /\ UNCHANGED <<cache, failed, keyOwner, arg, result, lookups, loads>>

\* The chunk of the package, or of the one it redirects to, and its store
\* entry are read and the header is parsed.
Load(t) ==
  /\ pc[t] = "load"
  /\ \E outcome \in Outcomes : Goto(t, IF outcome = "ok" THEN "publish" ELSE "reject")
  /\ loads' = [loads EXCEPT ![arg[t]] = @ + 1]
  /\ UNCHANGED <<cache, failed, keyOwner, arg, found, result, lookups>>

\* The header is put in the cache and shared with the caller.
Publish(t) ==
  /\ pc[t] = "publish"
  /\ cache' = cache \cup {arg[t]}
  /\ found' = [found EXCEPT ![t] = "header"]
  /\ Goto(t, "unlock")
  /\ UNCHANGED <<failed, keyOwner, arg, result, lookups, loads>>

\* Variant of Reject: the failure is returned without being recorded.
ForgetFailure(t) ==
  /\ pc[t] = "reject"
  /\ found' = [found EXCEPT ![t] = "failure"]
  /\ Goto(t, "unlock")
  /\ UNCHANGED <<cache, failed, keyOwner, arg, result, lookups, loads>>

\* Each of the three failures is recorded before it is returned.
Reject(t) ==
  /\ pc[t] = "reject"
  /\ failed' = failed \cup {arg[t]}
  /\ found' = [found EXCEPT ![t] = "failure"]
  /\ Goto(t, "unlock")
  /\ UNCHANGED <<cache, keyOwner, arg, result, lookups, loads>>

\* Variant of Unlock: the lock of the package is kept.
KeepLock(t) ==
  /\ pc[t] = "unlock"
  /\ Return(t, found[t])
  /\ UNCHANGED <<cache, failed, keyOwner, lookups, loads>>

\* The lookup returns what it found or recorded, and its guard is dropped.
Unlock(t) ==
  /\ pc[t] = "unlock"
  /\ keyOwner' = [keyOwner EXCEPT ![arg[t]] = Nobody]
  /\ Return(t, found[t])
  /\ UNCHANGED <<cache, failed, lookups, loads>>

\* One step of a lookup that was called.
Step(t) ==
  \/ ProbeHit(t) \/ ProbeMiss(t) \/ LockPackage(t) \/ Reprobe(t)
  \/ Load(t) \/ Publish(t) \/ Reject(t) \/ Unlock(t)

\* Every worker has made its lookups.
Finished ==
  /\ \A t \in Threads : pc[t] = "idle" /\ lookups[t] = 0
  /\ UNCHANGED vars

Next ==
  \/ \E t \in Threads :
       \/ \E p \in Packages : Call(t, p)
       \/ ProbeHit(t)
       \/ ProbeMiss(t)
       \/ LockPackage(t)
       \/ Reprobe(t)
       \/ Load(t)
       \/ Publish(t)
       \/ Reject(t)
       \/ Unlock(t)
  \/ Finished

Spec == Init /\ [][Next]_vars

\* A worker that is not blocked on a package's lock goes on.  A free lock goes
\* to any of its waiters: weak fairness promises no more.
FairSpec == Spec /\ \A t \in Threads : WF_vars(Step(t))

-----------------------------------------------------------------------------
\* The types of the variables.
TypeOK ==
  /\ cache \subseteq Packages
  /\ failed \subseteq Packages
  /\ keyOwner \in [Packages -> Threads \cup {Nobody}]
  /\ pc \in [Threads -> Places]
  /\ arg \in [Threads -> Packages \cup {Nobody}]
  /\ \A t \in Threads : arg[t] \in Packages <=> pc[t] # "idle"
  /\ found \in [Threads -> Answers \cup {"unknown"}]
  /\ result \in [Threads -> Answers \cup {"unknown"}]
  /\ lookups \in [Threads -> 0..MaxLookups]
  /\ loads \in [Packages -> Nat]

\* However many workers ask for a package at once, and whether its load
\* succeeds or fails, it is loaded and parsed at most once.
SingleLoad == \A p \in Packages : loads[p] <= 1

\* No package is both cached and marked as failed.
OneVerdict == cache \cap failed = {}

\* A worker inside the critical section of a package holds its lock, and a
\* lock is held by a worker inside.
LockDiscipline ==
  /\ \A t \in Threads : pc[t] \in Inside => keyOwner[arg[t]] = t
  /\ \A p \in Packages : keyOwner[p] # Nobody =>
       pc[keyOwner[p]] \in Inside /\ arg[keyOwner[p]] = p

Recorded == cache \cup failed

\* Somebody has loaded p and is about to record the outcome.
Publishing(p) == \E t \in Threads : arg[t] = p /\ pc[t] \in {"publish", "reject"}

\* A package has been loaded, once, exactly when its outcome is recorded or
\* about to be; a recorded package is not being loaded again.
LoadsAccounted ==
  \A p \in Packages :
    /\ loads[p] = IF p \in Recorded \/ Publishing(p) THEN 1 ELSE 0
    /\ p \in Recorded =>
         \A t \in Threads : arg[t] = p => pc[t] \notin {"load", "publish", "reject"}

\* A worker about to leave the critical section has the recorded answer.
ReturnsTheAnswer ==
  \A t \in Threads : pc[t] = "unlock" =>
    arg[t] \in Recorded /\ found[t] = Known(arg[t])

\* The inductive invariant behind the safety properties.
IInv ==
  /\ TypeOK
  /\ LockDiscipline
  /\ LoadsAccounted
  /\ OneVerdict
  /\ ReturnsTheAnswer

\* The abstract table: an id has the answer its sets record.
Memo == INSTANCE LookupMemo WITH
          memo <- [p \in Packages |-> Known(p)],
          asking <- arg,
          answer <- result

\* The workers cannot tell the cache, its probes and its locks from a table
\* that settles every package once.
ActsAsMemo == Memo!Spec

\* Every lookup returns: no worker waits for ever on a package's lock.
LookupsReturn == \A t \in Threads : pc[t] # "idle" ~> pc[t] = "idle"
=============================================================================
