----------------------------- MODULE LookupMemo -----------------------------
(***************************************************************************)
(* What the package cache promises to the workers of a conversion: a       *)
(* lookup behaves as one read of a table in which every package has at     *)
(* most one answer for the life of the program, a header or a failure.     *)
(***************************************************************************)
CONSTANTS Threads, Packages, Nobody

Answers == {"header", "failure"}

VARIABLES
  memo,     \* the answer each package has, or "unknown"
  asking,   \* the package each thread is asking for, or Nobody
  answer    \* the answer of each thread's last lookup, or "unknown"

vars == <<memo, asking, answer>>

Init ==
  /\ memo = [p \in Packages |-> "unknown"]
  /\ asking = [t \in Threads |-> Nobody]
  /\ answer = [t \in Threads |-> "unknown"]

Ask(t, p) ==
  /\ asking[t] = Nobody
  /\ asking' = [asking EXCEPT ![t] = p]
  /\ UNCHANGED <<memo, answer>>

\* A package somebody asks for gets its answer, once and for all.
Settle(p, a) ==
  /\ \E t \in Threads : asking[t] = p
  /\ memo[p] = "unknown"
  /\ memo' = [memo EXCEPT ![p] = a]
  /\ UNCHANGED <<asking, answer>>

Reply(t) ==
  /\ asking[t] \in Packages
  /\ memo[asking[t]] \in Answers
  /\ answer' = [answer EXCEPT ![t] = memo[asking[t]]]
  /\ asking' = [asking EXCEPT ![t] = Nobody]
  /\ UNCHANGED memo

Next ==
  \/ \E t \in Threads, p \in Packages : Ask(t, p)
  \/ \E p \in Packages, a \in Answers : Settle(p, a)
  \/ \E t \in Threads : Reply(t)

Spec == Init /\ [][Next]_vars
=============================================================================
