----------------------------- MODULE LoadOrder -----------------------------
(***************************************************************************)
(* What sorting the export commands of a package promises: every command   *)
(* is listed once and after everything it depends on, or the sort is given *)
(* up, and that only for dependencies that no order satisfies.             *)
(***************************************************************************)
EXTENDS Sequences

CONSTANT Nodes

VARIABLES
  needs,    \* the nodes each node depends on
  listed,   \* the nodes in load order so far
  verdict   \* "sorting", "sorted" or "cyclic"

vars == <<needs, listed, verdict>>

Listed == {listed[i] : i \in DOMAIN listed}

Init ==
  /\ needs \in [Nodes -> SUBSET Nodes]
  /\ listed = <<>>
  /\ verdict = "sorting"

List(n) ==
  /\ verdict = "sorting"
  /\ n \notin Listed
  /\ needs[n] \subseteq Listed
  /\ listed' = Append(listed, n)
  /\ UNCHANGED <<needs, verdict>>

Complete ==
  /\ verdict = "sorting"
  /\ Listed = Nodes
  /\ verdict' = "sorted"
  /\ UNCHANGED <<needs, listed>>

\* Every node that is left waits for another one that is left.
GiveUp ==
  /\ verdict = "sorting"
  /\ Listed # Nodes
  /\ \A n \in Nodes \ Listed : ~(needs[n] \subseteq Listed)
  /\ verdict' = "cyclic"
  /\ UNCHANGED <<needs, listed>>

Next == (\E n \in Nodes : List(n)) \/ Complete \/ GiveUp

Spec == Init /\ [][Next]_vars
=============================================================================
