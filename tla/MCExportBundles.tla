-------------------------- MODULE MCExportBundles --------------------------
EXTENDS ExportBundles, TLC

\* At most one preload dependency, of any command on any command.
MCPreloads ==
  LET EdgeSets == {{}} \cup {{e} : e \in Nodes \X Nodes}
  IN  {[n \in Nodes |-> {m \in Nodes : <<n, m>> \in E}] : E \in EdgeSets}

\* One export has no data; the file has them out of order, with bytes after them,
\* with or without the end tag.
MCBytes == {"a", "b", "c", "x", Tag}
MCFiles ==
  {[size |-> (0 :> 1) @@ (1 :> 2) @@ (2 :> 0), serial |-> (0 :> 2) @@ (1 :> 0) @@ (2 :> 2),
    data |-> data] :
     data \in {<<"b", "c", "a", "x">>, <<"b", "c", "a", "x", Tag>>}}
=============================================================================
