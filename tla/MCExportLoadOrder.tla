------------------------- MODULE MCExportLoadOrder -------------------------
EXTENDS ExportLoadOrder

\* Every choice of at most two preload dependencies, on any command of any
\* export, itself included, or on the creation of an import.
MCPreloads ==
  LET Targets == Nodes \cup (Imports \X {"Create"})
      Pairs == Nodes \X Targets
      EdgeSets == {{}} \cup {{e, f} : e, f \in Pairs}
  IN  {[n \in Nodes |-> {m \in Targets : <<n, m>> \in E}] : E \in EdgeSets}
=============================================================================
