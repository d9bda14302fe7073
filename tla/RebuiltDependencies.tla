------------------------ MODULE RebuiltDependencies ------------------------
(***************************************************************************)
(* The preload dependencies of a rebuilt legacy package, from the export   *)
(* bundles of the zen package and their arcs (src/src/asset_conversion.rs, *)
(* resolve_export_dependencies_internal_dependency_arcs and                *)
(* apply_standalone_dependencies_to_package).                              *)
(*                                                                         *)
(* A command is <<package index, "Create" or "Serialize">>, a wait <<m, n>> *)
(* says that command n of an export waits for command m.  The order in     *)
(* which a legacy package lists its dependencies is left out.              *)
(***************************************************************************)
EXTENDS Naturals, Sequences

LOCAL INSTANCE SequencesExt

\* Within a bundle each command waits for the one before it.
Chained(bundles) ==
  UNION {{<<bundles[b][i - 1], bundles[b][i]>> : i \in 2..Len(bundles[b])} :
           b \in DOMAIN bundles}

\* The arcs of containers up to UE4: bundles run one after the other.
Sequential(bundles) == {<<b - 1, b>> : b \in 2..Len(bundles)}

\* An arc makes the first command of a bundle wait for the last of another.
Linked(bundles, arcs) ==
  {<<Last(bundles[a[1]]), Head(bundles[a[2]])>> : a \in arcs}

\* An import is waited for by the first command of a bundle.
LinkedToImport(bundles, import, b) == <<import, Head(bundles[b])>>

\* A wait of an export on itself is implied, if it is the natural one, and an
\* error otherwise.
OnItself(w) == w[1][1] = w[2][1]
Misplaced(waits) ==
  \E w \in waits : OnItself(w) /\ <<w[1][2], w[2][2]>> # <<"Create", "Serialize">>
Stated(waits) == {w \in waits : ~OnItself(w)}

\* What export e has to wait for because of the objects it refers to.
Required(waits, e, refs) ==
  LET On(i, c, d) == {<<<<i, c>>, <<e, d>>>> : x \in {i} \ {0}}
      outer == On(refs.outer, "Create", "Create")
  IN  outer
        \cup (IF On(refs.super, "Create", "Create") \subseteq waits \cup outer THEN {}
              ELSE On(refs.super, "Serialize", "Serialize"))
        \cup On(refs.class, "Serialize", "Create")
        \cup On(refs.template, "Serialize", "Create")

WithRequired(waits, refs) ==
  waits \cup UNION {Required(waits, e, refs[e]) : e \in DOMAIN refs}
=============================================================================
