-------------------------- MODULE MCZenConversion --------------------------
EXTENDS ZenConversion, TLC

CONSTANTS a1, a2, a3, a4, p, q, r, x

\* a1 and a2 name the same package, as a .uasset and a .umap of one name do;
\* a3 imports it and a package outside the input, a4 that of a3.
MCPackageOf == (a1 :> p) @@ (a2 :> p) @@ (a3 :> q) @@ (a4 :> r)
MCImports == (a1 :> {q}) @@ (a2 :> {}) @@ (a3 :> {p, x}) @@ (a4 :> {q})
MCBulkKinds == (a1 :> <<"ubulk">>) @@ (a2 :> <<>>) @@ (a3 :> <<"ubulk", "uptnl">>)
               @@ (a4 :> <<"ubulk">>)
=============================================================================
