--------------------------- MODULE MCExternalArcs ---------------------------
EXTENDS ExternalArcs, TLC

CONSTANTS a, b, s, p, q

\* Two objects of two packages and a script object.
MCPackageOf == (a :> p) @@ (b :> q) @@ (s :> None)
=============================================================================
