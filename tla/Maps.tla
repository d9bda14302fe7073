-------------------------------- MODULE Maps --------------------------------
(* Partial maps as functions, as HashMap and BTreeMap are used.            *)

NoMap == [x \in {} |-> x]

\* insert and removal of keys
WithKey(f, x, y) == [z \in DOMAIN f \cup {x} |-> IF z = x THEN y ELSE f[z]]
Without(f, S) == [z \in DOMAIN f \ S |-> f[z]]

\* The set of x, and F(x).  TLC evaluates x once and completely, which it does
\* not do for a LET in a refinement.
Only(x) == {y \in {x} : y = y}
Let(x, F(_)) == CHOOSE y \in {F(z) : z \in Only(x)} : TRUE
=============================================================================
