------------------------- MODULE ExternalArcsProofs -------------------------
(***************************************************************************)
(* Proofs about ExternalArcs, for any commands, dependencies, imports and  *)
(* packages, whatever the other packages of the container export.          *)
(***************************************************************************)
EXTENDS ExternalArcs, TLAPS

-----------------------------------------------------------------------------
(* The inductive invariant.                                                *)

In(s, x) == \E i \in DOMAIN s : s[i] = x
Distinct(s) == \A i, j \in DOMAIN s : s[i] = s[j] => i = j

\* The set of arcs seen is that of the arcs listed, so that none is listed twice.
SeenAreListed ==
  \A p \in Packages :
    /\ \A a \in Arc : <<p, a>> \in seen <=> In(arcs[p], a)
    /\ Distinct(arcs[p])

\* The dependencies on imports that arcs were made for.
Made == {d \in depends \ todo : d[2] \in Imports}

\* UE5: the arcs of a package are those of its dependencies.
ArcsOfDependencies ==
  version = "UE5" =>
    \A p \in Packages : \A a \in Arc :
      In(arcs[p], a) <=>
        \E d \in Made : PackageOf[d[2][1]] = p /\ a = [from |-> d[2], to |-> bundleOf[d[1]]]

\* The arc stands for the dependency, whose fixup data f has under its placeholder.
StandsFor(a, d, p, f) ==
  /\ PackageOf[d[2][1]] = p /\ a.to = bundleOf[d[1]]
  /\ a.from \in DOMAIN f /\ f[a.from] = [package |-> p, import |-> d[2]]

\* UE4: every arc stands for a dependency and every dependency has an arc.
PlaceholdersOfDependencies ==
  version = "UE4" =>
    /\ \A p \in Packages : \A i \in DOMAIN arcs[p] :
         \E d \in Made : StandsFor(arcs[p][i], d, p, fixups)
    /\ \A d \in Made : \E i \in DOMAIN arcs[PackageOf[d[2][1]]] :
         StandsFor(arcs[PackageOf[d[2][1]]][i], d, PackageOf[d[2][1]], fixups)

\* The written arcs are the listed ones; those that are fixed up already name what
\* the fixup data of their placeholder resolves to.
Written ==
  /\ pc = "arcs" => unfixed = {}
  /\ pc # "arcs" =>
       /\ todo = {}
       /\ \A p \in Packages :
            /\ DOMAIN graph[p] = DOMAIN arcs[p]
            /\ \A i \in DOMAIN arcs[p] :
                 /\ graph[p][i].to = arcs[p][i].to
                 /\ graph[p][i].from =
                      IF version = "UE5" \/ <<p, i>> \in unfixed THEN arcs[p][i].from
                      ELSE Resolve(fixups[arcs[p][i].from])
  /\ pc \in {"fix", "failed"} => version = "UE4"
  /\ pc = "done" => unfixed = {}
  /\ pc = "failed" =>
       \E o \in unfixed : Resolve(fixups[arcs[o[1]][o[2]].from]) = None

IInv ==
  /\ TypeOK /\ SeenAreListed /\ ArcsOfDependencies /\ PlaceholdersOfDependencies /\ Written

-----------------------------------------------------------------------------
(* Lemmas about lists.                                                     *)

\* What is in a list with one more element, and when it is without repetitions.
LEMMA InAppend ==
  ASSUME NEW S, NEW s \in Seq(S), NEW e \in S
  PROVE  /\ Append(s, e) \in Seq(S)
         /\ \A x : In(Append(s, e), x) <=> In(s, x) \/ x = e
         /\ Distinct(s) /\ ~In(s, e) => Distinct(Append(s, e))
<1> DEFINE t == Append(s, e)
<1>1. /\ t \in Seq(S) /\ Len(s) \in Nat
      /\ DOMAIN s = 1..Len(s) /\ DOMAIN t = 1..(Len(s) + 1)
      /\ \A i \in 1..Len(s) : t[i] = s[i]
      /\ t[Len(s) + 1] = e
  OBVIOUS
<1> HIDE DEF t
<1>2. \A x : In(t, x) <=> In(s, x) \/ x = e
  BY <1>1 DEF In
<1>3. ASSUME Distinct(s), ~In(s, e) PROVE Distinct(t)
  BY <1>1, <1>3 DEF In, Distinct
<1> QED
  BY <1>1, <1>2, <1>3 DEF t

-----------------------------------------------------------------------------
(* The invariant is inductive.                                             *)

USE DEF package, others

\* What the assumption says of imports.
LEMMA ImportFacts ==
  /\ None \notin Bundles /\ Bundles \subseteq Nat \ {0}
  /\ \A i \in Imports : PackageOf[i[1]] \in Packages
  /\ \A d \in Dependencies : d[2] \in Imports <=> PackageOf[d[2][1]] # None
  /\ \A d \in Dependencies : d[1] \in Nodes
BY ArcsAssumption DEF Imports, Dependencies

\* An arc that is added is listed, and nothing else is; with the arcs that were
\* seen before, the seen ones are still the listed ones.
LEMMA ArcAdded ==
  ASSUME TypeOK, SeenAreListed, version' = version,
         NEW p \in Packages, NEW a \in Arc, AddArc(p, a)
  PROVE  /\ arcs' \in [Packages -> Seq(Arc)]
         /\ \A q \in Packages : \A x : In(arcs'[q], x) <=> In(arcs[q], x) \/ (q = p /\ x = a)
         /\ SeenAreListed'
<1>. /\ arcs \in [Packages -> Seq(Arc)] /\ arcs[p] \in Seq(Arc)
     /\ Arc' = Arc
  BY DEF TypeOK, Arc, From
<1>1. CASE <<p, a>> \in seen
  <2>1. seen' = seen /\ arcs' = arcs /\ In(arcs[p], a)
    BY <1>1 DEF AddArc, SeenAreListed
  <2> QED
    BY <2>1 DEF SeenAreListed
<1>2. CASE <<p, a>> \notin seen
  <2>1. seen' = seen \cup {<<p, a>>} /\ arcs' = [arcs EXCEPT ![p] = Append(@, a)] /\ ~In(arcs[p], a)
    BY <1>2 DEF AddArc, SeenAreListed
  <2>2. /\ Append(arcs[p], a) \in Seq(Arc)
        /\ \A x : In(Append(arcs[p], a), x) <=> In(arcs[p], x) \/ x = a
        /\ Distinct(Append(arcs[p], a))
    BY <2>1, InAppend DEF SeenAreListed
  <2>3. arcs'[p] = Append(arcs[p], a) /\ \A q \in Packages \ {p} : arcs'[q] = arcs[q]
    BY <2>1
  <2>4. arcs' \in [Packages -> Seq(Arc)]
    BY <2>1, <2>2
  <2>5. SeenAreListed'
    <3>1. ASSUME NEW q \in Packages, NEW b \in Arc PROVE <<q, b>> \in seen' <=> In(arcs'[q], b)
      BY <2>1, <2>2, <2>3 DEF SeenAreListed
    <3>2. ASSUME NEW q \in Packages PROVE Distinct(arcs'[q])
      BY <2>2, <2>3 DEF SeenAreListed
    <3> QED
      BY <3>1, <3>2 DEF SeenAreListed
  <2> QED
    BY <2>2, <2>3, <2>4, <2>5
<1> QED
  BY <1>1, <1>2

\* UE5: an arc that is added is that of the dependency it is made for.
LEMMA ImportStep ==
  ASSUME IInv, NEW d \in todo, DependOnImport(d)
  PROVE  IInv'
<1> DEFINE p == PackageOf[d[2][1]]
           a == [from |-> d[2], to |-> bundleOf[d[1]]]
<1>1. /\ d \in depends /\ d[2] \in Imports /\ p \in Packages /\ a \in Arc
      /\ version = "UE5" /\ pc = "arcs" /\ AddArc(p, a)
      /\ UNCHANGED <<version, depends, bundleOf, fixups, held, located, graph, unfixed, pc>>
      /\ todo' = todo \ {d}
  <2>1. d \in Dependencies /\ d[2] \in Imports
    BY ImportFacts DEF IInv, TypeOK, DependOnImport
  <2> QED
    BY <2>1, ImportFacts DEF IInv, TypeOK, DependOnImport, Arc, From
<1> HIDE DEF p, a
<1>2. /\ arcs' \in [Packages -> Seq(Arc)] /\ SeenAreListed'
      /\ \A q \in Packages : \A x : In(arcs'[q], x) <=> In(arcs[q], x) \/ (q = p /\ x = a)
  BY <1>1, ArcAdded DEF IInv
<1>3. Made' = Made \cup {d}
  BY <1>1 DEF Made, IInv, TypeOK
<1>4. ArcsOfDependencies'
  <2> SUFFICES ASSUME NEW q \in Packages, NEW b \in Arc
               PROVE  In(arcs'[q], b) <=>
                        \E e \in Made' : PackageOf[e[2][1]] = q /\ b = [from |-> e[2], to |-> bundleOf[e[1]]]
    BY <1>1 DEF ArcsOfDependencies, Arc, From
  <2>1. In(arcs[q], b) <=>
          \E e \in Made : PackageOf[e[2][1]] = q /\ b = [from |-> e[2], to |-> bundleOf[e[1]]]
    BY <1>1 DEF IInv, ArcsOfDependencies
  <2>2. q = p /\ b = a <=> PackageOf[d[2][1]] = q /\ b = [from |-> d[2], to |-> bundleOf[d[1]]]
    BY DEF p, a
  <2> QED
    BY <1>2, <1>3, <2>1, <2>2
<1>5. TypeOK'
  BY <1>1, <1>2 DEF IInv, TypeOK, Arc, From, Offsets
<1>6. PlaceholdersOfDependencies' /\ Written'
  BY <1>1 DEF IInv, PlaceholdersOfDependencies, Written
<1> QED
  BY <1>2, <1>4, <1>5, <1>6 DEF IInv

\* UE4: an arc that is added stands for the dependency whose fixup data is added.
LEMMA BundleStep ==
  ASSUME IInv, NEW d \in todo, DependOnBundle(d)
  PROVE  IInv'
<1> DEFINE p == PackageOf[d[2][1]]
           fixup == [package |-> p, import |-> d[2]]
           a == [from |-> Len(fixups'), to |-> bundleOf[d[1]]]
<1>1. /\ d \in depends /\ d[2] \in Imports /\ p \in Packages /\ bundleOf[d[1]] \in Bundles
      /\ version = "UE4" /\ pc = "arcs" /\ AddArc(p, a) /\ fixups' = Append(fixups, fixup)
      /\ UNCHANGED <<version, depends, bundleOf, held, located, graph, unfixed, pc>>
      /\ todo' = todo \ {d}
  <2>1. d \in Dependencies /\ d[2] \in Imports
    BY ImportFacts DEF IInv, TypeOK, DependOnBundle
  <2> QED
    BY <2>1, ImportFacts DEF IInv, TypeOK, DependOnBundle
<1>2. /\ fixups \in Seq([package : Packages, import : Imports])
      /\ Len(fixups) \in Nat /\ DOMAIN fixups = 1..Len(fixups)
      /\ fixups' \in Seq([package : Packages, import : Imports])
      /\ Len(fixups') = Len(fixups) + 1 /\ DOMAIN fixups' = 1..(Len(fixups) + 1)
      /\ fixups'[Len(fixups) + 1] = fixup
      /\ \A i \in 1..Len(fixups) : fixups'[i] = fixups[i]
  <2>1. fixup \in [package : Packages, import : Imports]
    BY <1>1
  <2>2. fixups \in Seq([package : Packages, import : Imports])
    BY DEF IInv, TypeOK
  <2> HIDE DEF fixup
  <2> QED
    BY <1>1, <2>1, <2>2
<1>3. a \in Arc /\ a.from = Len(fixups) + 1 /\ a.to = bundleOf[d[1]]
  BY <1>1, <1>2 DEF Arc, From
<1> HIDE DEF a
<1>4. /\ arcs' \in [Packages -> Seq(Arc)] /\ SeenAreListed'
      /\ \A q \in Packages : \A x : In(arcs'[q], x) <=> In(arcs[q], x) \/ (q = p /\ x = a)
  <2> HIDE DEF p
  <2> QED
    BY <1>1, <1>3, ArcAdded DEF IInv
<1>5. Made' = Made \cup {d}
  BY <1>1 DEF Made, IInv, TypeOK
<1>6. StandsFor(a, d, p, fixups')
  BY <1>2, <1>3 DEF StandsFor
<1>7. \A b, e, q : StandsFor(b, e, q, fixups) => StandsFor(b, e, q, fixups')
  BY <1>2 DEF StandsFor
<1>8. PlaceholdersOfDependencies'
  <2>1. ASSUME NEW q \in Packages, NEW i \in DOMAIN arcs'[q]
        PROVE  \E e \in Made' : StandsFor(arcs'[q][i], e, q, fixups')
    <3>1. In(arcs[q], arcs'[q][i]) \/ (q = p /\ arcs'[q][i] = a)
      BY <1>4, <2>1 DEF In
    <3>2. ASSUME In(arcs[q], arcs'[q][i]) PROVE \E e \in Made : StandsFor(arcs'[q][i], e, q, fixups)
      BY <1>1, <3>2 DEF In, IInv, PlaceholdersOfDependencies
    <3> QED
      BY <1>5, <1>6, <1>7, <3>1, <3>2
  <2>2. ASSUME NEW e \in Made'
        PROVE  \E i \in DOMAIN arcs'[PackageOf[e[2][1]]] :
                 StandsFor(arcs'[PackageOf[e[2][1]]][i], e, PackageOf[e[2][1]], fixups')
    <3>1. PackageOf[e[2][1]] \in Packages
      BY ImportFacts, <2>2 DEF Made
    <3>2. CASE e \in Made
      <4>1. PICK i \in DOMAIN arcs[PackageOf[e[2][1]]] :
              StandsFor(arcs[PackageOf[e[2][1]]][i], e, PackageOf[e[2][1]], fixups)
        BY <1>1, <3>2 DEF IInv, PlaceholdersOfDependencies
      <4>2. In(arcs'[PackageOf[e[2][1]]], arcs[PackageOf[e[2][1]]][i])
        BY <1>4, <3>1, <4>1 DEF In
      <4> QED
        BY <1>7, <4>1, <4>2 DEF In
    <3>3. CASE e = d
      <4>1. In(arcs'[p], a)
        BY <1>1, <1>4
      <4> QED
        BY <1>6, <3>3, <4>1 DEF In
    <3> QED
      BY <1>5, <3>2, <3>3
  <2> QED
    BY <1>1, <2>1, <2>2 DEF PlaceholdersOfDependencies, StandsFor
<1>9. TypeOK'
  <2>1. Arc' = Arc /\ Offsets(graph)' = Offsets(graph)
    BY <1>1 DEF Arc, From, Offsets
  <2>2. todo' \subseteq depends' /\ depends' \subseteq Dependencies
    BY <1>1 DEF IInv, TypeOK
  <2>3. fixups' \in Seq([package : Packages, import : Imports])
    BY <1>2
  <2> QED
    BY <1>1, <1>4, <2>1, <2>2, <2>3 DEF IInv, TypeOK
<1>10. ArcsOfDependencies' /\ Written'
  BY <1>1 DEF IInv, ArcsOfDependencies, Written
<1> QED
  BY <1>4, <1>8, <1>9, <1>10 DEF IInv

\* The arcs are written as they are listed.
LEMMA SerializeStep ==
  ASSUME IInv, Serialize
  PROVE  IInv'
<1>1. /\ pc = "arcs" /\ todo = {} /\ graph' = arcs
      /\ UNCHANGED <<version, depends, bundleOf, todo, seen, fixups, arcs>>
      /\ Arc' = Arc
  BY DEF Serialize, Arc, From
<1>2. \/ version = "UE4" /\ pc' = "fix" /\ unfixed' = Offsets(arcs)
      \/ version = "UE5" /\ pc' = "done" /\ unfixed' = {}
  BY DEF Serialize, IInv, TypeOK, Written
<1>3. held' \subseteq Packages /\ located' \in [Imports -> Bundles \cup {None}]
  BY DEF Serialize, IInv, TypeOK
<1>4. TypeOK'
  <2>1. unfixed' \subseteq Offsets(graph)'
    BY <1>1, <1>2 DEF Offsets
  <2> QED
    BY <1>1, <1>2, <1>3, <2>1 DEF IInv, TypeOK
<1>5. SeenAreListed' /\ ArcsOfDependencies' /\ PlaceholdersOfDependencies'
  BY <1>1 DEF IInv, SeenAreListed, ArcsOfDependencies, PlaceholdersOfDependencies, StandsFor, Made
<1>6. Written'
  <2>1. ASSUME NEW p \in Packages, NEW i \in DOMAIN arcs[p], version = "UE4"
        PROVE  <<p, i>> \in unfixed'
    BY <1>2, <2>1 DEF Offsets
  <2> QED
    BY <1>1, <1>2, <2>1 DEF Written
<1> QED
  BY <1>4, <1>5, <1>6 DEF IInv

\* An arc that is fixed up names what its own placeholder resolves to.
LEMMA FixStep ==
  ASSUME IInv, NEW p, NEW i, <<p, i>> \in unfixed, FixArc(p, i)
  PROVE  IInv'
<1>1. /\ p \in Packages /\ i \in DOMAIN graph[p] /\ i \in DOMAIN arcs[p]
      /\ graph \in [Packages -> Seq(Arc)] /\ graph[p][i] \in Arc
      /\ pc = "fix" /\ version = "UE4" /\ todo = {} /\ graph[p][i].from = arcs[p][i].from
      /\ unfixed' = unfixed \ {<<p, i>>}
      /\ UNCHANGED <<version, depends, bundleOf, todo, seen, fixups, arcs, held, located, pc>>
      /\ Arc' = Arc /\ graph[p] \in Seq(Arc)
  <2>1. p \in Packages /\ i \in DOMAIN graph[p]
    BY DEF IInv, TypeOK, Offsets
  <2> QED
    <3>1. /\ graph \in [Packages -> Seq(Arc)] /\ graph[p] \in Seq(Arc) /\ graph[p][i] \in Arc
      BY <2>1 DEF IInv, TypeOK
    <3>2. /\ pc = "fix" /\ unfixed' = unfixed \ {<<p, i>>}
          /\ UNCHANGED <<version, depends, bundleOf, todo, seen, fixups, arcs, held, located, pc>>
      BY DEF FixArc
    <3>3. version = "UE4" /\ todo = {} /\ i \in DOMAIN arcs[p]
      BY <2>1, <3>2 DEF IInv, Written
    <3>4. graph[p][i].from = arcs[p][i].from
      BY <2>1, <3>2, <3>3 DEF IInv, Written
    <3>5. Arc' = Arc
      BY <3>2 DEF Arc, From
    <3> QED
      BY <2>1, <3>1, <3>2, <3>3, <3>4, <3>5
<1> DEFINE b == Resolve(fixups[arcs[p][i].from])
<1>2. b # None /\ graph' = [graph EXCEPT ![p][i].from = b]
  BY <1>1 DEF FixArc
<1>3. b \in Nat
  <2>1. PICK d \in Made : StandsFor(arcs[p][i], d, p, fixups)
    BY <1>1 DEF IInv, PlaceholdersOfDependencies
  <2>2. fixups[arcs[p][i].from].import \in Imports
    BY <2>1 DEF StandsFor, Made
  <2> QED
    BY <1>2, <2>2, ImportFacts DEF Resolve, Locate, LastBundle, IInv, TypeOK
<1> HIDE DEF b
<1>4. /\ graph'[p] = [graph[p] EXCEPT ![i] = [graph[p][i] EXCEPT !.from = b]]
      /\ \A q \in Packages \ {p} : graph'[q] = graph[q]
      /\ DOMAIN graph' = Packages
  BY <1>1, <1>2
<1>5. /\ DOMAIN graph'[p] = DOMAIN graph[p]
      /\ graph'[p][i].from = b /\ graph'[p][i].to = graph[p][i].to /\ graph'[p][i] \in Arc
      /\ \A j \in DOMAIN graph[p] \ {i} : graph'[p][j] = graph[p][j]
  <2>1. [graph[p][i] EXCEPT !.from = b] \in Arc
    BY <1>1, <1>3 DEF Arc, From
  <2> QED
    BY <1>1, <1>4, <2>1 DEF Arc
<1>6. graph'[p] \in Seq(Arc)
  BY <1>1, <1>4, <1>5
<1>7. TypeOK'
  <2>1. graph' \in [Packages -> Seq(Arc)]
    BY <1>1, <1>2, <1>4, <1>6
  <2>2. Offsets(graph)' = Offsets(graph)
    <3>1. \A q \in Packages : DOMAIN graph'[q] = DOMAIN graph[q]
      BY <1>4, <1>5
    <3> QED
      BY <3>1 DEF Offsets
  <2> QED
    BY <1>1, <2>1, <2>2 DEF IInv, TypeOK
<1>8. SeenAreListed' /\ ArcsOfDependencies' /\ PlaceholdersOfDependencies'
  <2>1. SeenAreListed'
    BY <1>1 DEF IInv, SeenAreListed
  <2>2. Made' = Made
    BY <1>1 DEF Made
  <2>3. ArcsOfDependencies'
    BY <1>1 DEF ArcsOfDependencies
  <2>4. PlaceholdersOfDependencies'
    BY <1>1, <2>2 DEF IInv, PlaceholdersOfDependencies, StandsFor
  <2> QED
    BY <2>1, <2>3, <2>4
<1>9. Written'
  <2>1. ASSUME NEW q \in Packages
        PROVE  /\ DOMAIN graph'[q] = DOMAIN arcs[q]
               /\ \A j \in DOMAIN arcs[q] :
                    /\ graph'[q][j].to = arcs[q][j].to
                    /\ graph'[q][j].from =
                         IF <<q, j>> \in unfixed' THEN arcs[q][j].from
                         ELSE Resolve(fixups[arcs[q][j].from])
    <3>0. /\ DOMAIN graph[q] = DOMAIN arcs[q]
          /\ \A j \in DOMAIN arcs[q] :
               /\ graph[q][j].to = arcs[q][j].to
               /\ graph[q][j].from =
                    IF <<q, j>> \in unfixed THEN arcs[q][j].from
                    ELSE Resolve(fixups[arcs[q][j].from])
      BY <1>1 DEF IInv, Written
    <3>1. CASE q # p
      BY <1>1, <1>4, <3>0, <3>1
    <3>2. CASE q = p
      <4>1. ASSUME NEW j \in DOMAIN arcs[p], j # i
            PROVE  graph'[p][j] = graph[p][j] /\ (<<p, j>> \in unfixed' <=> <<p, j>> \in unfixed)
        BY <1>1, <1>5, <3>0, <3>2, <4>1
      <4>2. <<p, i>> \notin unfixed' /\ graph'[p][i].from = Resolve(fixups[arcs[p][i].from])
        BY <1>1, <1>5 DEF b
      <4> QED
        BY <1>5, <3>0, <3>2, <4>1, <4>2
    <3> QED
      BY <3>1, <3>2
  <2> QED
    BY <1>1, <2>1 DEF IInv, Written, Resolve, Locate
<1> QED
  BY <1>7, <1>8, <1>9 DEF IInv

LEMMA InitEstablishes == Init => IInv
<1> SUFFICES ASSUME Init PROVE IInv
  OBVIOUS
<1>1. /\ \A p \in Packages : arcs[p] = <<>> /\ graph[p] = <<>> /\ DOMAIN arcs[p] = {}
      /\ depends \subseteq Dependencies /\ todo = depends /\ pc = "arcs" /\ unfixed = {} /\ seen = {}
  BY DEF Init
<1>2. TypeOK
  <2>1. arcs \in [Packages -> Seq(Arc)] /\ graph \in [Packages -> Seq(Arc)]
    BY DEF Init
  <2>2. located \in [Imports -> Bundles \cup {None}] /\ fixups \in Seq([package : Packages, import : Imports])
    BY DEF Init
  <2> QED
    BY <1>1, <2>1, <2>2 DEF Init, TypeOK
<1>3. SeenAreListed
  BY <1>1 DEF SeenAreListed, In, Distinct
<1>4. Made = {}
  BY <1>1 DEF Made
<1>5. ArcsOfDependencies /\ PlaceholdersOfDependencies
  BY <1>1, <1>4 DEF ArcsOfDependencies, PlaceholdersOfDependencies, In
<1>6. Written
  BY <1>1 DEF Written
<1> QED
  BY <1>2, <1>3, <1>5, <1>6 DEF IInv

LEMMA StepPreserves == IInv /\ [Next]_vars => IInv'
<1> SUFFICES ASSUME IInv, [Next]_vars PROVE IInv'
  OBVIOUS
<1>1. ASSUME NEW d \in todo, Skip(d) PROVE IInv'
  <2>1. Made' = Made
    BY <1>1, ImportFacts DEF Skip, Made, IInv, TypeOK
  <2>2. todo' \subseteq todo /\ pc = "arcs" /\ pc' = "arcs" /\ unfixed' = unfixed /\ Arc' = Arc
    BY <1>1 DEF Skip, Arc, From
  <2>3. TypeOK'
    BY <1>1, <2>2 DEF Skip, IInv, TypeOK, Offsets
  <2>4. SeenAreListed'
    BY <1>1, <2>2 DEF Skip, IInv, SeenAreListed
  <2>5. ArcsOfDependencies' /\ PlaceholdersOfDependencies'
    BY <1>1, <2>1, <2>2 DEF Skip, IInv, ArcsOfDependencies, PlaceholdersOfDependencies, StandsFor
  <2>6. Written'
    BY <2>2 DEF IInv, Written
  <2> QED
    BY <2>3, <2>4, <2>5, <2>6 DEF IInv
<1>2. ASSUME NEW o \in unfixed, FixFails(o[1], o[2]) PROVE IInv'
  <2>1. /\ UNCHANGED <<version, depends, bundleOf, todo, seen, fixups, arcs, held, located, graph, unfixed>>
        /\ pc = "fix" /\ pc' = "failed" /\ o[1] \in Packages /\ o[2] \in DOMAIN graph[o[1]] /\ o = <<o[1], o[2]>>
    BY <1>2 DEF FixFails, IInv, TypeOK, Offsets
  <2>2. Resolve(fixups[arcs[o[1]][o[2]].from]) = None
    BY <1>2, <2>1 DEF FixFails, IInv, Written
  <2>3. TypeOK'
    BY <2>1 DEF IInv, TypeOK, Arc, From, Offsets
  <2>4. SeenAreListed' /\ ArcsOfDependencies' /\ PlaceholdersOfDependencies'
    BY <2>1 DEF IInv, SeenAreListed, ArcsOfDependencies, PlaceholdersOfDependencies, StandsFor, Made, Arc, From
  <2>5. Written'
    BY <2>1, <2>2 DEF IInv, Written, Resolve, Locate
  <2> QED
    BY <2>3, <2>4, <2>5 DEF IInv
<1>3. CASE EndFix
  <2>1. /\ UNCHANGED <<version, depends, bundleOf, todo, seen, fixups, arcs, held, located, graph, unfixed>>
        /\ pc = "fix" /\ pc' = "done" /\ unfixed = {}
    BY <1>3 DEF EndFix
  <2>3. TypeOK'
    BY <2>1 DEF IInv, TypeOK, Arc, From, Offsets
  <2>4. SeenAreListed' /\ ArcsOfDependencies' /\ PlaceholdersOfDependencies'
    BY <2>1 DEF IInv, SeenAreListed, ArcsOfDependencies, PlaceholdersOfDependencies, StandsFor, Made, Arc, From
  <2>5. Written'
    BY <2>1 DEF IInv, Written, Resolve, Locate
  <2> QED
    BY <2>3, <2>4, <2>5 DEF IInv
<1>4. CASE UNCHANGED vars
  <2>1. /\ UNCHANGED <<version, depends, bundleOf, todo, seen, fixups, arcs, held, located, graph, unfixed>>
        /\ pc' = pc
    BY <1>4 DEF vars
  <2>3. TypeOK'
    BY <2>1 DEF IInv, TypeOK, Arc, From, Offsets
  <2>4. SeenAreListed' /\ ArcsOfDependencies' /\ PlaceholdersOfDependencies'
    BY <2>1 DEF IInv, SeenAreListed, ArcsOfDependencies, PlaceholdersOfDependencies, StandsFor, Made, Arc, From
  <2>5. Written'
    BY <2>1 DEF IInv, Written, Resolve, Locate
  <2> QED
    BY <2>3, <2>4, <2>5 DEF IInv
<1>5. ASSUME NEW o \in unfixed, FixArc(o[1], o[2]) PROVE IInv'
  <2>1. <<o[1], o[2]>> \in unfixed
    BY <1>5 DEF FixArc
  <2> QED
    BY <1>5, <2>1, FixStep
<1> QED
  BY <1>1, <1>2, <1>3, <1>4, <1>5, ImportStep, BundleStep, SerializeStep DEF Next, Returned

-----------------------------------------------------------------------------
(* The theorems.                                                           *)

\* The invariant holds in every state of the conversion.
THEOREM ArcsSafety == Spec => []IInv
BY InitEstablishes, StepPreserves, PTL DEF Spec

\* The variables have their types.
THEOREM TypeCorrect == Spec => []TypeOK
BY ArcsSafety, PTL DEF IInv

\* The arcs of a package that is written are those of its dependencies, each of
\* them naming what its own dependency needs.
THEOREM ArcsMatch == Spec => []ArcsMatchDependencies
<1>1. IInv => ArcsMatchDependencies
  <2> SUFFICES ASSUME IInv, pc = "done"
               PROVE  /\ \A p \in Packages :
                           {graph[p][i] : i \in DOMAIN graph[p]} =
                             {[from |-> Source(d), to |-> bundleOf[d[1]]] :
                                d \in {e \in depends : e[2] \in Imports /\ PackageOf[e[2][1]] = p}}
                      /\ version = "UE5" => NoDuplicates
    BY DEF ArcsMatchDependencies
  <2>1. /\ todo = {} /\ unfixed = {}
        /\ \A d : d \in Made <=> d \in depends /\ d[2] \in Imports
        /\ depends \subseteq Dependencies
        /\ \A p \in Packages :
             /\ arcs[p] \in Seq(Arc) /\ graph[p] \in Seq(Arc) /\ DOMAIN graph[p] = DOMAIN arcs[p]
             /\ \A i \in DOMAIN arcs[p] : arcs[p][i] \in Arc /\ graph[p][i] \in Arc
    BY DEF IInv, TypeOK, Written, Made
  <2>2. ASSUME NEW a, NEW b, a \in Arc, b \in Arc, a.from = b.from, a.to = b.to PROVE a = b
    BY <2>2 DEF Arc
  <2>3. CASE version = "UE5"
    <3>1. \A p \in Packages : \A i \in DOMAIN arcs[p] : graph[p][i] = arcs[p][i]
      BY <2>1, <2>2, <2>3 DEF IInv, Written
    <3>2. ASSUME NEW p \in Packages, NEW x
          PROVE  x \in {graph[p][i] : i \in DOMAIN graph[p]} <=>
                 x \in {[from |-> Source(d), to |-> bundleOf[d[1]]] :
                          d \in {e \in depends : e[2] \in Imports /\ PackageOf[e[2][1]] = p}}
      <4>1. x \in {graph[p][i] : i \in DOMAIN graph[p]} <=> In(arcs[p], x)
        BY <2>1, <3>1 DEF In
      <4>2. In(arcs[p], x) => x \in Arc
        BY <2>1 DEF In
      <4>3. \A d \in Made : [from |-> d[2], to |-> bundleOf[d[1]]] \in Arc
        BY <2>1, <2>3, ImportFacts DEF Arc, From, IInv, TypeOK
      <4>4. In(arcs[p], x) <=> \E d \in Made : PackageOf[d[2][1]] = p /\ x = [from |-> d[2], to |-> bundleOf[d[1]]]
        BY <2>3, <4>2, <4>3 DEF IInv, ArcsOfDependencies
      <4> QED
        BY <2>1, <2>3, <4>1, <4>4 DEF Source
    <3>3. NoDuplicates
      BY <2>1, <3>1 DEF NoDuplicates, IInv, SeenAreListed, Distinct
    <3> QED
      BY <3>2, <3>3
  <2>4. CASE version = "UE4"
    <3>1. ASSUME NEW p \in Packages, NEW i \in DOMAIN arcs[p], NEW d \in Made,
                 StandsFor(arcs[p][i], d, p, fixups)
          PROVE  graph[p][i] = [from |-> Source(d), to |-> bundleOf[d[1]]]
      <4>1. graph[p][i].to = bundleOf[d[1]] /\ graph[p][i].from = Resolve(fixups[arcs[p][i].from])
        BY <2>1, <2>4, <3>1 DEF IInv, Written, StandsFor
      <4>2. Resolve(fixups[arcs[p][i].from]) = Source(d)
        BY <2>4, <3>1 DEF StandsFor, Resolve, Locate, Source
      <4> QED
        BY <2>1, <4>1, <4>2 DEF Arc
    <3>2. ASSUME NEW p \in Packages, NEW i \in DOMAIN arcs[p]
          PROVE  \E d \in Made : StandsFor(arcs[p][i], d, p, fixups)
      BY <2>4 DEF IInv, PlaceholdersOfDependencies
    <3>3. ASSUME NEW p \in Packages, NEW d \in Made, PackageOf[d[2][1]] = p
          PROVE  \E i \in DOMAIN arcs[p] : StandsFor(arcs[p][i], d, p, fixups)
      BY <2>4, <3>3 DEF IInv, PlaceholdersOfDependencies
    <3>4. ASSUME NEW p \in Packages, NEW x
          PROVE  x \in {graph[p][i] : i \in DOMAIN graph[p]} <=>
                 x \in {[from |-> Source(d), to |-> bundleOf[d[1]]] :
                          d \in {e \in depends : e[2] \in Imports /\ PackageOf[e[2][1]] = p}}
      <4>1. ASSUME NEW i \in DOMAIN arcs[p], x = graph[p][i]
            PROVE  \E d \in Made : PackageOf[d[2][1]] = p /\ x = [from |-> Source(d), to |-> bundleOf[d[1]]]
        BY <3>1, <3>2, <4>1 DEF StandsFor
      <4>2. ASSUME NEW d \in Made, PackageOf[d[2][1]] = p, x = [from |-> Source(d), to |-> bundleOf[d[1]]]
            PROVE  \E i \in DOMAIN arcs[p] : x = graph[p][i]
        BY <3>1, <3>3, <4>2
      <4> QED
        BY <2>1, <4>1, <4>2
    <3> QED
      BY <2>4, <3>4
  <2> QED
    BY <2>3, <2>4 DEF IInv, TypeOK
<1> QED
  BY <1>1, ArcsSafety, PTL

\* The fixup fails only over an import that its package does not have.
THEOREM FailsOnlyJustly == Spec => []FailsJustly
<1>1. IInv => FailsJustly
  <2> SUFFICES ASSUME IInv, pc = "failed"
               PROVE  \E d \in depends : /\ d[2] \in Imports
                                          /\ PackageOf[d[2][1]] \in held
                                          /\ located[d[2]] = None
    BY DEF FailsJustly
  <2>1. PICK o \in unfixed : Resolve(fixups[arcs[o[1]][o[2]].from]) = None
    BY DEF IInv, Written
  <2>2. o[1] \in Packages /\ o[2] \in DOMAIN arcs[o[1]] /\ version = "UE4"
    BY <2>1 DEF IInv, TypeOK, Offsets, Written
  <2>3. PICK d \in Made : StandsFor(arcs[o[1]][o[2]], d, o[1], fixups)
    BY <2>2 DEF IInv, PlaceholdersOfDependencies
  <2>4. LastBundle # None
    BY ArcsAssumption DEF LastBundle
  <2> QED
    BY <2>1, <2>3, <2>4 DEF StandsFor, Resolve, Locate, Made
<1> QED
  BY <1>1, ArcsSafety, PTL
=============================================================================
