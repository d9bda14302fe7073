------------------------ MODULE ShaderArchiveProofs ------------------------
(***************************************************************************)
(* Proofs about shader libraries and their archives, for any library, any  *)
(* size of the code and any maximum of the size of a group: the groups of  *)
(* a library have each of its shaders once and are not much larger than    *)
(* the maximum (GroupsOfLibrary); lemmas about sequences, the header of an *)
(* archive, the bytes of its chunks, the messages of a rebuild, and the    *)
(* regions that a game preloads, for the proofs of the conversion.         *)
(***************************************************************************)
EXTENDS ShaderArchive, FiniteSetTheorems, WellFoundedInduction, TLAPS

\* A set of numbers has a least one: the induction over the messages rests on it.
LEMMA LeastNumber ==
  ASSUME NEW T, T \subseteq Nat, T # {}
  PROVE  \E n \in T : \A m \in T : n <= m
<1>1. PICK t \in T : t \in Nat
  OBVIOUS
<1>2. PICK W : W = {0..m : m \in T \cap (0..t)}
  OBVIOUS
<1>3. W \subseteq FiniteSubsetsOf(0..t)
  <2>1. IsFiniteSet(0..t) /\ 0..t \subseteq 0..t
    BY <1>1, FS_Interval
  <2>2. FiniteSubsetsOf(0..t) = SUBSET (0..t)
    BY <2>1, FS_FiniteSubsetsOfFinite
  <2>3. \A m \in 0..t : 0..m \subseteq 0..t
    BY <1>1
  <2> QED
    BY <1>2, <2>2, <2>3
<1>4. W # {}
  BY <1>1, <1>2
<1>5. PICK X \in W : \A Y \in W : <<Y, X>> \notin StrictSubsetOrdering(0..t)
  <2>1. IsWellFoundedOn(StrictSubsetOrdering(0..t), FiniteSubsetsOf(0..t))
    BY FS_StrictSubsetOrderingWellFounded
  <2> QED
    BY <1>3, <1>4, <2>1, WFMin
<1>6. PICK n \in T \cap (0..t) : X = 0..n
  BY <1>2
<1>7. ASSUME NEW m \in T, m < n
      PROVE  FALSE
  <2>1. m \in 0..t /\ n \in 0..t /\ m \in Nat /\ n \in Nat
    BY <1>1, <1>6, <1>7
  <2>2. 0..m \in W
    BY <1>2, <2>1
  <2>3. 0..m \subseteq 0..n /\ 0..m \subseteq 0..t /\ 0..n \subseteq 0..t
    BY <1>1, <1>7, <2>1
  <2>4. n \in 0..n /\ n \notin 0..m
    BY <1>7, <2>1
  <2>5. <<0..m, X>> \in StrictSubsetOrdering(0..t)
    BY <1>6, <2>3, <2>4 DEF StrictSubsetOrdering
  <2> QED
    BY <1>5, <2>2, <2>5
<1>8. \A m \in T : n <= m
  BY <1>1, <1>6, <1>7
<1> QED
  BY <1>6, <1>8

-----------------------------------------------------------------------------
(* Where joined sequences lie.                                             *)

\* f joins the first sequences, for each number of them.
Joined(f, seqs, N) == f = [i \in 1..N |-> IF i = 1 THEN seqs[i] ELSE f[i - 1] \o seqs[i]]

\* There is such an f.
LEMMA FlattenDefined ==
  ASSUME NEW S, NEW N \in Nat \ {0}, NEW seqs \in [1..N -> Seq(S)]
  PROVE  \E f \in [1..N -> Seq(S)] : Joined(f, seqs, N)
<1>1. PICK R : R = Seq(S)
  OBVIOUS
<1>2. seqs \in [1..N -> R] /\ \A a, b \in R : a \o b \in R
  BY <1>1
<1> DEFINE Joins(g, n) == /\ g \in [1..n -> R] /\ g[1] = seqs[1]
                          /\ \A k \in 2..n : g[k] = g[k - 1] \o seqs[k]
           T == {n \in 1..N : ~ \E g : Joins(g, n)}
<1>3. T \subseteq 1..N /\ \A n \in 1..N : n \notin T <=> \E g : Joins(g, n)
  <2> HIDE DEF Joins
  <2> QED
    BY Zenon
<1> HIDE DEF T
<1>4. T = {}
  <2>1. SUFFICES ASSUME T # {} PROVE FALSE
    OBVIOUS
  <2>2. PICK n \in T : \A m \in T : n <= m
    <3>1. T \subseteq Nat
      BY <1>3
    <3> QED
      BY <2>1, <3>1, LeastNumber
  <2>3. n \in 1..N /\ n \in Nat
    BY <1>3
  <2>4. CASE n = 1
    <3>1. Joins([k \in 1..1 |-> seqs[1]], 1)
      BY <1>2
    <3> QED
      BY <1>3, <2>3, <2>4, <3>1
  <2>5. CASE n # 1
    <3>1. n - 1 \in 1..N /\ n - 1 \notin T
      <4>1. n - 1 \in 1..N /\ ~ (n <= n - 1)
        BY <2>3, <2>5
      <4> QED
        BY <2>2, <4>1
    <3>2. PICK g : Joins(g, n - 1)
      BY <1>3, <3>1
    <3>3. PICK h : h = [k \in 1..n |-> IF k = n THEN g[n - 1] \o seqs[n] ELSE g[k]]
      OBVIOUS
    <3>4. g[n - 1] \in R /\ seqs[n] \in R
      BY <1>2, <2>3, <2>5, <3>1, <3>2
    <3>5. h \in [1..n -> R]
      BY <1>2, <2>3, <2>5, <3>2, <3>3, <3>4
    <3>6. h[1] = seqs[1]
      BY <2>3, <2>5, <3>2, <3>3
    <3>7. ASSUME NEW k \in 2..n
          PROVE  h[k] = h[k - 1] \o seqs[k]
      <4>1. CASE k = n
        <5>1. n - 1 \in 1..n /\ n - 1 # n /\ n \in 1..n
          BY <2>3, <2>5
        <5> QED
          BY <3>3, <4>1, <5>1
      <4>2. CASE k # n
        <5>1. k \in 1..n /\ k - 1 \in 1..n /\ k - 1 # n /\ k \in 2..(n - 1)
          BY <2>3, <4>2
        <5> QED
          BY <3>2, <3>3, <4>2, <5>1
      <4> QED
        BY <4>1, <4>2
    <3>8. Joins(h, n)
      BY <3>5, <3>6, <3>7
    <3> QED
      BY <1>3, <2>3, <3>8
  <2> QED
    BY <2>4, <2>5
<1>5. PICK g : Joins(g, N)
  <2>1. N \in 1..N /\ N \notin T
    BY <1>4
  <2> QED
    BY <1>3, <2>1
<1>6. Joined(g, seqs, N)
  <2>1. \A i \in 1..N : i = 1 \/ i \in 2..N
    OBVIOUS
  <2>2. /\ g \in [1..N -> R]
        /\ \A i \in 1..N : g[i] = IF i = 1 THEN seqs[i] ELSE g[i - 1] \o seqs[i]
    BY <1>5, <2>1
  <2> QED
    BY <2>2 DEF Joined
<1> QED
  BY <1>1, <1>5, <1>6

\* FlattenSeq joins the sequences: behind each is the next.
LEMMA FlattenSteps ==
  ASSUME NEW S, NEW seqs \in Seq(Seq(S)), seqs # <<>>
  PROVE  \E f \in [1..Len(seqs) -> Seq(S)] :
           /\ f[1] = seqs[1] /\ \A i \in 2..Len(seqs) : f[i] = f[i - 1] \o seqs[i]
           /\ FlattenSeq(seqs) = f[Len(seqs)]
<1>1. PICK N : N = Len(seqs)
  OBVIOUS
<1>2. N \in Nat \ {0} /\ seqs \in [1..N -> Seq(S)]
  BY <1>1
<1>3. PICK f : f = CHOOSE g : Joined(g, seqs, N)
  OBVIOUS
<1>4. FlattenSeq(seqs) = f[N]
  BY <1>1, <1>2, <1>3 DEF FlattenSeq, Joined
<1>5. Joined(f, seqs, N)
  <2>1. \E g : Joined(g, seqs, N)
    BY <1>2, FlattenDefined
  <2> QED
    BY <1>3, <2>1
<1>6. f[1] = seqs[1] /\ \A i \in 2..N : f[i] = f[i - 1] \o seqs[i]
  <2>1. \A i \in 2..N : i \in 1..N /\ i # 1
    BY <1>2
  <2>2. \A i \in 1..N : f[i] = IF i = 1 THEN seqs[i] ELSE f[i - 1] \o seqs[i]
    BY <1>5 DEF Joined
  <2>3. 1 \in 1..N
    BY <1>2
  <2> QED
    BY <2>1, <2>2, <2>3
<1>7. ASSUME NEW i \in 1..N, f[i] \notin Seq(S)
      PROVE  FALSE
  <2>1. PICK U : U = {j \in 1..N : f[j] \notin Seq(S)}
    OBVIOUS
  <2>2. U \subseteq Nat /\ U # {}
    BY <1>2, <1>7, <2>1, SMTT(60)
  <2>3. PICK n \in U : \A m \in U : n <= m
    BY <2>2, LeastNumber
  <2>4. n # 1
    BY <1>2, <1>6, <2>1, <2>3
  <2>5. n \in 2..N /\ n - 1 \in 1..N /\ n - 1 \notin U
    BY <1>2, <2>1, <2>3, <2>4
  <2>6. f[n - 1] \in Seq(S) /\ seqs[n] \in Seq(S)
    BY <1>2, <2>1, <2>5
  <2>7. \A a, b \in Seq(S) : a \o b \in Seq(S)
    OBVIOUS
  <2>8. f[n] \in Seq(S)
    BY <1>6, <2>5, <2>6, <2>7
  <2> QED
    BY <2>1, <2>3, <2>8
<1>8. f \in [1..N -> Seq(S)]
  BY <1>5, <1>7 DEF Joined
<1> QED
  BY <1>1, <1>4, <1>6, <1>8

\* Where the elements of the first n sequences are in f[n], which joins them.
PlacesUpTo(seqs, f, off, n) ==
  /\ \A m \in 1..n : off[m] + Len(seqs[m]) <= Len(f[n])
  /\ \A m \in 1..n : \A i \in 1..Len(seqs[m]) : f[n][off[m] + i] = seqs[m][i]
  /\ \A p \in 1..Len(f[n]) : \E m \in 1..n : \E i \in 1..Len(seqs[m]) : p = off[m] + i

\* Joined step by step, the elements of each sequence lie behind those before it.
LEMMA PlacesStep ==
  ASSUME NEW S, NEW N \in Nat \ {0}, NEW seqs \in [1..N -> Seq(S)], NEW f \in [1..N -> Seq(S)],
         f[1] = seqs[1], \A i \in 2..N : f[i] = f[i - 1] \o seqs[i],
         NEW off \in [1..N -> Nat],
         off[1] = 0, \A i \in 2..N : off[i] = Len(f[i - 1])
  PROVE  \A n \in 1..N : PlacesUpTo(seqs, f, off, n)
<1>1. PICK T : T = {n \in 1..N : ~PlacesUpTo(seqs, f, off, n)}
  OBVIOUS
<1>2. SUFFICES ASSUME T # {} PROVE FALSE
  BY <1>1
<1>3. PICK n \in T : \A m \in T : n <= m
  <2>1. T \subseteq Nat
    BY <1>1
  <2> QED
    BY <1>2, <2>1, LeastNumber
<1>4. n \in 1..N /\ n \in Nat /\ ~PlacesUpTo(seqs, f, off, n)
  BY <1>1, <1>3
<1>5. CASE n = 1
  <2>1. f[1] \in Seq(S) /\ Len(f[1]) \in Nat /\ Len(seqs[1]) = Len(f[1])
    OBVIOUS
  <2>2. \A m \in 1..1 : m = 1
    OBVIOUS
  <2>3. PlacesUpTo(seqs, f, off, 1)
    <3>1. \A p \in 1..Len(f[1]) : p = off[1] + p /\ p \in 1..Len(seqs[1]) /\ 1 \in 1..1
      BY <2>1
    <3>2. \A p \in 1..Len(f[1]) : \E m \in 1..1 : \E i \in 1..Len(seqs[m]) : p = off[m] + i
      BY <3>1
    <3>3. \A i \in 1..Len(seqs[1]) : off[1] + i = i
      OBVIOUS
    <3> QED
      BY <2>1, <2>2, <3>2, <3>3 DEF PlacesUpTo
  <2> QED
    BY <1>4, <1>5, <2>3
<1>6. CASE n # 1
  <2>1. n \in 2..N /\ n - 1 \in 1..N /\ n - 1 \notin T
    BY <1>1, <1>3, <1>4, <1>6
  <2>2. PlacesUpTo(seqs, f, off, n - 1)
    BY <1>1, <2>1
  <2>3. PICK a : a = f[n - 1]
    OBVIOUS
  <2>4. PICK b : b = seqs[n]
    OBVIOUS
  <2>5. a \in Seq(S) /\ b \in Seq(S) /\ f[n] = a \o b /\ off[n] = Len(a)
    BY <1>4, <2>1, <2>3, <2>4
  <2>6. /\ Len(a) \in Nat /\ Len(b) \in Nat /\ Len(f[n]) = Len(a) + Len(b)
        /\ \A i \in 1..Len(a) : f[n][i] = a[i]
        /\ \A i \in 1..Len(b) : f[n][Len(a) + i] = b[i]
    <3>1. \A s, t \in Seq(S) :
            /\ Len(s) \in Nat /\ Len(t) \in Nat /\ Len(s \o t) = Len(s) + Len(t)
            /\ \A i \in 1..Len(s) : (s \o t)[i] = s[i]
            /\ \A i \in 1..Len(t) : (s \o t)[Len(s) + i] = t[i]
      OBVIOUS
    <3> QED
      BY <2>5, <3>1
  <2>7. /\ \A m \in 1..(n - 1) : off[m] + Len(seqs[m]) <= Len(a)
        /\ \A m \in 1..(n - 1) : \A i \in 1..Len(seqs[m]) : a[off[m] + i] = seqs[m][i]
        /\ \A p \in 1..Len(a) : \E m \in 1..(n - 1) : \E i \in 1..Len(seqs[m]) : p = off[m] + i
    BY <2>2, <2>3 DEF PlacesUpTo
  <2>8. \A m \in 1..n : m = n \/ m \in 1..(n - 1)
    BY <1>4
  <2>9. \A m \in 1..(n - 1) : off[m] \in Nat /\ Len(seqs[m]) \in Nat /\ m \in 1..n
    <3>1. \A m \in 1..(n - 1) : m \in 1..N /\ m \in 1..n
      BY <1>4
    <3>2. \A m \in 1..N : off[m] \in Nat /\ Len(seqs[m]) \in Nat
      OBVIOUS
    <3> QED
      BY <3>1, <3>2
  <2>10. \A m \in 1..n : off[m] + Len(seqs[m]) <= Len(f[n])
    <3>1. \A m \in 1..(n - 1) : off[m] + Len(seqs[m]) <= Len(f[n])
      <4>1. \A x, y, z, u \in Nat : x + y <= z => x + y <= z + u
        OBVIOUS
      <4> QED
        BY <2>6, <2>7, <2>9, <4>1, SMTT(60)
    <3>2. off[n] + Len(seqs[n]) <= Len(f[n])
      BY <2>4, <2>5, <2>6
    <3> QED
      BY <2>8, <3>1, <3>2
  <2>11. ASSUME NEW m \in 1..n, NEW i \in 1..Len(seqs[m])
         PROVE  f[n][off[m] + i] = seqs[m][i]
    <3>1. CASE m = n
      BY <2>4, <2>5, <2>6, <3>1
    <3>2. CASE m \in 1..(n - 1)
      <4>1. off[m] + i \in 1..Len(a)
        <5>1. off[m] \in Nat /\ Len(seqs[m]) \in Nat /\ off[m] + Len(seqs[m]) <= Len(a)
          BY <2>7, <2>9, <3>2
        <5>2. \A x, y, z \in Nat : \A k \in 1..y : x + y <= z => x + k \in 1..z
          OBVIOUS
        <5> QED
          BY <2>6, <5>1, <5>2
      <4> QED
        BY <2>6, <2>7, <3>2, <4>1
    <3> QED
      BY <2>8, <3>1, <3>2
  <2>12. ASSUME NEW p \in 1..Len(f[n])
         PROVE  \E m \in 1..n : \E i \in 1..Len(seqs[m]) : p = off[m] + i
    <3>1. CASE p \in 1..Len(a)
      <4>1. PICK m \in 1..(n - 1) : \E i \in 1..Len(seqs[m]) : p = off[m] + i
        BY <2>7, <3>1
      <4> QED
        BY <2>9, <4>1
    <3>2. CASE p \notin 1..Len(a)
      <4>1. p - Len(a) \in 1..Len(b) /\ p = Len(a) + (p - Len(a)) /\ n \in 1..n
        BY <1>4, <2>6, <3>2
      <4>2. \E i \in 1..Len(seqs[n]) : p = off[n] + i
        BY <2>4, <2>5, <4>1
      <4> QED
        BY <4>1, <4>2
    <3> QED
      BY <3>1, <3>2
  <2>13. PlacesUpTo(seqs, f, off, n)
    BY <2>10, <2>11, <2>12 DEF PlacesUpTo
  <2> QED
    BY <1>4, <2>13
<1> QED
  BY <1>5, <1>6

\* Where the elements of the sequences are in the one they are joined to: each in
\* one place, and nothing else.
Places(seqs, off) ==
  /\ off \in [1..Len(seqs) -> Nat]
  /\ \A m \in 1..Len(seqs) : \A i \in 1..Len(seqs[m]) :
       /\ off[m] + i \in 1..Len(FlattenSeq(seqs))
       /\ FlattenSeq(seqs)[off[m] + i] = seqs[m][i]
  /\ \A p \in 1..Len(FlattenSeq(seqs)) :
       \E m \in 1..Len(seqs) : \E i \in 1..Len(seqs[m]) : p = off[m] + i
  /\ \A m, n \in 1..Len(seqs) : \A i \in 1..Len(seqs[m]), j \in 1..Len(seqs[n]) :
       off[m] + i = off[n] + j => m = n /\ i = j

\* The elements of joined sequences have such places.
LEMMA FlattenPlaces ==
  ASSUME NEW S, NEW seqs \in Seq(Seq(S))
  PROVE  FlattenSeq(seqs) \in Seq(S) /\ \E off : Places(seqs, off)
<1>1. PICK N : N = Len(seqs)
  OBVIOUS
<1>2. N \in Nat /\ seqs \in [1..N -> Seq(S)] /\ \A m \in 1..N : seqs[m] \in Seq(S) /\ Len(seqs[m]) \in Nat
  BY <1>1
<1>3. CASE seqs = <<>>
  <2>1. FlattenSeq(seqs) = <<>> /\ N = 0
    BY <1>1, <1>3 DEF FlattenSeq
  <2>2. Places(seqs, [m \in 1..0 |-> 0])
    BY <1>1, <1>3, <2>1 DEF Places
  <2> QED
    BY <2>1, <2>2
<1>4. CASE seqs # <<>>
  <2>1. N # 0 /\ N \in 1..N
    BY <1>1, <1>2, <1>4
  <2>2. PICK f \in [1..N -> Seq(S)] :
          /\ f[1] = seqs[1] /\ \A i \in 2..N : f[i] = f[i - 1] \o seqs[i]
          /\ FlattenSeq(seqs) = f[N]
    BY <1>1, <1>4, FlattenSteps
  <2>3. PICK off : off = [m \in 1..N |-> IF m = 1 THEN 0 ELSE Len(f[m - 1])]
    OBVIOUS
  <2>4. off \in [1..N -> Nat] /\ off[1] = 0 /\ \A i \in 2..N : off[i] = Len(f[i - 1])
    <3>1. \A m \in 1..N : m = 1 \/ (m - 1 \in 1..N /\ Len(f[m - 1]) \in Nat)
      <4>1. \A m \in 1..N : m = 1 \/ m - 1 \in 1..N
        BY <1>2
      <4>2. \A m \in 1..N : Len(f[m]) \in Nat
        BY <2>2
      <4> QED
        BY <4>1, <4>2
    <3>2. \A m \in 2..N : m \in 1..N /\ m # 1
      BY <1>2
    <3> QED
      BY <2>1, <2>3, <3>1, <3>2
  <2>5. \A n \in 1..N : PlacesUpTo(seqs, f, off, n)
    BY <1>2, <2>1, <2>2, <2>4, PlacesStep
  <2>6. /\ \A m \in 1..N : off[m] + Len(seqs[m]) <= Len(f[N])
        /\ \A m \in 1..N : \A i \in 1..Len(seqs[m]) : f[N][off[m] + i] = seqs[m][i]
        /\ \A p \in 1..Len(f[N]) : \E m \in 1..N : \E i \in 1..Len(seqs[m]) : p = off[m] + i
    BY <2>1, <2>5 DEF PlacesUpTo
  <2>7. \A m, n \in 1..N : m < n => off[m] + Len(seqs[m]) <= off[n]
    <3>1. TAKE m, n \in 1..N
    <3>2. HAVE m < n
    <3>3. n \in 2..N /\ n - 1 \in 1..N /\ m \in 1..(n - 1)
      BY <1>2, <3>1, <3>2
    <3>4. PlacesUpTo(seqs, f, off, n - 1)
      BY <2>5, <3>3
    <3> QED
      BY <2>4, <3>3, <3>4 DEF PlacesUpTo
  <2>8. ASSUME NEW m \in 1..N, NEW n \in 1..N, NEW i \in 1..Len(seqs[m]), NEW j \in 1..Len(seqs[n]),
               off[m] + i = off[n] + j
        PROVE  m = n /\ i = j
    <3>1. off[m] \in Nat /\ off[n] \in Nat /\ Len(seqs[m]) \in Nat /\ Len(seqs[n]) \in Nat
      BY <1>2, <2>4
    <3>2. ~(m < n)
      <4>1. m < n => off[m] + Len(seqs[m]) <= off[n]
        BY <2>7
      <4> QED
        BY <2>8, <3>1, <4>1, SMTT(60)
    <3>3. ~(n < m)
      <4>1. n < m => off[n] + Len(seqs[n]) <= off[m]
        BY <2>7
      <4> QED
        BY <2>8, <3>1, <4>1, SMTT(60)
    <3>4. m = n
      BY <1>2, <3>2, <3>3
    <3> QED
      BY <2>8, <3>1, <3>4
  <2>9. Len(f[N]) \in Nat /\ f[N] \in Seq(S)
    BY <2>1, <2>2
  <2>10. ASSUME NEW m \in 1..N, NEW i \in 1..Len(seqs[m])
         PROVE  off[m] + i \in 1..Len(f[N])
    <3>1. off[m] \in Nat /\ Len(seqs[m]) \in Nat /\ off[m] + Len(seqs[m]) <= Len(f[N])
      BY <1>2, <2>4, <2>6
    <3> QED
      BY <2>9, <3>1, SMTT(60)
  <2>11. Places(seqs, off)
    BY <1>1, <2>2, <2>4, <2>6, <2>8, <2>10 DEF Places
  <2> QED
    BY <2>2, <2>9, <2>11
<1> QED
  BY <1>3, <1>4

\* What holds of zero and of the next number holds up to N.
LEMMA Induction ==
  ASSUME NEW N \in Nat, NEW T, 0 \in T, \A n \in 0..(N - 1) : n \in T => n + 1 \in T
  PROVE  0..N \subseteq T
<1>1. PICK U : U = {n \in 0..N : n \notin T}
  OBVIOUS
<1>2. SUFFICES ASSUME U # {} PROVE FALSE
  BY <1>1
<1>3. PICK n \in U : \A m \in U : n <= m
  <2>1. U \subseteq Nat
    BY <1>1
  <2> QED
    BY <1>2, <2>1, LeastNumber
<1>4. n \in 0..N /\ n # 0
  BY <1>1, <1>3
<1>5. n - 1 \in 0..(N - 1) /\ n - 1 \in 0..N /\ (n - 1) + 1 = n /\ ~ (n <= n - 1)
  BY <1>4
<1>6. n - 1 \in T
  BY <1>1, <1>3, <1>5
<1> QED
  BY <1>1, <1>3, <1>5, <1>6

-----------------------------------------------------------------------------
(* The size of a group.                                                    *)

\* A step of the sum, and the sums of the first n sizes.
AddSize(library, n, s) == Let(<<n, s>>, LAMBDA pair : pair[1] + library.shaders[pair[2]].full)
Sums(f, library, group, n) ==
  f = [k \in 0..n |-> IF k = 0 THEN 0 ELSE AddSize(library, f[k - 1], group[k])]

\* There are such sums, and the last is the size.
LEMMA SizeSums ==
  ASSUME NEW library, NEW group, Len(group) \in Nat
  PROVE  \E f : Sums(f, library, group, Len(group)) /\ SizeOf(library, group) = f[Len(group)]
<1> DEFINE T == {n \in 0..Len(group) : \E g : Sums(g, library, group, n)}
<1>1. 0 \in T
  <2>1. Sums([k \in 0..0 |-> 0], library, group, 0)
    BY DEF Sums
  <2> QED
    BY <2>1
<1>2. ASSUME NEW n \in 0..(Len(group) - 1), n \in T
      PROVE  n + 1 \in T
  <2>1. PICK g : Sums(g, library, group, n)
    BY <1>2
  <2>2. PICK h : h = [k \in 0..(n + 1) |->
                        IF k = n + 1 THEN AddSize(library, g[n], group[n + 1]) ELSE g[k]]
    OBVIOUS
  <2>3. Sums(h, library, group, n + 1)
    <3>1. \A k \in 0..(n + 1) : k = n + 1 \/ k \in 0..n
      OBVIOUS
    <3>2. \A k \in 0..n : k # n + 1 /\ k \in 0..(n + 1) /\ (k # 0 => k - 1 \in 0..n)
      OBVIOUS
    <3>3. \A k \in 0..n : h[k] = g[k]
      BY <2>2, <3>2
    <3>4. ASSUME NEW k \in 0..n
          PROVE  h[k] = IF k = 0 THEN 0 ELSE AddSize(library, h[k - 1], group[k])
      BY <2>1, <3>2, <3>3 DEF Sums
    <3>5. h[n + 1] = AddSize(library, h[n], group[n + 1]) /\ n + 1 # 0 /\ (n + 1) - 1 = n
      BY <2>2, <3>2, <3>3
    <3>6. \A k \in 0..(n + 1) :
            h[k] = IF k = 0 THEN 0 ELSE AddSize(library, h[k - 1], group[k])
      BY <3>1, <3>4, <3>5
    <3> QED
      BY <2>2, <3>6 DEF Sums
  <2>4. n + 1 \in 0..Len(group)
    OBVIOUS
  <2> QED
    BY <2>3, <2>4
<1>3. Len(group) \in T
  <2> HIDE DEF T
  <2>1. 0..Len(group) \subseteq T
    BY <1>1, <1>2, Induction
  <2> QED
    BY <2>1
<1>4. \E f : Sums(f, library, group, Len(group))
  BY <1>3
<1>5. SizeOf(library, group) = (CHOOSE f : Sums(f, library, group, Len(group)))[Len(group)]
  BY Zenon DEF Sums, SizeOf, Fold, AddSize
<1> QED
  BY <1>4, <1>5

\* A step of the sum adds the size of the shader.
LEMMA SizeAdded ==
  ASSUME NEW library, NEW n, NEW s
  PROVE  AddSize(library, n, s) = n + library.shaders[s].full
  BY DEF AddSize, Let, Only

\* The shaders of a library by number.
LEMMA ShaderTypes ==
  ASSUME NEW library, IsLibrary(library)
  PROVE  /\ Len(library.shaders) \in Nat /\ DOMAIN library.shaders = 1..Len(library.shaders)
         /\ \A s \in DOMAIN library.shaders :
              /\ library.shaders[s].full \in Nat /\ library.shaders[s].full > 0
              /\ library.shaders[s].hash \in DOMAIN FullSize
              /\ library.shaders[s].size \in Nat /\ library.shaders[s].offset \in Nat
<1>1. PICK R : R = [hash : DOMAIN FullSize, frequency : Nat, full : Nat \ {0},
                    size : Nat, offset : Nat]
  OBVIOUS
<1>2. library.shaders \in Seq(R)
  BY <1>1 DEF IsLibrary
<1>3. \A s \in DOMAIN library.shaders : library.shaders[s] \in R
  BY <1>2
<1>4. Len(library.shaders) \in Nat /\ DOMAIN library.shaders = 1..Len(library.shaders)
  BY <1>2
<1>5. \A e \in R : /\ e.full \in Nat /\ e.full > 0 /\ e.hash \in DOMAIN FullSize
                   /\ e.size \in Nat /\ e.offset \in Nat
  BY <1>1
<1> QED
  BY <1>3, <1>4, <1>5

\* The sums are numbers, which never fall, and each step adds the size of a shader.
LEMMA SumsRise ==
  ASSUME NEW library, IsLibrary(library), NEW group \in Seq(DOMAIN library.shaders),
         NEW N \in 0..Len(group), NEW f, Sums(f, library, group, N)
  PROVE  /\ \A n \in 0..N : f[n] \in Nat
         /\ f[0] = 0
         /\ \A n \in 1..N : f[n] = f[n - 1] + library.shaders[group[n]].full
         /\ \A n \in 0..N : f[n] <= f[N]
<1>1. Len(group) \in Nat /\ N \in Nat /\ \A n \in 1..N : n \in 0..N /\ n # 0 /\ n - 1 \in 0..N
  OBVIOUS
<1>2. \A n \in 1..N : library.shaders[group[n]].full \in Nat
  BY <1>1, ShaderTypes
<1>3. f[0] = 0 /\ \A n \in 1..N : f[n] = f[n - 1] + library.shaders[group[n]].full
  BY <1>1, SizeAdded DEF Sums
<1>4. \A n \in 0..N : f[n] \in Nat
  <2> DEFINE T == {n \in 0..N : f[n] \in Nat}
  <2>1. 0 \in T
    BY <1>3
  <2>2. ASSUME NEW n \in 0..(N - 1), n \in T
        PROVE  n + 1 \in T
    <3>1. n + 1 \in 1..N /\ (n + 1) - 1 = n /\ n + 1 \in 0..N
      BY <1>1
    <3>2. f[n + 1] = f[n] + library.shaders[group[n + 1]].full
      BY <1>3, <3>1
    <3>3. library.shaders[group[n + 1]].full \in Nat /\ f[n] \in Nat
      BY <1>2, <2>2, <3>1
    <3> QED
      BY <3>1, <3>2, <3>3
  <2> HIDE DEF T
  <2>3. 0..N \subseteq T
    BY <1>1, <2>1, <2>2, Induction
  <2> QED
    BY <2>3 DEF T
<1>5. \A n \in 0..N : f[n] <= f[N]
  <2> DEFINE T == {n \in 0..N : f[N - n] <= f[N]}
  <2>1. 0 \in T
    <3>1. N - 0 = N /\ N \in 0..N /\ f[N] \in Nat
      BY <1>1, <1>4
    <3> QED
      BY <3>1
  <2>2. ASSUME NEW n \in 0..(N - 1), n \in T
        PROVE  n + 1 \in T
    <3>1. N - n \in 1..N /\ N - n \in 0..N /\ n + 1 \in 0..N /\ (N - n) - 1 = N - (n + 1)
          /\ N - (n + 1) \in 0..N /\ N \in 0..N
      BY <1>1
    <3>2. f[N - n] = f[N - (n + 1)] + library.shaders[group[N - n]].full
      BY <1>3, <3>1
    <3>3. library.shaders[group[N - n]].full \in Nat /\ f[N - (n + 1)] \in Nat /\ f[N] \in Nat
      BY <1>2, <1>4, <3>1
    <3>4. f[N - n] <= f[N]
      BY <2>2
    <3>5. f[N - (n + 1)] <= f[N]
      BY <3>2, <3>3, <3>4, SMTT(60)
    <3> QED
      BY <3>1, <3>5
  <2> HIDE DEF T
  <2>3. 0..N \subseteq T
    BY <1>1, <2>1, <2>2, Induction
  <2>4. ASSUME NEW n \in 0..N
        PROVE  f[n] <= f[N]
    <3>1. N - n \in 0..N /\ N - (N - n) = n
      BY <1>1
    <3> QED
      BY <2>3, <3>1 DEF T
  <2> QED
    BY <2>4
<1> QED
  BY <1>3, <1>4, <1>5

\* Sums that are added up in the same way are the same, and give the size.
LEMMA SizeIs ==
  ASSUME NEW library, IsLibrary(library), NEW group \in Seq(DOMAIN library.shaders), NEW h,
         h[0] = 0, \A n \in 1..Len(group) : h[n] = h[n - 1] + library.shaders[group[n]].full
  PROVE  SizeOf(library, group) = h[Len(group)] /\ SizeOf(library, group) \in Nat
<1>1. PICK N : N = Len(group)
  OBVIOUS
<1>2. N \in Nat /\ N \in 0..Len(group) /\ N \in 0..N
  BY <1>1
<1>3. PICK f : Sums(f, library, group, N) /\ SizeOf(library, group) = f[N]
  BY <1>1, <1>2, SizeSums
<1>4. /\ \A n \in 0..N : f[n] \in Nat
      /\ f[0] = 0 /\ \A n \in 1..N : f[n] = f[n - 1] + library.shaders[group[n]].full
  BY <1>2, <1>3, SumsRise
<1> DEFINE T == {n \in 0..N : f[n] = h[n]}
<1>5. 0 \in T
  BY <1>2, <1>4
<1>6. ASSUME NEW n \in 0..(N - 1), n \in T
      PROVE  n + 1 \in T
  <2>1. n + 1 \in 1..N /\ (n + 1) - 1 = n /\ n + 1 \in 0..N
    BY <1>2
  <2>2. /\ f[n + 1] = f[n] + library.shaders[group[n + 1]].full
        /\ h[n + 1] = h[n] + library.shaders[group[n + 1]].full
    BY <1>1, <1>4, <2>1
  <2> QED
    BY <1>6, <2>1, <2>2
<1> HIDE DEF T
<1>7. 0..N \subseteq T
  BY <1>2, <1>5, <1>6, Induction
<1>8. f[N] = h[N]
  BY <1>2, <1>7 DEF T
<1> QED
  BY <1>1, <1>2, <1>3, <1>4, <1>8

\* No shaders have no size.
LEMMA SizeOfNone ==
  ASSUME NEW library, IsLibrary(library)
  PROVE  SizeOf(library, <<>>) = 0
<1>1. PICK h : h = [n \in 0..0 |-> 0]
  OBVIOUS
<1>2. <<>> \in Seq(DOMAIN library.shaders) /\ Len(<<>>) = 0 /\ h[0] = 0
  BY <1>1
<1>3. \A n \in 1..Len(<<>>) : h[n] = h[n - 1] + library.shaders[<<>>[n]].full
  BY <1>2
<1> QED
  BY <1>2, <1>3, SizeIs, ZenonT(60)

\* The first elements of a sequence.
LEMMA FirstPart ==
  ASSUME NEW S, NEW q \in Seq(S), NEW n \in 0..Len(q)
  PROVE  /\ SubSeq(q, 1, n) \in Seq(S) /\ Len(SubSeq(q, 1, n)) = n
         /\ \A k \in 1..n : SubSeq(q, 1, n)[k] = q[k]
  OBVIOUS

\* l is q with x put in at place p.
WithOneMore(l, q, p, x) ==
  /\ Len(l) = Len(q) + 1
  /\ \A k \in 1..(Len(q) + 1) : l[k] = IF k < p THEN q[k] ELSE IF k = p THEN x ELSE q[k - 1]

\* Where the elements are when one is put in.
LEMMA InsertedAt ==
  ASSUME NEW S, NEW q \in Seq(S), NEW x \in S, NEW p \in 1..(Len(q) + 1)
  PROVE  InsertAt(q, p, x) \in Seq(S) /\ WithOneMore(InsertAt(q, p, x), q, p, x)
<1>1. PICK N : N = Len(q)
  OBVIOUS
<1>2. N \in Nat /\ p \in Nat /\ p \in 1..(N + 1)
  BY <1>1
<1>3. PICK a : a = SubSeq(q, 1, p - 1)
  OBVIOUS
<1>4. PICK b : b = SubSeq(q, p, N)
  OBVIOUS
<1>5. a \in Seq(S) /\ Len(a) = p - 1 /\ \A k \in 1..(p - 1) : a[k] = q[k]
  BY <1>1, <1>2, <1>3
<1>6. b \in Seq(S) /\ Len(b) = N + 1 - p /\ \A k \in 1..(N + 1 - p) : b[k] = q[k + p - 1]
  BY <1>1, <1>2, <1>4
<1>7. InsertAt(q, p, x) = a \o <<x>> \o b
  BY <1>1, <1>3, <1>4 DEF InsertAt
<1>8. <<x>> \in Seq(S) /\ Len(<<x>>) = 1 /\ <<x>>[1] = x
  OBVIOUS
<1>9. PICK c : c = a \o <<x>>
  OBVIOUS
<1>10. c \in Seq(S) /\ Len(c) = p /\ (\A k \in 1..(p - 1) : c[k] = q[k]) /\ c[p] = x
  BY <1>2, <1>5, <1>8, <1>9
<1>11. InsertAt(q, p, x) = c \o b
  BY <1>7, <1>9
<1>12. \A k \in 1..(N + 1) : k < p \/ k = p \/ k > p
  BY <1>2
<1>13. ASSUME NEW k \in 1..(N + 1)
       PROVE  (c \o b)[k] = IF k < p THEN q[k] ELSE IF k = p THEN x ELSE q[k - 1]
  <2>1. (c \o b)[k] = IF k <= Len(c) THEN c[k] ELSE b[k - Len(c)]
    <3>1. k \in 1..(Len(c) + Len(b))
      BY <1>2, <1>6, <1>10
    <3> QED
      BY <1>6, <1>10, <3>1
  <2>2. CASE k <= p
    <3>1. k < p \/ k = p
      BY <1>2, <2>2
    <3>2. k < p => k \in 1..(p - 1)
      BY <1>2
    <3> QED
      BY <1>2, <1>10, <2>1, <2>2, <3>1, <3>2
  <2>3. CASE k > p
    <3>1. k - p \in 1..(N + 1 - p) /\ (k - p) + p - 1 = k - 1
      BY <1>2, <2>3
    <3> QED
      BY <1>2, <1>6, <1>10, <2>1, <2>3, <3>1, SMTT(60)
  <2>4. k <= p \/ k > p
    BY <1>2
  <2> QED
    BY <2>2, <2>3, <2>4
<1>14. c \o b \in Seq(S) /\ Len(c \o b) = N + 1
  <2>1. c \o b \in Seq(S) /\ Len(c \o b) = Len(c) + Len(b)
    <3>1. \A u, v \in Seq(S) : u \o v \in Seq(S) /\ Len(u \o v) = Len(u) + Len(v)
      OBVIOUS
    <3> QED
      BY <1>6, <1>10, <3>1
  <2> QED
    BY <1>2, <1>6, <1>10, <2>1
<1> QED
  BY <1>1, <1>11, <1>13, <1>14 DEF WithOneMore

\* Wherever a shader is put into a group, its size is added.
LEMMA SizeInserted ==
  ASSUME NEW library, IsLibrary(library), NEW group \in Seq(DOMAIN library.shaders),
         NEW s \in DOMAIN library.shaders, NEW p \in 1..(Len(group) + 1)
  PROVE  /\ SizeOf(library, group) \in Nat
         /\ SizeOf(library, InsertAt(group, p, s))
              = SizeOf(library, group) + library.shaders[s].full
<1>1. PICK N : N = Len(group)
  OBVIOUS
<1>2. N \in Nat /\ N \in 0..Len(group) /\ N \in 0..N /\ p \in 1..(N + 1) /\ p \in Nat
  BY <1>1
<1>3. PICK f : Sums(f, library, group, N) /\ SizeOf(library, group) = f[N]
  BY <1>1, <1>2, SizeSums
<1>4. /\ \A n \in 0..N : f[n] \in Nat
      /\ f[0] = 0 /\ \A n \in 1..N : f[n] = f[n - 1] + library.shaders[group[n]].full
  BY <1>2, <1>3, SumsRise
<1>5. PICK x : x = library.shaders[s].full
  OBVIOUS
<1>6. x \in Nat
  BY <1>5, ShaderTypes
<1>7. PICK l : l = InsertAt(group, p, s)
  OBVIOUS
<1>8. /\ l \in Seq(DOMAIN library.shaders) /\ Len(l) = N + 1
      /\ \A k \in 1..(N + 1) : l[k] = IF k < p THEN group[k] ELSE IF k = p THEN s ELSE group[k - 1]
  <2>1. l \in Seq(DOMAIN library.shaders) /\ WithOneMore(l, group, p, s)
    BY <1>7, InsertedAt
  <2> QED
    BY <1>1, <2>1 DEF WithOneMore
<1>9. PICK h : h = [n \in 0..(N + 1) |-> IF n < p THEN f[n] ELSE f[n - 1] + x]
  OBVIOUS
<1>10. h[0] = 0 /\ h[N + 1] = f[N] + x
  BY <1>2, <1>4, <1>9
<1>11. ASSUME NEW n \in 1..(N + 1)
       PROVE  h[n] = h[n - 1] + library.shaders[l[n]].full
  <2>1. n \in 0..(N + 1) /\ n - 1 \in 0..(N + 1)
    BY <1>2
  <2>2. CASE n < p
    <3>1. n \in 1..N /\ n - 1 < p /\ n - 1 \in 0..N
      BY <1>2, <2>2
    <3>2. h[n] = f[n] /\ h[n - 1] = f[n - 1] /\ l[n] = group[n]
      BY <1>8, <1>9, <2>1, <2>2, <3>1
    <3> QED
      BY <1>4, <3>1, <3>2
  <2>3. CASE n = p
    <3>1. n - 1 < p /\ ~ (n < p)
      BY <1>2, <2>3
    <3>2. h[n] = f[n - 1] + x /\ h[n - 1] = f[n - 1] /\ l[n] = s
      BY <1>8, <1>9, <2>1, <2>3, <3>1
    <3> QED
      BY <1>5, <3>2
  <2>4. CASE n > p
    <3>1. n - 1 \in 1..N /\ ~ (n < p) /\ ~ (n - 1 < p) /\ n # p /\ n - 1 \in 0..N
          /\ (n - 1) - 1 \in 0..N
      BY <1>2, <2>4
    <3>2. h[n] = f[n - 1] + x /\ h[n - 1] = f[(n - 1) - 1] + x /\ l[n] = group[n - 1]
      BY <1>8, <1>9, <2>1, <3>1
    <3>3. f[n - 1] = f[(n - 1) - 1] + library.shaders[group[n - 1]].full
      BY <1>4, <3>1
    <3>4. library.shaders[group[n - 1]].full \in Nat
      BY <1>1, <3>1, ShaderTypes, SMTT(60)
    <3>5. \A a, b, c \in Nat : (a + b) + c = (a + c) + b
      OBVIOUS
    <3> QED
      BY <1>4, <1>6, <3>1, <3>2, <3>3, <3>4, <3>5, SMTT(60)
  <2> QED
    BY <1>2, <2>2, <2>3, <2>4
<1>12. SizeOf(library, l) = h[N + 1]
  BY <1>8, <1>10, <1>11, SizeIs
<1> QED
  BY <1>3, <1>4, <1>2, <1>5, <1>7, <1>10, <1>12

\* The first shaders of a group have a size of at most that of the group, and
\* the next one adds its own.
LEMMA SizeOfPrefix ==
  ASSUME NEW library, IsLibrary(library), NEW group \in Seq(DOMAIN library.shaders),
         NEW k \in 0..Len(group)
  PROVE  /\ SizeOf(library, group) \in Nat
         /\ SizeOf(library, SubSeq(group, 1, k)) \in Nat
         /\ SizeOf(library, SubSeq(group, 1, k)) <= SizeOf(library, group)
         /\ k < Len(group) =>
              SizeOf(library, SubSeq(group, 1, k + 1))
                = SizeOf(library, SubSeq(group, 1, k)) + library.shaders[group[k + 1]].full
<1>1. PICK N : N = Len(group)
  OBVIOUS
<1>2. N \in Nat /\ N \in 0..Len(group) /\ N \in 0..N /\ k \in 0..N
  BY <1>1
<1>3. PICK f : Sums(f, library, group, N) /\ SizeOf(library, group) = f[N]
  BY <1>1, <1>2, SizeSums
<1>4. /\ \A n \in 0..N : f[n] \in Nat
      /\ f[0] = 0 /\ \A n \in 1..N : f[n] = f[n - 1] + library.shaders[group[n]].full
      /\ \A n \in 0..N : f[n] <= f[N]
  BY <1>2, <1>3, SumsRise, SMTT(60)
<1>5. ASSUME NEW n \in 0..N
      PROVE  SizeOf(library, SubSeq(group, 1, n)) = f[n]
  <2>1. PICK l : l = SubSeq(group, 1, n)
    OBVIOUS
  <2>2. l \in Seq(DOMAIN library.shaders) /\ Len(l) = n /\ \A i \in 1..n : l[i] = group[i]
    BY <1>1, <1>2, <2>1, FirstPart
  <2>3. \A i \in 1..Len(l) : f[i] = f[i - 1] + library.shaders[l[i]].full
    <3>1. \A i \in 1..n : i \in 1..N
      BY <1>2
    <3> QED
      BY <1>4, <2>2, <3>1
  <2>4. SizeOf(library, l) = f[Len(l)]
    <3>1. f[0] = 0 /\ l \in Seq(DOMAIN library.shaders)
      BY <1>4, <2>2
    <3> QED
      BY <2>3, <3>1, SizeIs
  <2> QED
    BY <2>1, <2>2, <2>4
<1>6. CASE k < N
  <2>1. k + 1 \in 0..N /\ k + 1 \in 1..N /\ (k + 1) - 1 = k
    BY <1>2, <1>6
  <2> QED
    BY <1>2, <1>3, <1>4, <1>5, <2>1
<1>7. CASE ~ (k < N)
  BY <1>1, <1>2, <1>3, <1>4, <1>5, <1>7
<1> QED
  BY <1>6, <1>7

\* A group with a shader has a size.
LEMMA SizePositive ==
  ASSUME NEW library, IsLibrary(library), NEW group \in Seq(DOMAIN library.shaders),
         group # <<>>
  PROVE  SizeOf(library, group) \in Nat /\ SizeOf(library, group) > 0
<1>1. Len(group) \in Nat /\ Len(group) > 0 /\ 0 \in 0..Len(group) /\ 1 \in 0..Len(group)
  OBVIOUS
<1>2. group[1] \in DOMAIN library.shaders
  BY <1>1
<1>3. library.shaders[group[1]].full \in Nat /\ library.shaders[group[1]].full > 0
  BY <1>2, ShaderTypes
<1>4. /\ SizeOf(library, SubSeq(group, 1, 0)) \in Nat
      /\ SizeOf(library, SubSeq(group, 1, 0 + 1))
           = SizeOf(library, SubSeq(group, 1, 0)) + library.shaders[group[0 + 1]].full
  BY <1>1, SizeOfPrefix
<1>5. /\ SizeOf(library, SubSeq(group, 1, 1)) <= SizeOf(library, group)
      /\ SizeOf(library, group) \in Nat
  BY <1>1, SizeOfPrefix
<1>6. 0 + 1 = 1
  OBVIOUS
<1> QED
  BY <1>3, <1>4, <1>5, <1>6

-----------------------------------------------------------------------------
(* Sorting.                                                                *)

\* No element is twice in a sequence.
Distinct(q) == \A i, j \in 1..Len(q) : q[i] = q[j] => i = j

\* With one more element the sequence has that and those it had.
LEMMA InsertedKeeps ==
  ASSUME NEW S, NEW q \in Seq(S), NEW x \in S, NEW p \in 1..(Len(q) + 1)
  PROVE  /\ ToSet(InsertAt(q, p, x)) = ToSet(q) \cup {x}
         /\ Distinct(q) /\ x \notin ToSet(q) => Distinct(InsertAt(q, p, x))
<1>1. PICK N : N = Len(q)
  OBVIOUS
<1>2. PICK l : l = InsertAt(q, p, x)
  OBVIOUS
<1>3. N \in Nat /\ p \in Nat /\ p \in 1..(N + 1) /\ DOMAIN q = 1..N
  BY <1>1
<1>4. /\ l \in Seq(S) /\ Len(l) = N + 1
      /\ \A k \in 1..(N + 1) : l[k] = IF k < p THEN q[k] ELSE IF k = p THEN x ELSE q[k - 1]
  <2>1. l \in Seq(S) /\ WithOneMore(l, q, p, x)
    BY <1>2, InsertedAt
  <2> QED
    BY <1>1, <2>1 DEF WithOneMore
<1>5. ToSet(l) = {l[k] : k \in 1..(N + 1)} /\ ToSet(q) = {q[k] : k \in 1..N}
  <2>1. ToSet(l) = {l[k] : k \in DOMAIN l} /\ ToSet(q) = {q[k] : k \in DOMAIN q}
    BY DEF ToSet
  <2>2. DOMAIN l = 1..(N + 1)
    BY <1>3, <1>4
  <2> QED
    BY <1>3, <2>1, <2>2
<1>6. \A k \in 1..(N + 1) : /\ k < p => k \in 1..N
                            /\ ~ (k < p) /\ k # p => k - 1 \in 1..N
  BY <1>3
<1>7. \A k \in 1..(N + 1) : l[k] \in ToSet(q) \cup {x}
  BY <1>4, <1>5, <1>6
<1>8. x \in ToSet(l)
  BY <1>3, <1>4, <1>5
<1>9. ASSUME NEW k \in 1..N
      PROVE  q[k] \in ToSet(l)
  <2>1. k \in 1..(N + 1) /\ k + 1 \in 1..(N + 1) /\ (k + 1) - 1 = k
    BY <1>3
  <2>2. ~ (k < p) => ~ (k + 1 < p) /\ k + 1 # p
    BY <1>3
  <2>3. (k < p => l[k] = q[k]) /\ (~ (k < p) => l[k + 1] = q[k])
    BY <1>4, <2>1, <2>2
  <2> QED
    BY <1>5, <2>1, <2>3
<1>10. ToSet(l) = ToSet(q) \cup {x}
  BY <1>5, <1>7, <1>8, <1>9
<1>11. ASSUME Distinct(q), x \notin ToSet(q)
       PROVE  Distinct(l)
  <2>1. SUFFICES ASSUME NEW i \in 1..(N + 1), NEW j \in 1..(N + 1), l[i] = l[j], i < j
                 PROVE  FALSE
    BY <1>3, <1>4 DEF Distinct
  <2>2. \A k \in 1..N : q[k] # x
    BY <1>5, <1>11
  <2>3. \A k, m \in 1..N : q[k] = q[m] => k = m
    BY <1>1, <1>11 DEF Distinct
  <2>4. CASE j < p
    <3>1. i < p /\ i \in 1..N /\ j \in 1..N
      BY <1>3, <2>1, <2>4
    <3> QED
      BY <1>4, <2>1, <2>3, <2>4, <3>1
  <2>5. CASE j = p
    <3>1. i < p /\ i \in 1..N
      BY <1>3, <2>1, <2>5
    <3> QED
      BY <1>4, <2>1, <2>2, <2>5, <3>1
  <2>6. CASE j > p
    <3>1. j - 1 \in 1..N /\ ~ (j < p) /\ j # p
      BY <1>3, <2>6
    <3>2. l[j] = q[j - 1]
      BY <1>4, <3>1
    <3>3. CASE i < p
      <4>1. i \in 1..N /\ i # j - 1 /\ l[i] = q[i]
        BY <1>3, <1>4, <2>6, <3>3
      <4> QED
        BY <2>1, <2>3, <3>1, <3>2, <4>1
    <3>4. CASE i = p
      BY <1>4, <2>1, <2>2, <3>1, <3>2, <3>4
    <3>5. CASE i > p
      <4>1. i - 1 \in 1..N /\ ~ (i < p) /\ i # p /\ i - 1 # j - 1
        BY <1>3, <2>1, <3>5
      <4>2. l[i] = q[i - 1]
        BY <1>4, <4>1
      <4> QED
        BY <2>1, <2>3, <3>1, <3>2, <4>1, <4>2
    <3> QED
      BY <1>3, <3>3, <3>4, <3>5
  <2> QED
    BY <1>3, <2>4, <2>5, <2>6
<1> QED
  BY <1>2, <1>10, <1>11

\* A step of the sort, and the sorted first n elements.
InsertNext(before, sorted, x) == Let(<<sorted, x>>, LAMBDA pair : Inserted(pair[1], pair[2], before))
Inserts(f, before, list, n) ==
  f = [k \in 0..n |-> IF k = 0 THEN <<>> ELSE InsertNext(before, f[k - 1], list[k])]

\* There are such sequences, and the last is the sorted one.
LEMMA SortedInserts ==
  ASSUME NEW before, NEW list, Len(list) \in Nat
  PROVE  \E f : Inserts(f, before, list, Len(list)) /\ Sorted(list, before) = f[Len(list)]
<1> DEFINE T == {n \in 0..Len(list) : \E g : Inserts(g, before, list, n)}
<1>1. 0 \in T
  <2>1. Inserts([k \in 0..0 |-> <<>>], before, list, 0)
    BY DEF Inserts
  <2> QED
    BY <2>1
<1>2. ASSUME NEW n \in 0..(Len(list) - 1), n \in T
      PROVE  n + 1 \in T
  <2>1. PICK g : Inserts(g, before, list, n)
    BY <1>2
  <2>2. PICK h : h = [k \in 0..(n + 1) |->
                        IF k = n + 1 THEN InsertNext(before, g[n], list[n + 1]) ELSE g[k]]
    OBVIOUS
  <2>3. Inserts(h, before, list, n + 1)
    <3>1. \A k \in 0..(n + 1) : k = n + 1 \/ k \in 0..n
      OBVIOUS
    <3>2. \A k \in 0..n : k # n + 1 /\ k \in 0..(n + 1) /\ (k # 0 => k - 1 \in 0..n)
      OBVIOUS
    <3>3. \A k \in 0..n : h[k] = g[k]
      BY <2>2, <3>2
    <3>4. ASSUME NEW k \in 0..n
          PROVE  h[k] = IF k = 0 THEN <<>> ELSE InsertNext(before, h[k - 1], list[k])
      BY <2>1, <3>2, <3>3 DEF Inserts
    <3>5. h[n + 1] = InsertNext(before, h[n], list[n + 1]) /\ n + 1 # 0 /\ (n + 1) - 1 = n
      BY <2>2, <3>2, <3>3
    <3>6. \A k \in 0..(n + 1) :
            h[k] = IF k = 0 THEN <<>> ELSE InsertNext(before, h[k - 1], list[k])
      BY <3>1, <3>4, <3>5
    <3> QED
      BY <2>2, <3>6 DEF Inserts
  <2>4. n + 1 \in 0..Len(list)
    OBVIOUS
  <2> QED
    BY <2>3, <2>4
<1>3. Len(list) \in T
  <2> HIDE DEF T
  <2>1. 0..Len(list) \subseteq T
    BY <1>1, <1>2, Induction
  <2> QED
    BY <2>1
<1>4. \E f : Inserts(f, before, list, Len(list))
  BY <1>3
<1>5. Sorted(list, before) = (CHOOSE f : Inserts(f, before, list, Len(list)))[Len(list)]
  BY DEF Inserts, Sorted, Fold, InsertNext
<1> QED
  BY <1>4, <1>5

\* The next element goes somewhere into those that are sorted.
LEMMA InsertedSomewhere ==
  ASSUME NEW S, NEW sorted \in Seq(S), NEW x, NEW before
  PROVE  \E p \in 1..(Len(sorted) + 1) : InsertNext(before, sorted, x) = InsertAt(sorted, p, x)
<1>1. PICK U : U = {k \in DOMAIN sorted : <<x, sorted[k]>> \notin before}
  OBVIOUS
<1>2. InsertNext(before, sorted, x) = InsertAt(sorted, Cardinality(U) + 1, x)
  <2>1. InsertNext(before, sorted, x) = Inserted(sorted, x, before)
    BY DEF InsertNext, Let, Only
  <2> QED
    BY <1>1, <2>1 DEF Inserted
<1>3. Len(sorted) \in Nat /\ DOMAIN sorted = 1..Len(sorted)
  OBVIOUS
<1>4. IsFiniteSet(1..Len(sorted)) /\ Cardinality(1..Len(sorted)) = Len(sorted)
  <2>1. 1 \in Int /\ Len(sorted) \in Int
    BY <1>3
  <2>2. /\ IsFiniteSet(1..Len(sorted))
        /\ Cardinality(1..Len(sorted)) = IF 1 > Len(sorted) THEN 0 ELSE Len(sorted) - 1 + 1
    BY <2>1, FS_Interval
  <2> QED
    BY <1>3, <2>2
<1>5. IsFiniteSet(U) /\ Cardinality(U) <= Len(sorted)
  <2>1. U \subseteq 1..Len(sorted)
    BY <1>1, <1>3
  <2> QED
    BY <1>4, <2>1, FS_Subset
<1>6. Cardinality(U) \in Nat
  BY <1>5, FS_CardinalityType
<1>7. Cardinality(U) + 1 \in 1..(Len(sorted) + 1)
  BY <1>3, <1>5, <1>6
<1> QED
  BY <1>2, <1>7

\* b has the elements of a in another order.
SameElements(a, b) ==
  /\ Len(b) = Len(a) /\ ToSet(b) = ToSet(a)
  /\ Distinct(a) => Distinct(b)

\* A sorted sequence has the elements that it had, and each as often.
LEMMA SortedSame ==
  ASSUME NEW S, NEW list \in Seq(S), NEW before
  PROVE  Sorted(list, before) \in Seq(S) /\ SameElements(list, Sorted(list, before))
<1>1. PICK N : N = Len(list)
  OBVIOUS
<1>2. N \in Nat /\ N \in 0..N /\ DOMAIN list = 1..N
  BY <1>1
<1>3. PICK f : Inserts(f, before, list, N) /\ Sorted(list, before) = f[N]
  BY <1>1, <1>2, SortedInserts
<1> DEFINE I(n) == /\ f[n] \in Seq(S) /\ Len(f[n]) = n
                   /\ ToSet(f[n]) = {list[i] : i \in 1..n}
                   /\ Distinct(list) => Distinct(f[n])
           T == {n \in 0..N : I(n)}
<1>4. 0 \in T
  <2>1. f[0] = <<>>
    BY <1>2, <1>3 DEF Inserts
  <2>2. <<>> \in Seq(S) /\ Len(<<>>) = 0 /\ Distinct(<<>>)
    BY DEF Distinct
  <2>3. ToSet(<<>>) = {} /\ {list[i] : i \in 1..0} = {}
    BY DEF ToSet
  <2>4. I(0)
    BY <2>1, <2>2, <2>3
  <2> QED
    BY <1>2, <2>4
<1>5. ASSUME NEW n \in 0..(N - 1), n \in T
      PROVE  n + 1 \in T
  <2>1. n \in Nat /\ n + 1 \in 0..N /\ n + 1 \in 1..N /\ n + 1 # 0 /\ (n + 1) - 1 = n
    BY <1>2
  <2>2. f[n + 1] = InsertNext(before, f[n], list[n + 1])
    BY <1>3, <2>1 DEF Inserts
  <2>3. f[n] \in Seq(S) /\ Len(f[n]) = n /\ ToSet(f[n]) = {list[i] : i \in 1..n}
    BY <1>5
  <2>4. PICK x \in S : x = list[n + 1]
    BY <1>1, <2>1
  <2>5. PICK p \in 1..(Len(f[n]) + 1) : f[n + 1] = InsertAt(f[n], p, x)
    BY <2>2, <2>3, <2>4, InsertedSomewhere
  <2>6. f[n + 1] \in Seq(S) /\ Len(f[n + 1]) = n + 1
    BY <2>3, <2>5, InsertedAt DEF WithOneMore
  <2>7. ToSet(f[n + 1]) = ToSet(f[n]) \cup {x}
    BY <2>3, <2>5, InsertedKeeps
  <2>8. 1..(n + 1) = (1..n) \cup {n + 1}
    BY <2>1
  <2>9. ToSet(f[n + 1]) = {list[i] : i \in 1..(n + 1)}
    BY <2>3, <2>4, <2>7, <2>8
  <2>10. ASSUME Distinct(list)
         PROVE  Distinct(f[n + 1])
    <3>1. Distinct(f[n])
      BY <1>5, <2>10
    <3>2. \A i \in 1..n : i \in 1..N /\ i # n + 1
      BY <1>2, <2>1
    <3>3. x \notin ToSet(f[n])
      BY <1>1, <2>1, <2>3, <2>4, <2>10, <3>2 DEF Distinct
    <3> QED
      BY <2>3, <2>5, <3>1, <3>3, InsertedKeeps
  <2> QED
    BY <2>1, <2>6, <2>9, <2>10
<1> HIDE DEF T
<1>6. 0..N \subseteq T
  BY <1>2, <1>4, <1>5, Induction
<1>7. I(N)
  BY <1>2, <1>6 DEF T
<1>8. ToSet(list) = {list[i] : i \in 1..N}
  BY <1>2 DEF ToSet
<1> QED
  BY <1>1, <1>3, <1>7, <1>8 DEF SameElements

\* A group that is sorted has the size that it had.
LEMMA SortedSize ==
  ASSUME NEW library, IsLibrary(library), NEW list \in Seq(DOMAIN library.shaders), NEW before
  PROVE  SizeOf(library, Sorted(list, before)) = SizeOf(library, list)
<1>1. PICK D : D = DOMAIN library.shaders
  OBVIOUS
<1>2. PICK N : N = Len(list)
  OBVIOUS
<1>3. N \in Nat /\ N \in 0..N /\ list \in Seq(D)
  BY <1>1, <1>2
<1>4. PICK f : Inserts(f, before, list, N) /\ Sorted(list, before) = f[N]
  BY <1>2, <1>3, SortedInserts
<1> DEFINE I(n) == /\ f[n] \in Seq(D)
                   /\ SizeOf(library, f[n]) = SizeOf(library, SubSeq(list, 1, n))
           T == {n \in 0..N : I(n)}
<1>5. 0 \in T
  <2>1. f[0] = <<>>
    BY <1>3, <1>4 DEF Inserts
  <2>2. <<>> \in Seq(D) /\ SubSeq(list, 1, 0) = <<>>
    BY <1>3
  <2>3. I(0)
    BY <2>1, <2>2
  <2> QED
    BY <1>3, <2>3
<1>6. ASSUME NEW n \in 0..(N - 1), n \in T
      PROVE  n + 1 \in T
  <2>1. n \in Nat /\ n + 1 \in 0..N /\ n + 1 \in 1..N /\ n + 1 # 0 /\ (n + 1) - 1 = n
        /\ n \in 0..N /\ n < N
    BY <1>3
  <2>2. f[n + 1] = InsertNext(before, f[n], list[n + 1])
    BY <1>4, <2>1 DEF Inserts
  <2>3. f[n] \in Seq(D) /\ SizeOf(library, f[n]) = SizeOf(library, SubSeq(list, 1, n))
    BY <1>6
  <2>4. PICK x \in D : x = list[n + 1]
    BY <1>2, <1>3, <2>1
  <2>5. PICK p \in 1..(Len(f[n]) + 1) : f[n + 1] = InsertAt(f[n], p, x)
    BY <2>2, <2>3, <2>4, InsertedSomewhere
  <2>6. f[n + 1] \in Seq(D)
    BY <2>3, <2>5, InsertedAt
  <2>7. SizeOf(library, f[n + 1]) = SizeOf(library, f[n]) + library.shaders[x].full
    BY <1>1, <2>3, <2>5, SizeInserted
  <2>8. SizeOf(library, SubSeq(list, 1, n + 1))
          = SizeOf(library, SubSeq(list, 1, n)) + library.shaders[list[n + 1]].full
    BY <1>2, <2>1, SizeOfPrefix
  <2> QED
    BY <2>1, <2>3, <2>4, <2>6, <2>7, <2>8
<1> HIDE DEF T
<1>7. 0..N \subseteq T
  BY <1>3, <1>5, <1>6, Induction
<1>8. I(N)
  BY <1>3, <1>7 DEF T
<1>9. SubSeq(list, 1, N) = list
  BY <1>2, <1>3
<1> QED
  BY <1>4, <1>8, <1>9

\* A sequence of sets of values, one longer or with one element more.
LEMMA SeqTypes ==
  ASSUME NEW D, NEW q \in Seq(D)
  PROVE  /\ Len(q) \in Nat /\ DOMAIN q = 1..Len(q) /\ ToSet(q) = {q[k] : k \in 1..Len(q)}
         /\ ToSet(q) \subseteq D
  BY DEF ToSet

\* The chosen elements are those of the set, each as often as in the list.
LEMMA ChosenSame ==
  ASSUME NEW S, NEW list \in Seq(S), NEW set
  PROVE  /\ Chosen(list, set) \in Seq(S)
         /\ ToSet(Chosen(list, set)) = ToSet(list) \cap set
         /\ Distinct(list) => Distinct(Chosen(list, set))
<1>1. PICK N : N = Len(list)
  OBVIOUS
<1>2. /\ N \in Nat /\ DOMAIN list = 1..N /\ (\A k \in 1..N : list[k] \in S)
      /\ ToSet(list) = {list[k] : k \in 1..N}
  BY <1>1 DEF ToSet
<1>3. PICK seqs : seqs = [k \in 1..N |-> IF list[k] \in set THEN <<list[k]>> ELSE <<>>]
  OBVIOUS
<1>4. PICK F : F = Chosen(list, set)
  OBVIOUS
<1>5. F = FlattenSeq(seqs)
  BY <1>2, <1>3, <1>4 DEF Chosen
<1>6. seqs \in Seq(Seq(S)) /\ Len(seqs) = N
  <2>1. PICK R : R = Seq(S)
    OBVIOUS
  <2>2. \A k \in 1..N : <<list[k]>> \in R /\ <<>> \in R
    BY <1>2, <2>1
  <2>3. seqs \in [1..N -> R]
    BY <1>3, <2>2
  <2> QED
    BY <1>2, <2>1, <2>3
<1>7. \A k \in 1..N : \A i \in 1..Len(seqs[k]) :
        i = 1 /\ list[k] \in set /\ seqs[k][i] = list[k]
  <2>1. TAKE k \in 1..N
  <2>2. TAKE i \in 1..Len(seqs[k])
  <2>3. list[k] \in set
    <3>1. list[k] \notin set => Len(seqs[k]) = 0
      BY <1>3
    <3> QED
      BY <3>1
  <2>4. seqs[k] = <<list[k]>>
    BY <1>3, <2>3
  <2>5. Len(seqs[k]) = 1
    BY <2>4
  <2>6. i = 1
    BY <2>5
  <2> QED
    BY <2>3, <2>4, <2>6
<1>8. \A k \in 1..N : list[k] \in set => 1 \in 1..Len(seqs[k])
  BY <1>3
<1>9. F \in Seq(S)
  BY <1>5, <1>6, FlattenPlaces
<1>10. PICK off : Places(seqs, off)
  BY <1>6, FlattenPlaces
<1>11. /\ \A k \in 1..N : \A i \in 1..Len(seqs[k]) :
            off[k] + i \in 1..Len(F) /\ F[off[k] + i] = seqs[k][i]
       /\ \A p \in 1..Len(F) : \E k \in 1..N : \E i \in 1..Len(seqs[k]) : p = off[k] + i
       /\ \A k, l \in 1..N : \A i \in 1..Len(seqs[k]), j \in 1..Len(seqs[l]) :
            off[k] + i = off[l] + j => k = l /\ i = j
  BY <1>5, <1>6, <1>10 DEF Places
<1>12. Len(F) \in Nat /\ DOMAIN F = 1..Len(F) /\ ToSet(F) = {F[p] : p \in 1..Len(F)}
  BY <1>9, SeqTypes
<1>13. ASSUME NEW p \in 1..Len(F)
       PROVE  \E k \in 1..N : p = off[k] + 1 /\ list[k] \in set /\ F[p] = list[k]
  <2>1. PICK k \in 1..N : \E i \in 1..Len(seqs[k]) : p = off[k] + i
    BY <1>11
  <2>2. PICK i \in 1..Len(seqs[k]) : p = off[k] + i
    BY <2>1
  <2>3. i = 1 /\ list[k] \in set /\ seqs[k][i] = list[k]
    BY <1>7
  <2>4. F[off[k] + i] = seqs[k][i]
    BY <1>11
  <2> QED
    BY <2>2, <2>3, <2>4
<1>14. ToSet(F) = ToSet(list) \cap set
  <2>1. \A x \in ToSet(F) : x \in ToSet(list) \cap set
    BY <1>2, <1>12, <1>13
  <2>2. ASSUME NEW x \in ToSet(list) \cap set
        PROVE  x \in ToSet(F)
    <3>1. PICK k \in 1..N : list[k] = x
      BY <1>2
    <3>2. 1 \in 1..Len(seqs[k])
      BY <1>8, <3>1
    <3>3. off[k] + 1 \in 1..Len(F) /\ F[off[k] + 1] = seqs[k][1] /\ seqs[k][1] = list[k]
      BY <1>7, <1>11, <3>2
    <3> QED
      BY <1>12, <3>1, <3>3
  <2> QED
    BY <2>1, <2>2
<1>15. ASSUME Distinct(list)
       PROVE  Distinct(F)
  <2>1. \A k, l \in 1..N : list[k] = list[l] => k = l
    BY <1>1, <1>15 DEF Distinct
  <2>2. ASSUME NEW p \in 1..Len(F), NEW q \in 1..Len(F), F[p] = F[q]
        PROVE  p = q
    <3>1. PICK k \in 1..N : p = off[k] + 1 /\ F[p] = list[k]
      BY <1>13
    <3>2. PICK l \in 1..N : q = off[l] + 1 /\ F[q] = list[l]
      BY <1>13
    <3>3. k = l
      BY <2>1, <2>2, <3>1, <3>2
    <3> QED
      BY <3>1, <3>2, <3>3
  <2> QED
    BY <2>2 DEF Distinct
<1> QED
  BY <1>4, <1>9, <1>14, <1>15

-----------------------------------------------------------------------------
(* Groups that have every shader once.                                     *)

\* Groups of elements of D that have those of S, and each in one place.
Splits(gs, D, S) ==
  /\ gs \in Seq(Seq(D))
  /\ \A g \in 1..Len(gs) : Distinct(gs[g]) /\ ToSet(gs[g]) \subseteq S
  /\ \A g, h \in 1..Len(gs) : \A s \in S : s \in ToSet(gs[g]) /\ s \in ToSet(gs[h]) => g = h
  /\ \A s \in S : \E g \in 1..Len(gs) : s \in ToSet(gs[g])

NoneEmpty(gs) == \A g \in 1..Len(gs) : gs[g] # <<>>

\* Groups of what a group is split into, for every group, and all of them.
SplitsEach(ops, gs, D) ==
  /\ ops \in Seq(Seq(Seq(D))) /\ Len(ops) = Len(gs)
  /\ \A g \in 1..Len(gs) : Splits(ops[g], D, ToSet(gs[g]))
PartsOf(F, gs, ops) ==
  \A p \in 1..Len(F) : \E g \in 1..Len(gs) : \E j \in 1..Len(ops[g]) : F[p] = ops[g][j]

\* Groups that are each split further.
LEMMA EachSplits ==
  ASSUME NEW D, NEW S, NEW gs, Splits(gs, D, S), NEW ops, SplitsEach(ops, gs, D)
  PROVE  Splits(FlattenSeq(ops), D, S) /\ PartsOf(FlattenSeq(ops), gs, ops)
<1>1. PICK R : R = Seq(D)
  OBVIOUS
<1>2. PICK N : N = Len(gs)
  OBVIOUS
<1>3. gs \in Seq(R) /\ N \in Nat /\ ops \in Seq(Seq(R)) /\ Len(ops) = N
  BY <1>1, <1>2 DEF Splits, SplitsEach
<1>4. PICK F : F = FlattenSeq(ops)
  OBVIOUS
<1>5. F \in Seq(R)
  BY <1>3, <1>4, FlattenPlaces
<1>6. PICK off : Places(ops, off)
  BY <1>3, FlattenPlaces
<1>7. /\ \A g \in 1..N : \A i \in 1..Len(ops[g]) :
            off[g] + i \in 1..Len(F) /\ F[off[g] + i] = ops[g][i]
      /\ \A p \in 1..Len(F) : \E g \in 1..N : \E i \in 1..Len(ops[g]) : p = off[g] + i
  BY <1>3, <1>4, <1>6 DEF Places
<1>8. ASSUME NEW p \in 1..Len(F)
      PROVE  \E g \in 1..N : \E i \in 1..Len(ops[g]) : p = off[g] + i /\ F[p] = ops[g][i]
  <2>1. PICK g \in 1..N : \E i \in 1..Len(ops[g]) : p = off[g] + i
    BY <1>7
  <2>2. PICK i \in 1..Len(ops[g]) : p = off[g] + i
    BY <2>1
  <2> QED
    BY <1>7, <2>2
<1>9. \A g \in 1..N : Splits(ops[g], D, ToSet(gs[g]))
  BY <1>2 DEF SplitsEach
<1>10. \A g \in 1..N : \A i \in 1..Len(ops[g]) :
         Distinct(ops[g][i]) /\ ToSet(ops[g][i]) \subseteq ToSet(gs[g])
  BY <1>9 DEF Splits
<1>11. \A g \in 1..N : ToSet(gs[g]) \subseteq S
  BY <1>2 DEF Splits
<1>12. \A p \in 1..Len(F) : Distinct(F[p]) /\ ToSet(F[p]) \subseteq S
  <2>1. TAKE p \in 1..Len(F)
  <2>2. PICK g \in 1..N : \E i \in 1..Len(ops[g]) : p = off[g] + i /\ F[p] = ops[g][i]
    BY <1>8
  <2>3. PICK i \in 1..Len(ops[g]) : F[p] = ops[g][i]
    BY <2>2
  <2>4. Distinct(ops[g][i]) /\ ToSet(ops[g][i]) \subseteq ToSet(gs[g])
    BY <1>10
  <2>5. ToSet(gs[g]) \subseteq S
    BY <1>11
  <2> QED
    BY <2>3, <2>4, <2>5
<1>13. ASSUME NEW p \in 1..Len(F), NEW q \in 1..Len(F), NEW s \in S,
              s \in ToSet(F[p]), s \in ToSet(F[q])
       PROVE  p = q
  <2>1. PICK g \in 1..N : \E i \in 1..Len(ops[g]) : p = off[g] + i /\ F[p] = ops[g][i]
    BY <1>8
  <2>2. PICK i \in 1..Len(ops[g]) : p = off[g] + i /\ F[p] = ops[g][i]
    BY <2>1
  <2>3. PICK h \in 1..N : \E j \in 1..Len(ops[h]) : q = off[h] + j /\ F[q] = ops[h][j]
    BY <1>8
  <2>4. PICK j \in 1..Len(ops[h]) : q = off[h] + j /\ F[q] = ops[h][j]
    BY <2>3
  <2>5. s \in ToSet(gs[g]) /\ s \in ToSet(gs[h])
    BY <1>10, <1>13, <2>2, <2>4
  <2>6. g = h
    BY <1>2, <2>5 DEF Splits
  <2>7. i \in 1..Len(ops[g]) /\ j \in 1..Len(ops[g]) /\ s \in ToSet(ops[g][i]) /\ s \in ToSet(ops[g][j])
    BY <1>13, <2>2, <2>4, <2>6
  <2>8. Splits(ops[g], D, ToSet(gs[g]))
    BY <1>9
  <2>9. i = j
    BY <2>5, <2>7, <2>8 DEF Splits
  <2> QED
    BY <2>2, <2>4, <2>6, <2>9
<1>14. ASSUME NEW s \in S
       PROVE  \E p \in 1..Len(F) : s \in ToSet(F[p])
  <2>1. PICK g \in 1..N : s \in ToSet(gs[g])
    BY <1>2 DEF Splits
  <2>2. Splits(ops[g], D, ToSet(gs[g]))
    BY <1>9
  <2>3. PICK i \in 1..Len(ops[g]) : s \in ToSet(ops[g][i])
    BY <2>1, <2>2 DEF Splits
  <2>4. off[g] + i \in 1..Len(F) /\ F[off[g] + i] = ops[g][i]
    BY <1>7
  <2> QED
    BY <2>3, <2>4
<1>15. Splits(F, D, S)
  BY <1>1, <1>5, <1>12, <1>13, <1>14 DEF Splits
<1>16. \A p \in 1..Len(F) : \E g \in 1..N : \E j \in 1..Len(ops[g]) : F[p] = ops[g][j]
  <2>1. TAKE p \in 1..Len(F)
  <2>2. PICK g \in 1..N : \E i \in 1..Len(ops[g]) : p = off[g] + i /\ F[p] = ops[g][i]
    BY <1>8
  <2> QED
    BY <2>2
<1> QED
  BY <1>2, <1>4, <1>15, <1>16 DEF PartsOf

\* A group of one shader.
LEMMA OneShader ==
  ASSUME NEW D, NEW s \in D
  PROVE  <<s>> \in Seq(D) /\ ToSet(<<s>>) = {s} /\ Distinct(<<s>>)
<1>1. <<s>> \in Seq(D) /\ Len(<<s>>) = 1 /\ <<s>>[1] = s
  OBVIOUS
<1>2. \A k \in 1..1 : k = 1
  OBVIOUS
<1>3. ToSet(<<s>>) = {<<s>>[k] : k \in 1..1}
  BY <1>1, SeqTypes
<1>4. 1 \in 1..1
  OBVIOUS
<1> QED
  BY <1>1, <1>2, <1>3, <1>4 DEF Distinct

\* A group with one more shader.
LEMMA OneMore ==
  ASSUME NEW D, NEW group \in Seq(D), NEW s \in D
  PROVE  /\ Append(group, s) \in Seq(D) /\ Append(group, s) # <<>>
         /\ ToSet(Append(group, s)) = ToSet(group) \cup {s}
         /\ Distinct(group) /\ s \notin ToSet(group) => Distinct(Append(group, s))
         /\ Append(group, s) = InsertAt(group, Len(group) + 1, s)
<1>1. PICK l : l = Append(group, s)
  OBVIOUS
<1>2. PICK N : N = Len(group)
  OBVIOUS
<1>3. /\ N \in Nat /\ l \in Seq(D) /\ Len(l) = N + 1 /\ l[N + 1] = s
      /\ \A k \in 1..N : l[k] = group[k]
  BY <1>1, <1>2
<1>4. PICK m : m = InsertAt(group, N + 1, s)
  OBVIOUS
<1>5. N + 1 \in 1..(Len(group) + 1)
  BY <1>2, <1>3
<1>6. m \in Seq(D) /\ WithOneMore(m, group, N + 1, s)
  BY <1>4, <1>5, InsertedAt
<1>7. Len(m) = N + 1 /\ m[N + 1] = s /\ \A k \in 1..N : m[k] = group[k]
  <2>1. \A k \in 1..N : k < N + 1 /\ k \in 1..(N + 1)
    BY <1>3
  <2>2. N + 1 \in 1..(N + 1) /\ ~ (N + 1 < N + 1)
    BY <1>3
  <2> QED
    BY <1>2, <1>6, <2>1, <2>2 DEF WithOneMore
<1>8. l = m
  <2>1. \A k \in 1..(N + 1) : k = N + 1 \/ k \in 1..N
    BY <1>3
  <2>2. l = [k \in 1..(N + 1) |-> l[k]] /\ m = [k \in 1..(N + 1) |-> m[k]]
    BY <1>3, <1>6, <1>7
  <2>3. \A k \in 1..(N + 1) : l[k] = m[k]
    BY <1>3, <1>7, <2>1
  <2>4. [k \in 1..(N + 1) |-> l[k]] = [k \in 1..(N + 1) |-> m[k]]
    BY <2>3
  <2> QED
    BY <2>2, <2>4
<1>9. /\ ToSet(m) = ToSet(group) \cup {s}
      /\ Distinct(group) /\ s \notin ToSet(group) => Distinct(m)
  BY <1>4, <1>5, InsertedKeeps
<1>10. l # <<>>
  BY <1>3
<1> QED
  BY <1>1, <1>2, <1>3, <1>4, <1>8, <1>9, <1>10

\* hs is gs with s behind the group g.
IntoGroup(hs, gs, g, s) ==
  /\ Len(hs) = Len(gs) /\ hs[g] = Append(gs[g], s)
  /\ \A h \in 1..Len(gs) : h # g => hs[h] = gs[h]

\* A new shader comes to one of the groups.
LEMMA SplitsIntoGroup ==
  ASSUME NEW D, NEW S, NEW gs, Splits(gs, D, S), NEW s \in D, s \notin S, NEW g \in 1..Len(gs)
  PROVE  /\ Splits([gs EXCEPT ![g] = Append(@, s)], D, S \cup {s})
         /\ IntoGroup([gs EXCEPT ![g] = Append(@, s)], gs, g, s)
<1>1. PICK R : R = Seq(D)
  OBVIOUS
<1>2. PICK N : N = Len(gs)
  OBVIOUS
<1>3. gs \in Seq(R) /\ N \in Nat /\ DOMAIN gs = 1..N /\ g \in 1..N /\ gs[g] \in R
  BY <1>1, <1>2 DEF Splits
<1>4. PICK hs : hs = [gs EXCEPT ![g] = Append(@, s)]
  OBVIOUS
<1>5. PICK l : l = Append(gs[g], s)
  OBVIOUS
<1>6. gs[g] \in Seq(D) /\ Distinct(gs[g]) /\ s \notin ToSet(gs[g])
  BY <1>1, <1>2, <1>3 DEF Splits
<1>7. l \in R /\ ToSet(l) = ToSet(gs[g]) \cup {s} /\ Distinct(l)
  BY <1>1, <1>5, <1>6, OneMore
<1>8. hs[g] = l /\ (\A h \in 1..N : h # g => hs[h] = gs[h]) /\ DOMAIN hs = 1..N
  BY <1>3, <1>4, <1>5
<1>9. hs \in Seq(R) /\ Len(hs) = N
  <2>1. hs \in [1..N -> R]
    BY <1>3, <1>4, <1>5, <1>7
  <2> QED
    BY <1>3, <2>1
<1>10. \A h \in 1..N : /\ Distinct(hs[h]) /\ ToSet(hs[h]) \subseteq S \cup {s}
                       /\ ToSet(gs[h]) \subseteq ToSet(hs[h])
                       /\ ToSet(gs[h]) \subseteq S
                       /\ \A t \in S : t \in ToSet(hs[h]) => t \in ToSet(gs[h])
                       /\ s \in ToSet(hs[h]) => h = g
  <2>1. TAKE h \in 1..N
  <2>2. Distinct(gs[h]) /\ ToSet(gs[h]) \subseteq S /\ ToSet(gs[g]) \subseteq S
    BY <1>2, <1>3 DEF Splits
  <2>3. CASE h = g
    BY <1>7, <1>8, <2>2, <2>3
  <2>4. CASE h # g
    BY <1>8, <2>2, <2>4
  <2> QED
    BY <2>3, <2>4
<1>11. \A h, i \in 1..N : \A t \in S : t \in ToSet(gs[h]) /\ t \in ToSet(gs[i]) => h = i
  BY <1>2 DEF Splits
<1>12. \A h, i \in 1..N : \A t \in S \cup {s} : t \in ToSet(hs[h]) /\ t \in ToSet(hs[i]) => h = i
  BY <1>10, <1>11
<1>13. \A t \in S \cup {s} : \E h \in 1..N : t \in ToSet(hs[h])
  <2>1. s \in ToSet(hs[g])
    BY <1>7, <1>8
  <2>2. \A t \in S : \E h \in 1..N : t \in ToSet(gs[h])
    BY <1>2 DEF Splits
  <2> QED
    BY <1>3, <1>10, <2>1, <2>2
<1>14. Splits(hs, D, S \cup {s})
  BY <1>1, <1>9, <1>10, <1>12, <1>13 DEF Splits
<1> QED
  BY <1>2, <1>4, <1>5, <1>8, <1>9, <1>14 DEF IntoGroup

\* A new shader is a group of its own.
LEMMA SplitsOff ==
  ASSUME NEW D, NEW S, NEW gs, Splits(gs, D, S), NEW s \in D, s \notin S
  PROVE  /\ Splits(Append(gs, <<s>>), D, S \cup {s})
         /\ Len(Append(gs, <<s>>)) = Len(gs) + 1
         /\ Append(gs, <<s>>)[Len(gs) + 1] = <<s>>
         /\ \A h \in 1..Len(gs) : Append(gs, <<s>>)[h] = gs[h]
<1>1. PICK R : R = Seq(D)
  OBVIOUS
<1>2. PICK N : N = Len(gs)
  OBVIOUS
<1>3. PICK l : l = <<s>>
  OBVIOUS
<1>4. gs \in Seq(R) /\ N \in Nat /\ l \in R /\ ToSet(l) = {s} /\ Distinct(l)
  BY <1>1, <1>2, <1>3, OneShader DEF Splits
<1>5. PICK hs : hs = Append(gs, l)
  OBVIOUS
<1>6. hs \in Seq(R) /\ Len(hs) = N + 1 /\ hs[N + 1] = l /\ \A h \in 1..N : hs[h] = gs[h]
  BY <1>2, <1>4, <1>5
<1>7. \A h \in 1..(N + 1) : h = N + 1 \/ (h # N + 1 /\ h \in 1..N)
  BY <1>4
<1>8. \A h \in 1..N : /\ Distinct(gs[h]) /\ ToSet(gs[h]) \subseteq S
                      /\ \A t \in S : \A i \in 1..N :
                           t \in ToSet(gs[h]) /\ t \in ToSet(gs[i]) => h = i
  BY <1>2 DEF Splits
<1>9. \A h \in 1..(N + 1) : Distinct(hs[h]) /\ ToSet(hs[h]) \subseteq S \cup {s}
  BY <1>4, <1>6, <1>7, <1>8
<1>10. ASSUME NEW h \in 1..(N + 1), NEW i \in 1..(N + 1), NEW t \in S \cup {s},
              t \in ToSet(hs[h]), t \in ToSet(hs[i])
       PROVE  h = i
  <2>1. CASE t = s
    <3>1. \A j \in 1..N : s \notin ToSet(hs[j])
      BY <1>6, <1>8
    <3> QED
      BY <1>7, <1>10, <2>1, <3>1
  <2>2. CASE t # s
    <3>1. t \in S /\ t \notin ToSet(hs[N + 1])
      BY <1>4, <1>6, <2>2
    <3> QED
      BY <1>6, <1>7, <1>8, <1>10, <3>1
  <2> QED
    BY <2>1, <2>2
<1>11. \A t \in S \cup {s} : \E h \in 1..(N + 1) : t \in ToSet(hs[h])
  <2>1. N + 1 \in 1..(N + 1) /\ \A h \in 1..N : h \in 1..(N + 1)
    BY <1>4
  <2>2. \A t \in S : \E h \in 1..N : t \in ToSet(gs[h])
    BY <1>2 DEF Splits
  <2>3. s \in ToSet(hs[N + 1])
    BY <1>4, <1>6
  <2> QED
    BY <1>6, <2>1, <2>2, <2>3
<1>12. Splits(hs, D, S \cup {s})
  BY <1>1, <1>6, <1>9, <1>10, <1>11 DEF Splits
<1> QED
  BY <1>2, <1>3, <1>5, <1>6, <1>12

-----------------------------------------------------------------------------
(* Runs of shaders of the same maps.                                       *)

\* A step, and the runs of the first n shaders.
AddToStreaks(mapsOf, groups, s) ==
  Let(<<groups, s>>, LAMBDA pair : WithShader(mapsOf, pair[1], pair[2]))
Runs(f, list, mapsOf, n) ==
  f = [k \in 0..n |-> IF k = 0 THEN <<>> ELSE AddToStreaks(mapsOf, f[k - 1], list[k])]

\* There are such runs, and the last are the streaks.
LEMMA StreakRuns ==
  ASSUME NEW list, NEW mapsOf, Len(list) \in Nat
  PROVE  \E f : Runs(f, list, mapsOf, Len(list)) /\ StreaksOf(list, mapsOf) = f[Len(list)]
<1> DEFINE T == {n \in 0..Len(list) : \E g : Runs(g, list, mapsOf, n)}
<1>1. 0 \in T
  <2>1. Runs([k \in 0..0 |-> <<>>], list, mapsOf, 0)
    BY DEF Runs
  <2> QED
    BY <2>1
<1>2. ASSUME NEW n \in 0..(Len(list) - 1), n \in T
      PROVE  n + 1 \in T
  <2>1. PICK g : Runs(g, list, mapsOf, n)
    BY <1>2
  <2>2. PICK h : h = [k \in 0..(n + 1) |->
                        IF k = n + 1 THEN AddToStreaks(mapsOf, g[n], list[n + 1]) ELSE g[k]]
    OBVIOUS
  <2>3. Runs(h, list, mapsOf, n + 1)
    <3>1. \A k \in 0..(n + 1) : k = n + 1 \/ k \in 0..n
      OBVIOUS
    <3>2. \A k \in 0..n : k # n + 1 /\ k \in 0..(n + 1) /\ (k # 0 => k - 1 \in 0..n)
      OBVIOUS
    <3>3. \A k \in 0..n : h[k] = g[k]
      BY <2>2, <3>2
    <3>4. ASSUME NEW k \in 0..n
          PROVE  h[k] = IF k = 0 THEN <<>> ELSE AddToStreaks(mapsOf, h[k - 1], list[k])
      BY <2>1, <3>2, <3>3 DEF Runs
    <3>5. h[n + 1] = AddToStreaks(mapsOf, h[n], list[n + 1]) /\ n + 1 # 0 /\ (n + 1) - 1 = n
      BY <2>2, <3>2, <3>3
    <3>6. \A k \in 0..(n + 1) :
            h[k] = IF k = 0 THEN <<>> ELSE AddToStreaks(mapsOf, h[k - 1], list[k])
      BY <3>1, <3>4, <3>5
    <3> QED
      BY <2>2, <3>6 DEF Runs
  <2>4. n + 1 \in 0..Len(list)
    OBVIOUS
  <2> QED
    BY <2>3, <2>4
<1>3. Len(list) \in T
  <2> HIDE DEF T
  <2>1. 0..Len(list) \subseteq T
    BY <1>1, <1>2, Induction
  <2> QED
    BY <2>1
<1>4. \E f : Runs(f, list, mapsOf, Len(list))
  BY <1>3
<1>5. StreaksOf(list, mapsOf) = (CHOOSE f : Runs(f, list, mapsOf, Len(list)))[Len(list)]
  BY DEF Runs, StreaksOf, Fold, AddToStreaks
<1> QED
  BY <1>4, <1>5

\* A step of it is WithShader.
LEMMA StreakAdded ==
  ASSUME NEW mapsOf, NEW groups, NEW s
  PROVE  AddToStreaks(mapsOf, groups, s) = WithShader(mapsOf, groups, s)
  BY DEF AddToStreaks, Let, Only

\* The shaders of a group have the same maps.
Alike(mapsOf, group) == \A s, t \in ToSet(group) : mapsOf[s] = mapsOf[t]

\* One shader more keeps the groups as they must be.
LEMMA StreakKeeps ==
  ASSUME NEW mapsOf, NEW D, NEW S, NEW gs, Splits(gs, D, S), NoneEmpty(gs),
         \A g \in 1..Len(gs) : Alike(mapsOf, gs[g]),
         NEW s \in D, s \notin S, NEW hs, hs = WithShader(mapsOf, gs, s)
  PROVE  /\ Splits(hs, D, S \cup {s}) /\ NoneEmpty(hs)
         /\ \A g \in 1..Len(hs) : Alike(mapsOf, hs[g])
<1>1. PICK N : N = Len(gs)
  OBVIOUS
<1>2. N \in Nat /\ DOMAIN gs = 1..N /\ gs \in Seq(Seq(D))
  BY <1>1 DEF Splits
<1>3. CASE gs # <<>> /\ mapsOf[Head(gs[Len(gs)])] = mapsOf[s]
  <2>1. N \in 1..N
    BY <1>1, <1>2, <1>3
  <2>2. hs = [gs EXCEPT ![N] = Append(@, s)]
    BY <1>1, <1>3 DEF WithShader
  <2>3. /\ Splits(hs, D, S \cup {s}) /\ Len(hs) = N /\ hs[N] = Append(gs[N], s)
        /\ \A h \in 1..N : h # N => hs[h] = gs[h]
    <3>1. N \in 1..Len(gs)
      BY <1>1, <2>1
    <3>2. /\ Splits([gs EXCEPT ![N] = Append(@, s)], D, S \cup {s})
          /\ IntoGroup([gs EXCEPT ![N] = Append(@, s)], gs, N, s)
      BY <3>1, SplitsIntoGroup
    <3> QED
      BY <1>1, <2>2, <3>2 DEF IntoGroup
  <2>4. gs[N] \in Seq(D) /\ gs[N] # <<>>
    BY <1>1, <1>2, <2>1 DEF NoneEmpty
  <2>5. Head(gs[N]) \in ToSet(gs[N])
    <3>1. 1 \in 1..Len(gs[N]) /\ Head(gs[N]) = gs[N][1]
      BY <2>4
    <3> QED
      BY <2>4, <3>1, SeqTypes
  <2>6. ToSet(hs[N]) = ToSet(gs[N]) \cup {s} /\ hs[N] # <<>>
    BY <2>3, <2>4, OneMore, SMTT(60)
  <2>7. Alike(mapsOf, gs[N])
    BY <1>1, <2>1
  <2>8. \A t \in ToSet(hs[N]) : mapsOf[t] = mapsOf[s]
    BY <1>1, <1>3, <2>5, <2>6, <2>7 DEF Alike
  <2>9. Alike(mapsOf, hs[N])
    BY <2>8 DEF Alike
  <2>10. \A g \in 1..N : Alike(mapsOf, hs[g]) /\ hs[g] # <<>>
    BY <1>1, <2>3, <2>6, <2>9 DEF NoneEmpty
  <2> QED
    BY <2>3, <2>10 DEF NoneEmpty
<1>4. CASE ~ (gs # <<>> /\ mapsOf[Head(gs[Len(gs)])] = mapsOf[s])
  <2>1. hs = Append(gs, <<s>>)
    BY <1>4 DEF WithShader
  <2>2. /\ Splits(hs, D, S \cup {s}) /\ Len(hs) = N + 1 /\ hs[N + 1] = <<s>>
        /\ \A h \in 1..N : hs[h] = gs[h]
    BY <1>1, <2>1, SplitsOff
  <2>3. ToSet(<<s>>) = {s}
    BY OneShader
  <2>4. Alike(mapsOf, hs[N + 1]) /\ hs[N + 1] # <<>>
    BY <2>2, <2>3 DEF Alike
  <2>5. \A g \in 1..(N + 1) : g = N + 1 \/ g \in 1..N
    BY <1>2
  <2>6. \A g \in 1..(N + 1) : Alike(mapsOf, hs[g]) /\ hs[g] # <<>>
    BY <1>1, <2>2, <2>4, <2>5 DEF NoneEmpty
  <2> QED
    BY <2>2, <2>6 DEF NoneEmpty
<1> QED
  BY <1>3, <1>4

\* No groups have no elements.
LEMMA SplitsNothing ==
  ASSUME NEW D
  PROVE  Splits(<<>>, D, {}) /\ NoneEmpty(<<>>)
  BY DEF Splits, NoneEmpty

\* The streaks of a list have its elements once, and those of a streak are alike.
LEMMA StreaksSplit ==
  ASSUME NEW mapsOf, NEW D, NEW list \in Seq(D), Distinct(list)
  PROVE  /\ Splits(StreaksOf(list, mapsOf), D, ToSet(list)) /\ NoneEmpty(StreaksOf(list, mapsOf))
         /\ \A g \in 1..Len(StreaksOf(list, mapsOf)) : Alike(mapsOf, StreaksOf(list, mapsOf)[g])
<1>1. PICK N : N = Len(list)
  OBVIOUS
<1>2. N \in Nat /\ N \in 0..N /\ DOMAIN list = 1..N /\ ToSet(list) = {list[k] : k \in 1..N}
  BY <1>1, SeqTypes
<1>3. PICK f : Runs(f, list, mapsOf, N) /\ StreaksOf(list, mapsOf) = f[N]
  BY <1>1, <1>2, StreakRuns
<1> DEFINE I(n) == /\ Splits(f[n], D, {list[k] : k \in 1..n}) /\ NoneEmpty(f[n])
                   /\ \A g \in 1..Len(f[n]) : Alike(mapsOf, f[n][g])
           T == {n \in 0..N : I(n)}
<1>4. 0 \in T
  <2>1. f[0] = <<>> /\ {list[k] : k \in 1..0} = {} /\ Len(<<>>) = 0
    BY <1>2, <1>3 DEF Runs
  <2>2. I(0)
    BY <2>1, SplitsNothing
  <2> HIDE DEF I
  <2> QED
    BY <1>2, <2>2
<1>5. ASSUME NEW n \in 0..(N - 1), n \in T
      PROVE  n + 1 \in T
  <2>1. n \in Nat /\ n + 1 \in 0..N /\ n + 1 \in 1..N /\ n + 1 # 0 /\ (n + 1) - 1 = n
    BY <1>2
  <2>2. f[n + 1] = WithShader(mapsOf, f[n], list[n + 1])
    BY <1>3, <2>1, StreakAdded DEF Runs
  <2>3. PICK S : S = {list[k] : k \in 1..n}
    OBVIOUS
  <2>4. PICK s \in D : s = list[n + 1]
    BY <1>1, <2>1
  <2>5. s \notin S
    <3>1. \A k \in 1..n : k \in 1..N /\ k # n + 1
      BY <1>2, <2>1
    <3> QED
      BY <1>1, <2>1, <2>3, <2>4, <3>1 DEF Distinct
  <2>6. 1..(n + 1) = (1..n) \cup {n + 1}
    BY <2>1
  <2>7. {list[k] : k \in 1..(n + 1)} = S \cup {s}
    BY <2>3, <2>4, <2>6
  <2>8. Splits(f[n], D, S) /\ NoneEmpty(f[n]) /\ \A g \in 1..Len(f[n]) : Alike(mapsOf, f[n][g])
    BY <1>5, <2>3
  <2>9. /\ Splits(f[n + 1], D, S \cup {s}) /\ NoneEmpty(f[n + 1])
        /\ \A g \in 1..Len(f[n + 1]) : Alike(mapsOf, f[n + 1][g])
    BY <2>2, <2>4, <2>5, <2>8, StreakKeeps
  <2> QED
    BY <2>1, <2>7, <2>9
<1> HIDE DEF T
<1>6. 0..N \subseteq T
  BY <1>2, <1>4, <1>5, Induction
<1>7. I(N)
  BY <1>2, <1>6 DEF T
<1> QED
  BY <1>2, <1>3, <1>7

-----------------------------------------------------------------------------
(* Raytracing shaders apart.                                               *)

\* A group as it is.
LEMMA OneGroup ==
  ASSUME NEW D, NEW group \in Seq(D), Distinct(group)
  PROVE  Splits(<<group>>, D, ToSet(group)) /\ Len(<<group>>) = 1 /\ <<group>>[1] = group
<1>1. PICK R : R = Seq(D)
  OBVIOUS
<1>2. <<group>> \in Seq(R) /\ Len(<<group>>) = 1 /\ <<group>>[1] = group
  BY <1>1
<1>3. \A g \in 1..1 : g = 1
  OBVIOUS
<1>4. 1 \in 1..1
  OBVIOUS
<1> QED
  BY <1>1, <1>2, <1>3, <1>4 DEF Splits

\* A group in two.
LEMMA TwoGroups ==
  ASSUME NEW D, NEW S, NEW a \in Seq(D), NEW b \in Seq(D), Distinct(a), Distinct(b),
         ToSet(a) \cap ToSet(b) = {}, ToSet(a) \cup ToSet(b) = S
  PROVE  Splits(<<a, b>>, D, S) /\ Len(<<a, b>>) = 2 /\ <<a, b>>[1] = a /\ <<a, b>>[2] = b
<1>1. PICK R : R = Seq(D)
  OBVIOUS
<1>2. <<a, b>> \in Seq(R) /\ Len(<<a, b>>) = 2 /\ <<a, b>>[1] = a /\ <<a, b>>[2] = b
  BY <1>1
<1>3. \A g \in 1..2 : g = 1 \/ g = 2
  OBVIOUS
<1>4. 1 \in 1..2 /\ 2 \in 1..2
  OBVIOUS
<1>5. \A g \in 1..2 : Distinct(<<a, b>>[g]) /\ ToSet(<<a, b>>[g]) \subseteq S
  BY <1>2, <1>3
<1>6. \A g, h \in 1..2 : \A s \in S : s \in ToSet(<<a, b>>[g]) /\ s \in ToSet(<<a, b>>[h]) => g = h
  BY <1>2, <1>3
<1>7. \A s \in S : \E g \in 1..2 : s \in ToSet(<<a, b>>[g])
  BY <1>2, <1>4
<1> QED
  BY <1>1, <1>2, <1>5, <1>6, <1>7 DEF Splits

\* The groups for a group have its shaders.
LEMMA RaytracingSplits ==
  ASSUME NEW library, NEW format, NEW D, NEW group \in Seq(D), Distinct(group), group # <<>>,
         NEW gs, gs = WithoutRaytracing(library, format, group)
  PROVE  Splits(gs, D, ToSet(group)) /\ NoneEmpty(gs)
<1>1. PICK R : R = {s \in ToSet(group) : library.shaders[s].frequency \in RaytracingFrequencies}
  OBVIOUS
<1>2. PICK with : with = Chosen(group, R)
  OBVIOUS
<1>3. PICK without : without = Chosen(group, ToSet(group) \ R)
  OBVIOUS
<1>4. gs = IF format # "PCD3D_SM5" \/ with = <<>> \/ without = <<>> THEN <<group>>
           ELSE <<without, with>>
  BY <1>1, <1>2, <1>3 DEF WithoutRaytracing
<1>5. with \in Seq(D) /\ ToSet(with) = ToSet(group) \cap R /\ Distinct(with)
  BY <1>2, ChosenSame
<1>6. without \in Seq(D) /\ ToSet(without) = ToSet(group) \cap (ToSet(group) \ R) /\ Distinct(without)
  BY <1>3, ChosenSame
<1>7. CASE gs = <<group>>
  <2>1. Splits(<<group>>, D, ToSet(group)) /\ Len(<<group>>) = 1 /\ <<group>>[1] = group
    BY OneGroup
  <2>2. \A g \in 1..1 : g = 1
    OBVIOUS
  <2> QED
    BY <1>7, <2>1, <2>2 DEF NoneEmpty
<1>8. CASE gs # <<group>>
  <2>1. gs = <<without, with>> /\ with # <<>> /\ without # <<>>
    BY <1>4, <1>8
  <2>2. ToSet(without) \cap ToSet(with) = {} /\ ToSet(without) \cup ToSet(with) = ToSet(group)
    BY <1>1, <1>5, <1>6
  <2>3. /\ Splits(<<without, with>>, D, ToSet(group)) /\ Len(<<without, with>>) = 2
        /\ <<without, with>>[1] = without /\ <<without, with>>[2] = with
    BY <1>5, <1>6, <2>2, TwoGroups
  <2>4. \A g \in 1..2 : g = 1 \/ g = 2
    OBVIOUS
  <2> QED
    BY <2>1, <2>3, <2>4 DEF NoneEmpty
<1> QED
  BY <1>7, <1>8

-----------------------------------------------------------------------------
(* Too large a group in several.                                           *)

\* The smallest group, the first of these.
IsSmallest(library, gs, g) ==
  /\ g \in 1..Len(gs)
  /\ \A h \in 1..Len(gs) :
       \/ SizeOf(library, gs[g]) < SizeOf(library, gs[h])
       \/ SizeOf(library, gs[g]) = SizeOf(library, gs[h]) /\ g <= h

\* There is one.
LEMMA SmallestGroup ==
  ASSUME NEW library, NEW gs, Len(gs) \in Nat \ {0}, DOMAIN gs = 1..Len(gs),
         \A g \in 1..Len(gs) : SizeOf(library, gs[g]) \in Nat
  PROVE  IsSmallest(library, gs, SmallestOf(library, gs))
<1>1. PICK T : T = {SizeOf(library, gs[g]) : g \in 1..Len(gs)}
  OBVIOUS
<1>2. T \subseteq Nat /\ T # {}
  BY <1>1
<1>3. PICK n \in T : \A m \in T : n <= m
  BY <1>2, LeastNumber
<1>4. PICK U : U = {g \in 1..Len(gs) : SizeOf(library, gs[g]) = n}
  OBVIOUS
<1>5. U \subseteq Nat /\ U # {}
  BY <1>1, <1>3, <1>4
<1>6. PICK g \in U : \A h \in U : g <= h
  BY <1>5, LeastNumber
<1>7. g \in 1..Len(gs) /\ SizeOf(library, gs[g]) = n
  BY <1>4, <1>6
<1>8. ASSUME NEW h \in 1..Len(gs)
      PROVE  \/ SizeOf(library, gs[g]) < SizeOf(library, gs[h])
             \/ SizeOf(library, gs[g]) = SizeOf(library, gs[h]) /\ g <= h
  <2>1. SizeOf(library, gs[h]) \in T /\ n \in Nat /\ SizeOf(library, gs[h]) \in Nat
    BY <1>1, <1>2
  <2>2. n <= SizeOf(library, gs[h])
    BY <1>3, <2>1
  <2>3. SizeOf(library, gs[h]) = n => g <= h
    BY <1>4, <1>6
  <2> QED
    BY <1>7, <2>1, <2>2, <2>3
<1>9. IsSmallest(library, gs, g)
  BY <1>7, <1>8 DEF IsSmallest
<1>10. SmallestOf(library, gs) = CHOOSE h : IsSmallest(library, gs, h)
  BY DEF SmallestOf, IsSmallest
<1> QED
  BY <1>9, <1>10

\* t adds up the sizes of the groups to x.
AddUp(t, library, gs, x) ==
  /\ t[0] = 0 /\ t[Len(gs)] = x
  /\ \A j \in 0..Len(gs) : t[j] \in Nat
  /\ \A j \in 1..Len(gs) : t[j] = t[j - 1] + SizeOf(library, gs[j])

\* Nothing adds up to nothing.
LEMMA NothingAddsUp ==
  ASSUME NEW library, NEW gs, Len(gs) \in Nat, \A g \in 1..Len(gs) : SizeOf(library, gs[g]) = 0
  PROVE  \E t : AddUp(t, library, gs, 0)
<1>1. PICK t : t = [j \in 0..Len(gs) |-> 0]
  OBVIOUS
<1>2. \A j \in 1..Len(gs) : j \in 0..Len(gs) /\ j - 1 \in 0..Len(gs)
  OBVIOUS
<1>3. 0 \in 0..Len(gs) /\ Len(gs) \in 0..Len(gs)
  OBVIOUS
<1>4. AddUp(t, library, gs, 0)
  BY <1>1, <1>2, <1>3 DEF AddUp
<1> QED
  BY <1>4

\* One group grows.
LEMMA OneAddsMore ==
  ASSUME NEW library, NEW gs, NEW x \in Nat, NEW t, AddUp(t, library, gs, x), Len(gs) \in Nat,
         NEW hs, NEW g \in 1..Len(gs), NEW s, IntoGroup(hs, gs, g, s),
         NEW y \in Nat, SizeOf(library, hs[g]) = SizeOf(library, gs[g]) + y,
         \A h \in 1..Len(gs) : SizeOf(library, gs[h]) \in Nat
  PROVE  \E u : AddUp(u, library, hs, x + y)
<1>1. PICK N : N = Len(gs)
  OBVIOUS
<1>2. N \in Nat /\ Len(hs) = N /\ g \in Nat /\ g \in 1..N
  BY <1>1 DEF IntoGroup
<1>3. /\ t[0] = 0 /\ t[N] = x /\ (\A j \in 0..N : t[j] \in Nat)
      /\ \A j \in 1..N : t[j] = t[j - 1] + SizeOf(library, gs[j])
  BY <1>1 DEF AddUp
<1>4. PICK u : u = [j \in 0..N |-> IF j < g THEN t[j] ELSE t[j] + y]
  OBVIOUS
<1>5. u[0] = 0 /\ u[N] = x + y /\ \A j \in 0..N : u[j] \in Nat
  <2>1. 0 \in 0..N /\ N \in 0..N /\ 0 < g /\ ~ (N < g)
    BY <1>2
  <2>2. u[0] = t[0] /\ u[N] = t[N] + y
    BY <1>4, <2>1
  <2>3. \A j \in 0..N : u[j] \in Nat
    BY <1>3, <1>4
  <2> QED
    BY <1>3, <2>2, <2>3
<1>6. ASSUME NEW j \in 1..N
      PROVE  u[j] = u[j - 1] + SizeOf(library, hs[j])
  <2>1. j \in 0..N /\ j - 1 \in 0..N /\ j \in Nat
    BY <1>2
  <2>2. t[j] = t[j - 1] + SizeOf(library, gs[j]) /\ t[j] \in Nat /\ t[j - 1] \in Nat
        /\ SizeOf(library, gs[j]) \in Nat
    BY <1>1, <1>3, <2>1
  <2>3. CASE j < g
    <3>1. hs[j] = gs[j] /\ j - 1 < g
      <4>1. j # g /\ j \in 1..Len(gs) /\ j - 1 < g
        BY <1>1, <1>2, <2>1, <2>3
      <4> QED
        BY <4>1 DEF IntoGroup
    <3> QED
      BY <1>4, <2>1, <2>2, <2>3, <3>1
  <2>4. CASE j = g
    <3>1. SizeOf(library, hs[j]) = SizeOf(library, gs[j]) + y /\ j - 1 < g /\ ~ (j < g)
      BY <2>1, <2>4
    <3>2. u[j] = t[j] + y /\ u[j - 1] = t[j - 1]
      BY <1>4, <2>1, <3>1
    <3> QED
      BY <2>2, <3>1, <3>2, SMTT(60)
  <2>5. CASE j > g
    <3>1. hs[j] = gs[j] /\ ~ (j - 1 < g) /\ ~ (j < g)
      <4>1. j # g /\ j \in 1..Len(gs) /\ ~ (j - 1 < g) /\ ~ (j < g)
        BY <1>1, <1>2, <2>1, <2>5
      <4> QED
        BY <4>1 DEF IntoGroup
    <3>2. u[j] = t[j] + y /\ u[j - 1] = t[j - 1] + y
      BY <1>4, <2>1, <3>1
    <3> QED
      BY <2>2, <3>1, <3>2, SMTT(60)
  <2> QED
    BY <1>2, <2>1, <2>3, <2>4, <2>5
<1>7. AddUp(u, library, hs, x + y)
  BY <1>2, <1>5, <1>6 DEF AddUp
<1> QED
  BY <1>7

\* If every group has some size, all have at least as often that.
LEMMA LeastTotal ==
  ASSUME NEW library, NEW gs, NEW x \in Nat, NEW t, AddUp(t, library, gs, x), Len(gs) \in Nat,
         NEW m \in Nat, \A g \in 1..Len(gs) : SizeOf(library, gs[g]) \in Nat /\ m <= SizeOf(library, gs[g])
  PROVE  m * Len(gs) <= x
<1>1. PICK N : N = Len(gs)
  OBVIOUS
<1>2. N \in Nat /\ N \in 0..N
  BY <1>1
<1>3. /\ t[0] = 0 /\ t[N] = x /\ (\A j \in 0..N : t[j] \in Nat)
      /\ \A j \in 1..N : t[j] = t[j - 1] + SizeOf(library, gs[j])
  BY <1>1 DEF AddUp
<1> DEFINE T == {j \in 0..N : m * j <= t[j]}
<1>4. 0 \in T
  BY <1>2, <1>3
<1>5. ASSUME NEW j \in 0..(N - 1), j \in T
      PROVE  j + 1 \in T
  <2>1. j \in Nat /\ j + 1 \in 1..N /\ j + 1 \in 0..N /\ (j + 1) - 1 = j /\ j \in 0..N
    BY <1>2
  <2>2. t[j + 1] = t[j] + SizeOf(library, gs[j + 1])
    BY <1>3, <2>1
  <2>3. SizeOf(library, gs[j + 1]) \in Nat /\ m <= SizeOf(library, gs[j + 1]) /\ t[j] \in Nat
    BY <1>1, <1>3, <2>1
  <2>4. m * j <= t[j]
    BY <1>5
  <2>5. \A a, b, c, d \in Nat : a * b <= c /\ a <= d => a * (b + 1) <= c + d
    OBVIOUS
  <2>6. m * (j + 1) <= t[j + 1]
    BY <2>1, <2>2, <2>3, <2>4, <2>5
  <2> QED
    BY <2>1, <2>6
<1> HIDE DEF T
<1>6. 0..N \subseteq T
  BY <1>2, <1>4, <1>5, Induction
<1>7. m * N <= t[N]
  BY <1>2, <1>6 DEF T
<1> QED
  BY <1>1, <1>3, <1>7

\* A step, and the groups once the first n shaders are in them.
AddToSpread(library, groups, s) ==
  Let(<<groups, s>>, LAMBDA pair : ToSmallest(library, pair[1], pair[2]))
Spreads(f, library, list, number, n) ==
  f = [k \in 0..n |-> IF k = 0 THEN [g \in 1..number |-> <<>>] ELSE AddToSpread(library, f[k - 1], list[k])]

\* There are such groups, and the last are the result.
LEMMA SpreadSteps ==
  ASSUME NEW library, NEW list, NEW number, Len(list) \in Nat
  PROVE  \E f : Spreads(f, library, list, number, Len(list)) /\ Spread(library, list, number) = f[Len(list)]
<1> DEFINE T == {n \in 0..Len(list) : \E g : Spreads(g, library, list, number, n)}
<1>1. 0 \in T
  <2>1. Spreads([k \in 0..0 |-> [g \in 1..number |-> <<>>]], library, list, number, 0)
    BY DEF Spreads
  <2> QED
    BY <2>1
<1>2. ASSUME NEW n \in 0..(Len(list) - 1), n \in T
      PROVE  n + 1 \in T
  <2>1. PICK g : Spreads(g, library, list, number, n)
    BY <1>2
  <2>2. PICK h : h = [k \in 0..(n + 1) |->
                        IF k = n + 1 THEN AddToSpread(library, g[n], list[n + 1]) ELSE g[k]]
    OBVIOUS
  <2>3. Spreads(h, library, list, number, n + 1)
    <3>1. \A k \in 0..(n + 1) : k = n + 1 \/ k \in 0..n
      OBVIOUS
    <3>2. \A k \in 0..n : k # n + 1 /\ k \in 0..(n + 1) /\ (k # 0 => k - 1 \in 0..n)
      OBVIOUS
    <3>3. \A k \in 0..n : h[k] = g[k]
      BY <2>2, <3>2
    <3>4. ASSUME NEW k \in 0..n
          PROVE  h[k] = IF k = 0 THEN [i \in 1..number |-> <<>>] ELSE AddToSpread(library, h[k - 1], list[k])
      BY <2>1, <3>2, <3>3 DEF Spreads
    <3>5. h[n + 1] = AddToSpread(library, h[n], list[n + 1]) /\ n + 1 # 0 /\ (n + 1) - 1 = n
      BY <2>2, <3>2, <3>3
    <3>6. \A k \in 0..(n + 1) :
            h[k] = IF k = 0 THEN [i \in 1..number |-> <<>>] ELSE AddToSpread(library, h[k - 1], list[k])
      BY <3>1, <3>4, <3>5
    <3> QED
      BY <2>2, <3>6 DEF Spreads
  <2>4. n + 1 \in 0..Len(list)
    OBVIOUS
  <2> QED
    BY <2>3, <2>4
<1>3. Len(list) \in T
  <2> HIDE DEF T
  <2>1. 0..Len(list) \subseteq T
    BY <1>1, <1>2, Induction
  <2> QED
    BY <2>1
<1>4. \E f : Spreads(f, library, list, number, Len(list))
  BY <1>3
<1>5. Spread(library, list, number) = (CHOOSE f : Spreads(f, library, list, number, Len(list)))[Len(list)]
  BY DEF Spreads, Spread, Fold, AddToSpread
<1> QED
  BY <1>4, <1>5

\* A step of it is ToSmallest.
LEMMA SpreadAdded ==
  ASSUME NEW library, NEW groups, NEW s
  PROVE  AddToSpread(library, groups, s) = ToSmallest(library, groups, s)
  BY DEF AddToSpread, Let, Only

\* A group is larger than the maximum by less than one of its shaders.
Bounded(library, group) ==
  \E s \in ToSet(group) : SizeOf(library, group) < MaxGroupSize + library.shaders[s].full

\* With the first n shaders of the list in them, as many groups have a shader, but for
\* the number of groups, and none is too large.
SpreadSoFar(library, list, number, n, gs) ==
  /\ Splits(gs, DOMAIN library.shaders, {list[k] : k \in 1..n}) /\ Len(gs) = number
  /\ \A g \in 1..number : gs[g] # <<>> <=> g <= n
  /\ \A g \in 1..number : gs[g] # <<>> => Bounded(library, gs[g])
  /\ \E t : AddUp(t, library, gs, SizeOf(library, SubSeq(list, 1, n)))

\* With groups for all shaders or enough of them for their size.
Enough(library, list, number) ==
  /\ number \in Nat \ {0} /\ number <= Len(list)
  /\ number < Len(list) => SizeOf(library, list) < number * MaxGroupSize

\* While there are shaders, the smallest group is empty or smaller than the maximum.
LEMMA SmallestFits ==
  ASSUME NEW library, IsLibrary(library), NEW list \in Seq(DOMAIN library.shaders),
         NEW number, Enough(library, list, number),
         NEW n \in 0..(Len(list) - 1), NEW gs, SpreadSoFar(library, list, number, n, gs),
         NEW m, IsSmallest(library, gs, m)
  PROVE  /\ SizeOf(library, gs[m]) < MaxGroupSize
         /\ n < number => m = n + 1
<1>1. PICK D : D = DOMAIN library.shaders
  OBVIOUS
<1>2. /\ gs \in Seq(Seq(D)) /\ Len(gs) = number /\ number \in Nat \ {0} /\ n \in Nat
      /\ Len(list) \in Nat /\ n < Len(list)
  BY <1>1 DEF SpreadSoFar, Splits, Enough
<1>3. \A g \in 1..number : gs[g] \in Seq(D)
  BY <1>2
<1>4. \A g \in 1..number : /\ SizeOf(library, gs[g]) \in Nat
                           /\ gs[g] # <<>> => SizeOf(library, gs[g]) > 0
                           /\ gs[g] = <<>> => SizeOf(library, gs[g]) = 0
  BY <1>1, <1>3, SizePositive, SizeOfNone
<1>5. /\ m \in 1..number
      /\ \A h \in 1..number :
           \/ SizeOf(library, gs[m]) < SizeOf(library, gs[h])
           \/ SizeOf(library, gs[m]) = SizeOf(library, gs[h]) /\ m <= h
  BY <1>2 DEF IsSmallest
<1>6. \A g \in 1..number : gs[g] # <<>> <=> g <= n
  BY DEF SpreadSoFar
<1>7. MaxGroupSize \in Nat /\ MaxGroupSize > 0
  BY MaxGroupSizeAssumption
<1>8. CASE n < number
  <2>1. n + 1 \in 1..number /\ ~ (n + 1 <= n)
    BY <1>2, <1>8
  <2>2. gs[n + 1] = <<>>
    BY <1>6, <2>1
  <2>3. SizeOf(library, gs[n + 1]) = 0
    BY <1>4, <2>1, <2>2
  <2>4. SizeOf(library, gs[m]) = 0 /\ m <= n + 1
    <3>1. SizeOf(library, gs[m]) \in Nat
      BY <1>4, <1>5
    <3>2. \/ SizeOf(library, gs[m]) < SizeOf(library, gs[n + 1])
          \/ SizeOf(library, gs[m]) = SizeOf(library, gs[n + 1]) /\ m <= n + 1
      BY <1>5, <2>1
    <3> QED
      BY <2>3, <3>1, <3>2
  <2>5. gs[m] = <<>>
    <3>1. gs[m] # <<>> => SizeOf(library, gs[m]) > 0
      BY <1>4, <1>5
    <3> QED
      BY <2>4, <3>1
  <2>6. ~ (m <= n)
    BY <1>5, <1>6, <2>5
  <2>7. m \in Nat
    BY <1>2, <1>5
  <2> QED
    BY <1>2, <1>7, <2>4, <2>6, <2>7
<1>9. CASE ~ (n < number)
  <2>1. SizeOf(library, list) < number * MaxGroupSize
    <3>1. number < Len(list)
      BY <1>2, <1>9
    <3> QED
      BY <3>1 DEF Enough
  <2>2. PICK x : x = SizeOf(library, SubSeq(list, 1, n))
    OBVIOUS
  <2>3. x \in Nat /\ x <= SizeOf(library, list) /\ SizeOf(library, list) \in Nat
    <3>1. n \in 0..Len(list)
      BY <1>2
    <3> QED
      BY <2>2, <3>1, SizeOfPrefix
  <2>4. PICK t : AddUp(t, library, gs, x)
    BY <2>2 DEF SpreadSoFar
  <2>5. PICK a : a = SizeOf(library, gs[m])
    OBVIOUS
  <2>6. a \in Nat
    BY <1>4, <1>5, <2>5
  <2>7. \A g \in 1..Len(gs) : SizeOf(library, gs[g]) \in Nat /\ a <= SizeOf(library, gs[g])
    <3>1. TAKE g \in 1..Len(gs)
    <3>2. SizeOf(library, gs[g]) \in Nat
      BY <1>2, <1>4
    <3>3. \/ SizeOf(library, gs[m]) < SizeOf(library, gs[g])
          \/ SizeOf(library, gs[m]) = SizeOf(library, gs[g])
      BY <1>2, <1>5
    <3> QED
      BY <2>5, <2>6, <3>2, <3>3
  <2>8. a * Len(gs) <= x
    BY <1>2, <2>3, <2>4, <2>6, <2>7, LeastTotal
  <2>9. a * number < number * MaxGroupSize
    <3>1. \A b, c, d, e \in Nat : b <= c /\ c <= d /\ d < e => b < e
      OBVIOUS
    <3>2. a * number \in Nat /\ number * MaxGroupSize \in Nat
      BY <1>2, <1>7, <2>6
    <3> QED
      BY <1>2, <2>1, <2>3, <2>8, <3>1, <3>2
  <2>10. \A b, c, d \in Nat : b * c < c * d => b < d
    <3>1. \A b, c, d \in Nat : d <= b => c * d <= b * c
      OBVIOUS
    <3>2. \A b, c, d \in Nat : b * c \in Nat /\ c * d \in Nat
      OBVIOUS
    <3> QED
      BY <3>1, <3>2
  <2>11. a < MaxGroupSize
    BY <1>2, <1>7, <2>6, <2>9, <2>10
  <2> QED
    BY <1>9, <2>5, <2>11
<1> QED
  BY <1>8, <1>9

\* The next shader in the smallest group keeps all that.
LEMMA SpreadKeeps ==
  ASSUME NEW library, IsLibrary(library), NEW list \in Seq(DOMAIN library.shaders), Distinct(list),
         NEW number, Enough(library, list, number),
         NEW n \in 0..(Len(list) - 1), NEW gs, SpreadSoFar(library, list, number, n, gs)
  PROVE  SpreadSoFar(library, list, number, n + 1, ToSmallest(library, gs, list[n + 1]))
<1>1. PICK D : D = DOMAIN library.shaders
  OBVIOUS
<1>2. /\ gs \in Seq(Seq(D)) /\ Len(gs) = number /\ number \in Nat \ {0} /\ n \in Nat
      /\ Len(list) \in Nat /\ n < Len(list) /\ DOMAIN gs = 1..number
  BY <1>1 DEF SpreadSoFar, Splits, Enough
<1>3. \A g \in 1..number : gs[g] \in Seq(D)
  BY <1>2
<1>4. \A g \in 1..number : SizeOf(library, gs[g]) \in Nat
  BY <1>1, <1>3, SizePositive, SizeOfNone
<1>5. PICK m : m = SmallestOf(library, gs)
  OBVIOUS
<1>6. IsSmallest(library, gs, m)
  BY <1>2, <1>4, <1>5, SmallestGroup
<1>7. m \in 1..Len(gs) /\ m \in 1..number
  BY <1>2, <1>6 DEF IsSmallest
<1>8. PICK a : a = SizeOf(library, gs[m])
  OBVIOUS
<1>9. a \in Nat /\ a < MaxGroupSize /\ (n < number => m = n + 1)
  <2>1. a < MaxGroupSize /\ (n < number => m = n + 1)
    BY <1>6, <1>8, SmallestFits
  <2> QED
    BY <1>4, <1>7, <1>8, <2>1
<1>10. PICK s : s = list[n + 1]
  OBVIOUS
<1>11. PICK S : S = {list[k] : k \in 1..n}
  OBVIOUS
<1>12. n + 1 \in 1..Len(list) /\ n + 1 \in 0..Len(list) /\ \A k \in 1..n : k \in 1..Len(list) /\ k # n + 1
  BY <1>2
<1>13. s \in D /\ s \notin S
  <2>1. s \in D
    BY <1>1, <1>10, <1>12
  <2>2. \A k \in 1..n : list[k] # s
    BY <1>10, <1>12 DEF Distinct
  <2> QED
    BY <1>11, <2>1, <2>2
<1>14. PICK hs : hs = ToSmallest(library, gs, s)
  OBVIOUS
<1>15. hs = [gs EXCEPT ![m] = Append(@, s)]
  BY <1>5, <1>14 DEF ToSmallest
<1>16. Splits(hs, D, S \cup {s}) /\ IntoGroup(hs, gs, m, s)
  <2>1. Splits(gs, D, S)
    BY <1>1, <1>11 DEF SpreadSoFar
  <2>2. /\ Splits([gs EXCEPT ![m] = Append(@, s)], D, S \cup {s})
        /\ IntoGroup([gs EXCEPT ![m] = Append(@, s)], gs, m, s)
    BY <1>7, <1>13, <2>1, SplitsIntoGroup
  <2> QED
    BY <1>15, <2>2
<1>17. S \cup {s} = {list[k] : k \in 1..(n + 1)}
  <2>1. 1..(n + 1) = (1..n) \cup {n + 1}
    BY <1>2
  <2> QED
    BY <1>10, <1>11, <2>1
<1>18. PICK x : x = library.shaders[s].full
  OBVIOUS
<1>19. x \in Nat
  BY <1>1, <1>13, <1>18, ShaderTypes
<1>20. PICK l : l = Append(gs[m], s)
  OBVIOUS
<1>21. l # <<>> /\ ToSet(l) = ToSet(gs[m]) \cup {s} /\ SizeOf(library, l) = a + x
  <2>1. gs[m] \in Seq(D)
    BY <1>3, <1>7
  <2>2. /\ l # <<>> /\ ToSet(l) = ToSet(gs[m]) \cup {s}
        /\ l = InsertAt(gs[m], Len(gs[m]) + 1, s)
    <3>1. PICK q : q = gs[m]
      OBVIOUS
    <3>2. q \in Seq(D) /\ s \in D
      BY <1>13, <2>1, <3>1
    <3>3. /\ Append(q, s) # <<>> /\ ToSet(Append(q, s)) = ToSet(q) \cup {s}
          /\ Append(q, s) = InsertAt(q, Len(q) + 1, s)
      BY <3>2, OneMore, SMTT(60)
    <3> QED
      BY <1>20, <3>1, <3>3
  <2>3. Len(gs[m]) + 1 \in 1..(Len(gs[m]) + 1)
    BY <2>1
  <2>4. SizeOf(library, InsertAt(gs[m], Len(gs[m]) + 1, s)) = SizeOf(library, gs[m]) + x
    BY <1>1, <1>13, <1>18, <2>1, <2>3, SizeInserted
  <2> QED
    BY <1>8, <2>2, <2>4
<1>22. hs[m] = l /\ Len(hs) = number /\ \A h \in 1..number : h # m => hs[h] = gs[h]
  BY <1>2, <1>16, <1>20 DEF IntoGroup
<1>23. Bounded(library, l)
  <2>1. a + x < MaxGroupSize + x
    BY <1>9, <1>19, MaxGroupSizeAssumption
  <2> QED
    BY <1>18, <1>21, <2>1 DEF Bounded
<1>24. \A g \in 1..number : hs[g] # <<>> <=> g <= n + 1
  <2>1. \A g \in 1..number : gs[g] # <<>> <=> g <= n
    BY DEF SpreadSoFar
  <2>2. CASE n < number
    <3>1. m = n + 1
      BY <1>9, <2>2
    <3>2. \A g \in 1..number : g # n + 1 => (g <= n <=> g <= n + 1)
      BY <1>2
    <3>3. n + 1 <= n + 1
      BY <1>2
    <3> QED
      BY <1>21, <1>22, <2>1, <3>1, <3>2, <3>3
  <2>3. CASE ~ (n < number)
    <3>1. \A g \in 1..number : g <= n /\ g <= n + 1
      BY <1>2, <2>3
    <3> QED
      BY <1>21, <1>22, <2>1, <3>1
  <2> QED
    BY <2>2, <2>3
<1>25. \A g \in 1..number : hs[g] # <<>> => Bounded(library, hs[g])
  <2>1. \A g \in 1..number : gs[g] # <<>> => Bounded(library, gs[g])
    BY DEF SpreadSoFar
  <2> QED
    BY <1>22, <1>23, <2>1
<1>26. \E u : AddUp(u, library, hs, SizeOf(library, SubSeq(list, 1, n + 1)))
  <2>1. PICK y : y = SizeOf(library, SubSeq(list, 1, n))
    OBVIOUS
  <2>2. n \in 0..Len(list)
    BY <1>2
  <2>3. y \in Nat /\ SizeOf(library, SubSeq(list, 1, n + 1)) = y + x
    BY <1>2, <1>10, <1>18, <2>1, <2>2, SizeOfPrefix
  <2>4. PICK t : AddUp(t, library, gs, y)
    BY <2>1 DEF SpreadSoFar
  <2>5. \A h \in 1..Len(gs) : SizeOf(library, gs[h]) \in Nat
    BY <1>2, <1>4
  <2>6. SizeOf(library, hs[m]) = SizeOf(library, gs[m]) + x
    BY <1>8, <1>21, <1>22
  <2>7. Len(gs) \in Nat
    BY <1>2
  <2>8. \E u : AddUp(u, library, hs, y + x)
    BY <1>7, <1>16, <1>19, <2>3, <2>4, <2>5, <2>6, <2>7, OneAddsMore
  <2> QED
    BY <2>3, <2>8
<1>27. SpreadSoFar(library, list, number, n + 1, hs)
  BY <1>1, <1>16, <1>17, <1>22, <1>24, <1>25, <1>26 DEF SpreadSoFar
<1> QED
  BY <1>10, <1>14, <1>27

\* With nothing in the groups it holds.
LEMMA SpreadStarts ==
  ASSUME NEW library, IsLibrary(library), NEW list \in Seq(DOMAIN library.shaders),
         NEW number \in Nat \ {0}
  PROVE  SpreadSoFar(library, list, number, 0, [g \in 1..number |-> <<>>])
<1>1. PICK D : D = DOMAIN library.shaders
  OBVIOUS
<1>2. PICK R : R = Seq(D)
  OBVIOUS
<1>3. PICK gs : gs = [g \in 1..number |-> <<>>]
  OBVIOUS
<1>4. gs \in Seq(R) /\ Len(gs) = number /\ \A g \in 1..number : gs[g] = <<>>
  <2>1. <<>> \in R
    BY <1>2
  <2>2. gs \in [1..number -> R]
    BY <1>3, <2>1
  <2> QED
    BY <1>3, <2>2
<1>5. Distinct(<<>>) /\ ToSet(<<>>) = {} /\ {list[k] : k \in 1..0} = {}
  BY DEF Distinct, ToSet
<1>6. Splits(gs, D, {})
  BY <1>2, <1>4, <1>5 DEF Splits
<1>7. SizeOf(library, SubSeq(list, 1, 0)) = 0
  <2>1. SubSeq(list, 1, 0) = <<>>
    OBVIOUS
  <2> QED
    BY <2>1, SizeOfNone
<1>8. \E t : AddUp(t, library, gs, 0)
  <2>1. Len(gs) \in Nat /\ \A g \in 1..Len(gs) : SizeOf(library, gs[g]) = 0
    BY <1>4, SizeOfNone
  <2> QED
    BY <2>1, NothingAddsUp
<1>9. \A g \in 1..number : gs[g] # <<>> <=> g <= 0
  BY <1>4
<1> QED
  BY <1>1, <1>3, <1>4, <1>5, <1>6, <1>7, <1>8, <1>9 DEF SpreadSoFar

\* Once all shaders are in them, they have these shaders.
LEMMA SpreadSplits ==
  ASSUME NEW library, IsLibrary(library), NEW list \in Seq(DOMAIN library.shaders), Distinct(list),
         NEW number, Enough(library, list, number)
  PROVE  SpreadSoFar(library, list, number, Len(list), Spread(library, list, number))
<1>1. PICK N : N = Len(list)
  OBVIOUS
<1>2. N \in Nat /\ N \in 0..N /\ number \in Nat \ {0}
  BY <1>1 DEF Enough
<1>3. PICK f : Spreads(f, library, list, number, N) /\ Spread(library, list, number) = f[N]
  BY <1>1, <1>2, SpreadSteps
<1> DEFINE T == {n \in 0..N : SpreadSoFar(library, list, number, n, f[n])}
<1>4. 0 \in T
  <2>1. f[0] = [g \in 1..number |-> <<>>] /\ 0 \in 0..N
    BY <1>2, <1>3 DEF Spreads
  <2> QED
    BY <1>2, <2>1, SpreadStarts
<1>5. ASSUME NEW n \in 0..(N - 1), n \in T
      PROVE  n + 1 \in T
  <2>1. n + 1 \in 0..N /\ n + 1 # 0 /\ (n + 1) - 1 = n
    BY <1>2
  <2>2. f[n + 1] = ToSmallest(library, f[n], list[n + 1])
    BY <1>3, <2>1, SpreadAdded DEF Spreads
  <2>3. SpreadSoFar(library, list, number, n, f[n]) /\ n \in 0..(Len(list) - 1)
    BY <1>1, <1>5
  <2>4. SpreadSoFar(library, list, number, n + 1, f[n + 1])
    BY <2>2, <2>3, SpreadKeeps
  <2> QED
    BY <2>1, <2>4
<1> HIDE DEF T
<1>6. 0..N \subseteq T
  BY <1>2, <1>4, <1>5, Induction
<1>7. SpreadSoFar(library, list, number, N, f[N])
  BY <1>2, <1>6 DEF T
<1> QED
  BY <1>1, <1>3, <1>7

\* The smaller of two numbers.
LEMMA SmallerOne ==
  ASSUME NEW a \in Nat, NEW b \in Nat
  PROVE  Min({a, b}) \in {a, b} /\ Min({a, b}) <= a /\ Min({a, b}) <= b
<1>1. \E x \in {a, b} : \A y \in {a, b} : x <= y
  BY SMT
<1>2. PICK m : m = CHOOSE x \in {a, b} : \A y \in {a, b} : x <= y
  OBVIOUS
<1>3. m \in {a, b} /\ \A y \in {a, b} : m <= y
  BY <1>1, <1>2
<1>4. Min({a, b}) = m
  BY <1>2 DEF Min
<1> QED
  BY <1>3, <1>4

\* There are as many new groups as shaders, or enough for their size.
LEMMA EnoughGroups ==
  ASSUME NEW library, IsLibrary(library), NEW group \in Seq(DOMAIN library.shaders), group # <<>>,
         NEW list, Len(list) = Len(group), SizeOf(library, list) = SizeOf(library, group)
  PROVE  Enough(library, list, NewGroups(library, group))
<1>1. PICK x : x = SizeOf(library, group)
  OBVIOUS
<1>2. PICK N : N = Len(group)
  OBVIOUS
<1>3. x \in Nat /\ N \in Nat /\ N > 0 /\ MaxGroupSize \in Nat \ {0}
  BY <1>1, <1>2, SizePositive, MaxGroupSizeAssumption
<1>4. PICK q : q = x \div MaxGroupSize
  OBVIOUS
<1>5. q \in Nat /\ x < (q + 1) * MaxGroupSize
  <2>1. \A a \in Nat, b \in Nat \ {0} : a \div b \in Nat /\ a < (a \div b + 1) * b
    OBVIOUS
  <2> QED
    BY <1>3, <1>4, <2>1
<1>6. PICK m : m = NewGroups(library, group)
  OBVIOUS
<1>7. m \in {q + 1, N} /\ m <= q + 1 /\ m <= N
  <2>1. m = Min({q + 1, N})
    BY <1>1, <1>2, <1>4, <1>6 DEF NewGroups
  <2>2. q + 1 \in Nat
    BY <1>5
  <2> QED
    BY <1>3, <2>1, <2>2, SmallerOne
<1>8. m \in Nat \ {0}
  BY <1>3, <1>5, <1>7
<1>9. m < N => x < m * MaxGroupSize
  BY <1>3, <1>5, <1>7
<1> QED
  BY <1>1, <1>2, <1>6, <1>7, <1>8, <1>9 DEF Enough

\* A group that stays whole is small enough, or has one shader.
LEMMA WholeBounded ==
  ASSUME NEW library, IsLibrary(library), NEW group \in Seq(DOMAIN library.shaders), group # <<>>,
         SizeOf(library, group) <= MaxGroupSize \/ Len(group) = 1
  PROVE  Bounded(library, group)
<1>1. Len(group) \in Nat /\ Len(group) > 0 /\ 1 \in 1..Len(group)
  OBVIOUS
<1>2. PICK s : s = group[1]
  OBVIOUS
<1>3. s \in DOMAIN library.shaders /\ s \in ToSet(group)
  BY <1>1, <1>2, SeqTypes
<1>4. PICK x : x = library.shaders[s].full
  OBVIOUS
<1>5. x \in Nat /\ x > 0
  BY <1>3, <1>4, ShaderTypes
<1>6. PICK y : y = SizeOf(library, group)
  OBVIOUS
<1>7. y \in Nat /\ MaxGroupSize \in Nat /\ MaxGroupSize > 0
  BY <1>6, SizePositive, MaxGroupSizeAssumption
<1>8. y <= MaxGroupSize \/ y = x
  <2>1. CASE y <= MaxGroupSize
    BY <2>1
  <2>2. CASE Len(group) = 1
    <3>1. SubSeq(group, 1, 0) = <<>> /\ SubSeq(group, 1, 1) = group
      BY <2>2
    <3>2. 0 \in 0..Len(group) /\ 0 < Len(group) /\ 0 + 1 = 1
      BY <1>1
    <3>3. SizeOf(library, SubSeq(group, 1, 0 + 1))
            = SizeOf(library, SubSeq(group, 1, 0)) + library.shaders[group[0 + 1]].full
      BY <3>2, SizeOfPrefix
    <3>4. SizeOf(library, <<>>) = 0
      BY SizeOfNone
    <3>5. SubSeq(group, 1, 0 + 1) = group /\ group[0 + 1] = s
      BY <1>2, <3>1, <3>2
    <3>6. y = 0 + x
      BY <1>4, <1>6, <3>1, <3>3, <3>4, <3>5
    <3> QED
      BY <1>5, <3>6
  <2> QED
    BY <1>6, <2>1, <2>2
<1>9. y < MaxGroupSize + x
  BY <1>5, <1>7, <1>8
<1> QED
  BY <1>3, <1>4, <1>6, <1>9 DEF Bounded

\* The groups that a group is cut into have its shaders and are not too large.
LEMMA CutSplits ==
  ASSUME NEW library, IsLibrary(library), NEW group \in Seq(DOMAIN library.shaders),
         Distinct(group), group # <<>>, NEW gs, gs = SplitBySize(library, group)
  PROVE  /\ Splits(gs, DOMAIN library.shaders, ToSet(group)) /\ NoneEmpty(gs)
         /\ \A g \in 1..Len(gs) : Bounded(library, gs[g])
<1>1. PICK D : D = DOMAIN library.shaders
  OBVIOUS
<1>2. CASE SizeOf(library, group) <= MaxGroupSize \/ Len(group) = 1
  <2>1. gs = <<group>>
    BY <1>2 DEF SplitBySize
  <2>2. Splits(<<group>>, D, ToSet(group)) /\ Len(<<group>>) = 1 /\ <<group>>[1] = group
    BY <1>1, OneGroup
  <2>3. \A g \in 1..1 : g = 1
    OBVIOUS
  <2>4. Bounded(library, group)
    BY <1>2, WholeBounded
  <2> QED
    BY <1>1, <2>1, <2>2, <2>3, <2>4 DEF NoneEmpty
<1>3. CASE ~ (SizeOf(library, group) <= MaxGroupSize \/ Len(group) = 1)
  <2>1. PICK list : list = Descending(library, group)
    OBVIOUS
  <2>2. PICK m : m = NewGroups(library, group)
    OBVIOUS
  <2>3. gs = Spread(library, list, m)
    BY <1>3, <2>1, <2>2 DEF SplitBySize
  <2>4. list \in Seq(D) /\ SameElements(group, list) /\ SizeOf(library, list) = SizeOf(library, group)
    BY <1>1, <2>1, SortedSame, SortedSize DEF Descending
  <2>5. Len(list) = Len(group) /\ ToSet(list) = ToSet(group) /\ Distinct(list)
    BY <2>4 DEF SameElements
  <2>6. Enough(library, list, m)
    BY <2>2, <2>4, <2>5, EnoughGroups
  <2>7. SpreadSoFar(library, list, m, Len(list), gs)
    BY <1>1, <2>3, <2>4, <2>5, <2>6, SpreadSplits
  <2>8. m \in Nat /\ m <= Len(list) /\ Len(gs) = m /\ Len(list) \in Nat
    BY <2>4, <2>6, <2>7 DEF Enough, SpreadSoFar
  <2>9. \A g \in 1..m : gs[g] # <<>>
    <3>1. \A g \in 1..m : g <= Len(list)
      BY <2>8
    <3> QED
      BY <2>7, <3>1 DEF SpreadSoFar
  <2>10. \A g \in 1..m : Bounded(library, gs[g])
    BY <2>7, <2>9 DEF SpreadSoFar
  <2>11. Splits(gs, D, ToSet(group))
    <3>1. ToSet(list) = {list[k] : k \in 1..Len(list)}
      BY <2>4, SeqTypes
    <3> QED
      BY <1>1, <2>5, <2>7, <3>1 DEF SpreadSoFar
  <2> QED
    BY <1>1, <2>8, <2>9, <2>10, <2>11 DEF NoneEmpty
<1> QED
  BY <1>2, <1>3

\* Groups with the same shaders.
Alikes(library, gs, hs) ==
  /\ Len(hs) = Len(gs)
  /\ \A g \in 1..Len(gs) : /\ ToSet(hs[g]) = ToSet(gs[g]) /\ Len(hs[g]) = Len(gs[g])
                           /\ SizeOf(library, hs[g]) = SizeOf(library, gs[g])

\* In another order they are the same groups.
LEMMA OrderedSplits ==
  ASSUME NEW library, IsLibrary(library), NEW S, NEW gs, Splits(gs, DOMAIN library.shaders, S),
         NEW hs, hs = [g \in DOMAIN gs |-> Ascending(library, gs[g])]
  PROVE  Splits(hs, DOMAIN library.shaders, S) /\ Alikes(library, gs, hs)
<1>1. PICK D : D = DOMAIN library.shaders
  OBVIOUS
<1>2. PICK R : R = Seq(D)
  OBVIOUS
<1>3. PICK N : N = Len(gs)
  OBVIOUS
<1>4. gs \in Seq(R) /\ N \in Nat /\ DOMAIN gs = 1..N /\ \A g \in 1..N : gs[g] \in R
  BY <1>1, <1>2, <1>3 DEF Splits
<1>5. \A g \in 1..N : hs[g] = Ascending(library, gs[g])
  BY <1>4
<1>6. \A g \in 1..N : /\ hs[g] \in R /\ SameElements(gs[g], hs[g])
                      /\ SizeOf(library, hs[g]) = SizeOf(library, gs[g])
  BY <1>1, <1>2, <1>4, <1>5, SortedSame, SortedSize DEF Ascending
<1>7. \A g \in 1..N : /\ ToSet(hs[g]) = ToSet(gs[g]) /\ Len(hs[g]) = Len(gs[g])
                      /\ Distinct(gs[g]) => Distinct(hs[g])
  BY <1>6 DEF SameElements
<1>8. hs \in Seq(R) /\ Len(hs) = N
  <2>1. hs \in [1..N -> R]
    BY <1>4, <1>5, <1>6
  <2> QED
    BY <1>4, <2>1
<1>9. /\ \A g \in 1..N : Distinct(gs[g]) /\ ToSet(gs[g]) \subseteq S
      /\ \A g, h \in 1..N : \A s \in S : s \in ToSet(gs[g]) /\ s \in ToSet(gs[h]) => g = h
      /\ \A s \in S : \E g \in 1..N : s \in ToSet(gs[g])
  BY <1>3 DEF Splits
<1>10. Splits(hs, D, S)
  BY <1>2, <1>7, <1>8, <1>9 DEF Splits
<1> QED
  BY <1>1, <1>3, <1>6, <1>7, <1>8, <1>10 DEF Alikes

\* What the groups of a library are.
Grouped(library, gs) ==
  /\ Splits(gs, DOMAIN library.shaders, DOMAIN library.shaders) /\ NoneEmpty(gs)
  /\ \A g \in 1..Len(gs) :
       /\ \A s, t \in ToSet(gs[g]) : MapsOf(library, s) = MapsOf(library, t)
       /\ Bounded(library, gs[g])

\* They are that.
THEOREM GroupsOfLibrary ==
  ASSUME NEW library, IsLibrary(library), NEW format
  PROVE  Grouped(library, GroupsOf(library, format))
<1>1. PICK D : D = DOMAIN library.shaders
  OBVIOUS
<1>2. PICK R : R = Seq(D)
  OBVIOUS
<1>3. PICK mapsOf : mapsOf = [s \in D |-> MapsOf(library, s)]
  OBVIOUS
<1>4. PICK all : all = [s \in D |-> s]
  OBVIOUS
<1>5. PICK list : list = Sorted(all, MapOrder(mapsOf))
  OBVIOUS
<1>6. all \in Seq(D) /\ Distinct(all) /\ ToSet(all) = D
  <2>1. PICK n \in Nat : D = 1..n
    BY <1>1, ShaderTypes
  <2>2. all \in Seq(D) /\ Len(all) = n
    BY <1>4, <2>1
  <2>3. \A s \in 1..n : all[s] = s
    BY <1>4, <2>1
  <2>4. ToSet(all) = {all[k] : k \in 1..n}
    BY <2>2, SeqTypes
  <2> QED
    BY <2>1, <2>2, <2>3, <2>4 DEF Distinct
<1>7. list \in Seq(D) /\ Distinct(list) /\ ToSet(list) = D
  BY <1>5, <1>6, SortedSame DEF SameElements
<1>8. PICK streaks : streaks = StreaksOf(list, mapsOf)
  OBVIOUS
<1>9. /\ Splits(streaks, D, D) /\ NoneEmpty(streaks)
      /\ \A g \in 1..Len(streaks) : Alike(mapsOf, streaks[g])
  BY <1>7, <1>8, StreaksSplit
<1>10. PICK apart : apart = [g \in DOMAIN streaks |-> WithoutRaytracing(library, format, streaks[g])]
  OBVIOUS
<1>11. PICK kept : kept = FlattenSeq(apart)
  OBVIOUS
<1>12. Splits(kept, D, D) /\ NoneEmpty(kept) /\ \A g \in 1..Len(kept) : Alike(mapsOf, kept[g])
  <2>1. PICK N : N = Len(streaks)
    OBVIOUS
  <2>2. streaks \in Seq(R) /\ N \in Nat /\ DOMAIN streaks = 1..N
    BY <1>2, <1>9, <2>1 DEF Splits
  <2>3. \A g \in 1..N : streaks[g] \in Seq(D) /\ Distinct(streaks[g]) /\ streaks[g] # <<>>
    BY <1>2, <1>9, <2>1, <2>2 DEF Splits, NoneEmpty
  <2>4. \A g \in 1..N : apart[g] = WithoutRaytracing(library, format, streaks[g])
    BY <1>10, <2>2
  <2>5. \A g \in 1..N : Splits(apart[g], D, ToSet(streaks[g])) /\ NoneEmpty(apart[g])
    BY <2>3, <2>4, RaytracingSplits
  <2>6. \A g \in 1..N : apart[g] \in Seq(R)
    BY <1>2, <2>5 DEF Splits
  <2>7. apart \in Seq(Seq(R)) /\ Len(apart) = N
    <3>1. PICK Q : Q = Seq(R)
      OBVIOUS
    <3>2. apart \in [1..N -> Q]
      BY <1>10, <2>2, <2>6, <3>1
    <3> QED
      BY <2>2, <3>1, <3>2
  <2>8. Splits(kept, D, D) /\ PartsOf(kept, streaks, apart)
    <3>1. SplitsEach(apart, streaks, D)
      BY <1>2, <2>1, <2>5, <2>7 DEF SplitsEach
    <3> QED
      BY <1>9, <1>11, <3>1, EachSplits
  <2>9. \A g \in 1..N : \A j \in 1..Len(apart[g]) :
          apart[g][j] # <<>> /\ ToSet(apart[g][j]) \subseteq ToSet(streaks[g])
    BY <2>5 DEF Splits, NoneEmpty
  <2>10. ASSUME NEW p \in 1..Len(kept)
         PROVE  kept[p] # <<>> /\ Alike(mapsOf, kept[p])
    <3>1. PICK g \in 1..N : \E j \in 1..Len(apart[g]) : kept[p] = apart[g][j]
      BY <2>1, <2>8 DEF PartsOf
    <3>2. PICK j \in 1..Len(apart[g]) : kept[p] = apart[g][j]
      BY <3>1
    <3>3. kept[p] # <<>> /\ ToSet(kept[p]) \subseteq ToSet(streaks[g]) /\ Alike(mapsOf, streaks[g])
      BY <1>9, <2>1, <2>9, <3>2
    <3> QED
      BY <3>3 DEF Alike
  <2> QED
    BY <2>8, <2>10 DEF NoneEmpty
<1>13. PICK cuts : cuts = [g \in DOMAIN kept |-> SplitBySize(library, kept[g])]
  OBVIOUS
<1>14. PICK cut : cut = FlattenSeq(cuts)
  OBVIOUS
<1>15. /\ Splits(cut, D, D) /\ NoneEmpty(cut)
       /\ \A g \in 1..Len(cut) : Alike(mapsOf, cut[g]) /\ Bounded(library, cut[g])
  <2>1. PICK N : N = Len(kept)
    OBVIOUS
  <2>2. kept \in Seq(R) /\ N \in Nat /\ DOMAIN kept = 1..N
    BY <1>2, <1>12, <2>1 DEF Splits
  <2>3. \A g \in 1..N : kept[g] \in Seq(D) /\ Distinct(kept[g]) /\ kept[g] # <<>>
    BY <1>2, <1>12, <2>1, <2>2 DEF Splits, NoneEmpty
  <2>4. \A g \in 1..N : cuts[g] = SplitBySize(library, kept[g])
    BY <1>13, <2>2
  <2>5. \A g \in 1..N : /\ Splits(cuts[g], D, ToSet(kept[g])) /\ NoneEmpty(cuts[g])
                        /\ \A j \in 1..Len(cuts[g]) : Bounded(library, cuts[g][j])
    BY <1>1, <2>3, <2>4, CutSplits
  <2>6. \A g \in 1..N : cuts[g] \in Seq(R)
    BY <1>2, <2>5 DEF Splits
  <2>7. cuts \in Seq(Seq(R)) /\ Len(cuts) = N
    <3>1. PICK Q : Q = Seq(R)
      OBVIOUS
    <3>2. cuts \in [1..N -> Q]
      BY <1>13, <2>2, <2>6, <3>1
    <3> QED
      BY <2>2, <3>1, <3>2
  <2>8. Splits(cut, D, D) /\ PartsOf(cut, kept, cuts)
    <3>1. SplitsEach(cuts, kept, D)
      BY <1>2, <2>1, <2>5, <2>7 DEF SplitsEach
    <3> QED
      BY <1>12, <1>14, <3>1, EachSplits
  <2>9. \A g \in 1..N : \A j \in 1..Len(cuts[g]) :
          /\ cuts[g][j] # <<>> /\ ToSet(cuts[g][j]) \subseteq ToSet(kept[g])
          /\ Bounded(library, cuts[g][j])
    BY <2>5, ZenonT(60) DEF Splits, NoneEmpty
  <2>10. ASSUME NEW p \in 1..Len(cut)
         PROVE  cut[p] # <<>> /\ Alike(mapsOf, cut[p]) /\ Bounded(library, cut[p])
    <3>1. PICK g \in 1..N : \E j \in 1..Len(cuts[g]) : cut[p] = cuts[g][j]
      BY <2>1, <2>8 DEF PartsOf
    <3>2. PICK j \in 1..Len(cuts[g]) : cut[p] = cuts[g][j]
      BY <3>1
    <3>3. /\ cut[p] # <<>> /\ ToSet(cut[p]) \subseteq ToSet(kept[g]) /\ Alike(mapsOf, kept[g])
          /\ Bounded(library, cut[p])
      BY <1>12, <2>1, <2>9, <3>2
    <3> QED
      BY <3>3, SMTT(60) DEF Alike
  <2> QED
    BY <2>8, <2>10 DEF NoneEmpty
<1>16. PICK gs : gs = [g \in DOMAIN cut |-> Ascending(library, cut[g])]
  OBVIOUS
<1>17. gs = GroupsOf(library, format)
  BY <1>1, <1>3, <1>4, <1>5, <1>8, <1>10, <1>11, <1>13, <1>14, <1>16 DEF GroupsOf, Streaks
<1>18. Splits(gs, D, D) /\ Alikes(library, cut, gs)
  BY <1>1, <1>15, <1>16, OrderedSplits
<1>a. Len(gs) = Len(cut)
  BY <1>18 DEF Alikes
<1>19. ASSUME NEW g \in 1..Len(gs)
       PROVE  /\ gs[g] # <<>>
              /\ \A s, t \in ToSet(gs[g]) : MapsOf(library, s) = MapsOf(library, t)
              /\ Bounded(library, gs[g])
  <2>1. cut[g] # <<>> /\ Alike(mapsOf, cut[g]) /\ Bounded(library, cut[g])
    BY <1>15, <1>a DEF NoneEmpty
  <2>2. /\ ToSet(gs[g]) = ToSet(cut[g]) /\ Len(gs[g]) = Len(cut[g])
        /\ SizeOf(library, gs[g]) = SizeOf(library, cut[g])
    BY <1>18, <1>a DEF Alikes
  <2>3. Bounded(library, gs[g])
    BY <2>1, <2>2 DEF Bounded
  <2>4. ToSet(gs[g]) \subseteq D
    BY <1>18 DEF Splits
  <2>5. \A s, t \in ToSet(gs[g]) : MapsOf(library, s) = MapsOf(library, t)
    <3>1. \A s \in ToSet(gs[g]) : mapsOf[s] = MapsOf(library, s)
      BY <1>3, <2>4
    <3> QED
      BY <2>1, <2>2, <3>1 DEF Alike
  <2>6. gs[g] # <<>>
    <3>1. cut[g] \in Seq(D) /\ gs[g] \in Seq(D)
      BY <1>15, <1>18, <1>a DEF Splits
    <3>2. Len(cut[g]) # 0
      BY <2>1, <3>1
    <3> QED
      BY <2>2, <3>1, <3>2
  <2> QED
    BY <2>3, <2>5, <2>6
<1> QED
  BY <1>1, <1>17, <1>18, <1>19 DEF Grouped, NoneEmpty

\* A set of numbers that is not empty has its minimum.
LEMMA MinOf ==
  ASSUME NEW T, T \subseteq Nat, T # {}
  PROVE  Min(T) \in T /\ \A m \in T : Min(T) <= m
<1>1. \E n \in T : \A m \in T : n <= m
  BY LeastNumber
<1>2. PICK x : x = CHOOSE n \in T : \A m \in T : n <= m
  OBVIOUS
<1>3. x \in T /\ \A m \in T : x <= m
  BY <1>1, <1>2
<1>4. Min(T) = x
  BY <1>2 DEF Min
<1> QED
  BY <1>3, <1>4

-----------------------------------------------------------------------------
(* The header of an archive.                                               *)

\* Indices that go on where others end, and a group that lies among them.
Extends(D, old, new) ==
  new \in Seq(D) /\ Len(old) <= Len(new) /\ \A k \in 1..Len(old) : new[k] = old[k]
LiesAt(indices, first, group) ==
  /\ first \in Nat /\ first + Len(group) <= Len(indices)
  /\ \A k \in 1..Len(group) : indices[first + k] = group[k]

\* What goes on where the first ends goes on where one before it ended, and what lies
\* there still does.
LEMMA ExtendsOn ==
  ASSUME NEW D, NEW a \in Seq(D), NEW b, Extends(D, a, b), NEW c, Extends(D, b, c)
  PROVE  Extends(D, a, c)
<1>1. /\ Len(a) \in Nat /\ Len(b) \in Nat /\ Len(c) \in Nat /\ c \in Seq(D)
      /\ Len(a) <= Len(b) /\ Len(b) <= Len(c)
  BY DEF Extends
<1>2. \A k \in 1..Len(a) : k \in 1..Len(b)
  BY <1>1
<1>3. \A k \in 1..Len(a) : c[k] = a[k]
  BY <1>2 DEF Extends
<1>4. Len(a) <= Len(c)
  BY <1>1
<1> QED
  BY <1>1, <1>3, <1>4 DEF Extends

\* Groups stay where they are.
LEMMA LiesOn ==
  ASSUME NEW D, NEW a \in Seq(D), NEW b, Extends(D, a, b),
         NEW group \in Seq(D), NEW first, LiesAt(a, first, group)
  PROVE  LiesAt(b, first, group)
<1>1. /\ Len(a) \in Nat /\ Len(b) \in Nat /\ Len(a) <= Len(b) /\ first \in Nat
      /\ Len(group) \in Nat /\ first + Len(group) <= Len(a)
  BY DEF Extends, LiesAt
<1>2. \A k \in 1..Len(group) : first + k \in 1..Len(a)
  BY <1>1
<1>3. \A k \in 1..Len(group) : b[first + k] = group[k]
  BY <1>2 DEF Extends, LiesAt
<1> QED
  BY <1>1, <1>3 DEF LiesAt

\* A range of the indices is the group that lies there.
LEMMA RangeIs ==
  ASSUME NEW D, NEW indices \in Seq(D), NEW group \in Seq(D), NEW entry,
         entry.count = Len(group), LiesAt(indices, entry.first, group)
  PROVE  RangeOf(indices, entry) = group
<1>1. PICK first : first = entry.first
  OBVIOUS
<1>2. PICK N : N = Len(group)
  OBVIOUS
<1>3. first \in Nat /\ N \in Nat /\ first + N <= Len(indices)
  BY <1>1, <1>2 DEF LiesAt
<1>4. PICK part : part = SubSeq(indices, first + 1, first + N)
  OBVIOUS
<1>5. part \in Seq(D) /\ Len(part) = N /\ \A k \in 1..N : part[k] = indices[first + k]
  BY <1>3, <1>4
<1>6. \A k \in 1..N : part[k] = group[k]
  BY <1>1, <1>2, <1>5 DEF LiesAt
<1>7. part = [k \in 1..N |-> part[k]] /\ group = [k \in 1..N |-> group[k]]
  BY <1>2, <1>5
<1>8. [k \in 1..N |-> part[k]] = [k \in 1..N |-> group[k]]
  BY <1>6
<1>9. part = group
  BY <1>7, <1>8
<1> QED
  BY <1>1, <1>2, <1>4, <1>9 DEF RangeOf

\* A group that has been placed is among the indices.
LEMMA PlacedThere ==
  ASSUME NEW D, NEW indices \in Seq(D), NEW group \in Seq(D), NEW checked,
         NEW place, place = PlaceOf(indices, group, checked), place.result = "ok"
  PROVE  Extends(D, indices, place.indices) /\ LiesAt(place.indices, place.first, group)
<1>1. PICK N : N = Len(group)
  OBVIOUS
<1>2. PICK L : L = Len(indices)
  OBVIOUS
<1>3. N \in Nat /\ L \in Nat
  BY <1>1, <1>2
<1>4. PICK found : found = {k \in 1..(L - N + 1) : \A i \in 1..N : indices[k + i - 1] = group[i]}
  OBVIOUS
<1>5. PICK panics : panics = (L - N + 1 < 0 \/ (checked /\ L - N + 1 = 0))
  OBVIOUS
<1>6. place = IF panics THEN Panicked
              ELSE IF found # {} THEN [result |-> "ok", first |-> Min(found) - 1, indices |-> indices]
              ELSE [result |-> "ok", first |-> L, indices |-> indices \o group]
  BY <1>1, <1>2, <1>4, <1>5 DEF PlaceOf, Placed
<1>7. ~panics
  BY <1>6 DEF Panicked
<1>8. CASE found # {}
  <2>1. place.first = Min(found) - 1 /\ place.indices = indices
    BY <1>6, <1>7, <1>8
  <2>2. found \subseteq Nat
    BY <1>3, <1>4
  <2>3. PICK m : m = Min(found)
    OBVIOUS
  <2>4. m \in found
    BY <1>8, <2>2, <2>3, MinOf
  <2>5. m \in 1..(L - N + 1) /\ \A i \in 1..N : indices[m + i - 1] = group[i]
    BY <1>4, <2>4
  <2>6. PICK f : f = m - 1
    OBVIOUS
  <2>7. f \in Nat /\ f + N <= L /\ \A i \in 1..N : m + i - 1 = f + i
    BY <1>3, <2>5, <2>6
  <2>8. \A i \in 1..N : indices[f + i] = group[i]
    BY <2>5, <2>7
  <2>9. LiesAt(indices, f, group)
    BY <1>1, <1>2, <2>7, <2>8 DEF LiesAt
  <2>10. Extends(D, indices, indices)
    BY DEF Extends
  <2> QED
    BY <2>1, <2>3, <2>6, <2>9, <2>10
<1>9. CASE found = {}
  <2>1. place.first = L /\ place.indices = indices \o group
    BY <1>6, <1>7, <1>9
  <2>2. PICK new : new = indices \o group
    OBVIOUS
  <2>3. /\ new \in Seq(D) /\ Len(new) = L + N /\ (\A k \in 1..L : new[k] = indices[k])
        /\ \A k \in 1..N : new[L + k] = group[k]
    BY <1>1, <1>2, <2>2
  <2>4. Extends(D, indices, new)
    BY <1>2, <1>3, <2>3 DEF Extends
  <2>5. LiesAt(new, L, group)
    BY <1>1, <1>3, <2>3 DEF LiesAt
  <2> QED
    BY <2>1, <2>2, <2>4, <2>5
<1> QED
  BY <1>8, <1>9

\* The entry of a group.
AnyEntry ==
  [first : Nat, count : Nat, full : Nat, packed : Nat, id : Seq((DOMAIN FullSize) \X Nat)]
EntryOf(library, indices, group, e) ==
  /\ LiesAt(indices, e.first, group) /\ e.count = Len(group)
  /\ e.full = SizeOf(library, group) /\ e.id = IdOf(library, group)

\* The header without groups, a step, and the header with the first n groups.
GroupWith(groups, s) == CHOOSE g \in DOMAIN groups : s \in ToSet(groups[g])
OffsetIn(library, group, s) ==
  SizeOf(library, SubSeq(group, 1, (CHOOSE i \in DOMAIN group : group[i] = s) - 1))
NoGroups(library, groups) ==
  [result |-> "ok", maps |-> library.maps, indices |-> library.indices, groups |-> <<>>,
   shaders |-> [s \in DOMAIN library.shaders |->
                  [hash |-> library.shaders[s].hash, frequency |-> library.shaders[s].frequency,
                   group |-> GroupWith(groups, s),
                   offset |-> OffsetIn(library, groups[GroupWith(groups, s)], s)]]]
AddEntry(library, checked, header, group) ==
  Let(<<header, group>>, LAMBDA pair : WithEntry(library, checked, pair[1], pair[2]))
Headers(f, library, groups, checked, n) ==
  f = [k \in 0..n |-> IF k = 0 THEN NoGroups(library, groups) ELSE AddEntry(library, checked, f[k - 1], groups[k])]

\* There are such headers, and the last is the result.
LEMMA HeaderSteps ==
  ASSUME NEW library, NEW groups, NEW checked, Len(groups) \in Nat
  PROVE  \E f : Headers(f, library, groups, checked, Len(groups)) /\ HeaderOf(library, groups, checked) = f[Len(groups)]
<1> DEFINE T == {n \in 0..Len(groups) : \E g : Headers(g, library, groups, checked, n)}
<1>1. 0 \in T
  <2>1. Headers([k \in 0..0 |-> NoGroups(library, groups)], library, groups, checked, 0)
    BY DEF Headers
  <2> QED
    BY <2>1
<1>2. ASSUME NEW n \in 0..(Len(groups) - 1), n \in T
      PROVE  n + 1 \in T
  <2>1. PICK g : Headers(g, library, groups, checked, n)
    BY <1>2
  <2>2. PICK h : h = [k \in 0..(n + 1) |->
                        IF k = n + 1 THEN AddEntry(library, checked, g[n], groups[n + 1]) ELSE g[k]]
    OBVIOUS
  <2>3. Headers(h, library, groups, checked, n + 1)
    <3>1. \A k \in 0..(n + 1) : k = n + 1 \/ k \in 0..n
      OBVIOUS
    <3>2. \A k \in 0..n : k # n + 1 /\ k \in 0..(n + 1) /\ (k # 0 => k - 1 \in 0..n)
      OBVIOUS
    <3>3. \A k \in 0..n : h[k] = g[k]
      BY <2>2, <3>2
    <3>4. ASSUME NEW k \in 0..n
          PROVE  h[k] = IF k = 0 THEN NoGroups(library, groups) ELSE AddEntry(library, checked, h[k - 1], groups[k])
      BY <2>1, <3>2, <3>3 DEF Headers
    <3>5. h[n + 1] = AddEntry(library, checked, h[n], groups[n + 1]) /\ n + 1 # 0 /\ (n + 1) - 1 = n
      BY <2>2, <3>2, <3>3
    <3>6. \A k \in 0..(n + 1) :
            h[k] = IF k = 0 THEN NoGroups(library, groups) ELSE AddEntry(library, checked, h[k - 1], groups[k])
      BY <3>1, <3>4, <3>5
    <3> QED
      BY <2>2, <3>6 DEF Headers
  <2>4. n + 1 \in 0..Len(groups)
    OBVIOUS
  <2> QED
    BY <2>3, <2>4
<1>3. Len(groups) \in T
  <2> HIDE DEF T
  <2>1. 0..Len(groups) \subseteq T
    BY <1>1, <1>2, Induction
  <2> QED
    BY <2>1
<1>4. \E f : Headers(f, library, groups, checked, Len(groups))
  BY <1>3
<1>5. HeaderOf(library, groups, checked) = (CHOOSE f : Headers(f, library, groups, checked, Len(groups)))[Len(groups)]
  BY DEF Headers, HeaderOf, Fold, AddEntry, NoGroups, GroupWith, OffsetIn
<1> QED
  BY <1>4, <1>5

\* A step is WithEntry.
LEMMA EntryAdded ==
  ASSUME NEW library, NEW checked, NEW header, NEW group
  PROVE  AddEntry(library, checked, header, group) = WithEntry(library, checked, header, group)
  BY DEF AddEntry, Let, Only

\* A header with the entries of the first n groups, unless it panicked.
HeaderSoFar(library, groups, header, n) ==
  header.result = "ok" =>
    /\ header = [result |-> "ok", maps |-> library.maps, indices |-> header.indices,
                 groups |-> header.groups, shaders |-> NoGroups(library, groups).shaders]
    /\ Extends(DOMAIN library.shaders, library.indices, header.indices)
    /\ header.groups \in Seq(AnyEntry) /\ Len(header.groups) = n
    /\ \A g \in 1..n : EntryOf(library, header.indices, groups[g], header.groups[g])

\* A name is made of hashes and sizes.
LEMMA IdTypes ==
  ASSUME NEW library, IsLibrary(library), NEW group \in Seq(DOMAIN library.shaders)
  PROVE  IdOf(library, group) \in Seq((DOMAIN FullSize) \X Nat)
<1>1. PICK N : N = Len(group)
  OBVIOUS
<1>2. N \in Nat /\ DOMAIN group = 1..N /\ \A k \in 1..N : group[k] \in DOMAIN library.shaders
  BY <1>1
<1>3. PICK R : R = (DOMAIN FullSize) \X Nat
  OBVIOUS
<1>4. \A k \in 1..N : <<library.shaders[group[k]].hash, library.shaders[group[k]].full>> \in R
  BY <1>2, <1>3, ShaderTypes
<1>5. PICK id : id = IdOf(library, group)
  OBVIOUS
<1>6. id = [k \in 1..N |-> <<library.shaders[group[k]].hash, library.shaders[group[k]].full>>]
  BY <1>2, <1>5 DEF IdOf
<1>7. id \in [1..N -> R]
  BY <1>4, <1>6
<1>8. id \in Seq(R)
  BY <1>2, <1>7
<1> QED
  BY <1>3, <1>5, <1>8

\* One entry more.
LEMMA EntryKeeps ==
  ASSUME NEW library, IsLibrary(library), NEW groups \in Seq(Seq(DOMAIN library.shaders)),
         NEW checked, NEW n \in 0..(Len(groups) - 1), NEW header, HeaderSoFar(library, groups, header, n),
         NEW next, next = WithEntry(library, checked, header, groups[n + 1])
  PROVE  HeaderSoFar(library, groups, next, n + 1)
<1>1. PICK D : D = DOMAIN library.shaders
  OBVIOUS
<1>2. PICK R : R = Seq(D)
  OBVIOUS
<1>3. groups \in Seq(R) /\ Len(groups) \in Nat /\ n \in Nat /\ \A g \in 1..Len(groups) : groups[g] \in R
  BY <1>1, <1>2
<1>4. n + 1 \in 1..Len(groups) /\ \A g \in 1..n : g \in 1..Len(groups)
  BY <1>3
<1>5. PICK group : group = groups[n + 1]
  OBVIOUS
<1>6. group \in Seq(D)
  BY <1>2, <1>3, <1>4, <1>5
<1>7. PICK place : place = PlaceOf(header.indices, group, checked)
  OBVIOUS
<1>8. PICK e : e = [first |-> place.first, count |-> Len(group), full |-> SizeOf(library, group),
                    packed |-> 0, id |-> IdOf(library, group)]
  OBVIOUS
<1>9. next = IF header.result # "ok" THEN header
             ELSE IF place.result # "ok" THEN Panicked
             ELSE [header EXCEPT !.indices = place.indices, !.groups = Append(@, e)]
  BY <1>5, <1>7, <1>8 DEF WithEntry
<1>10. SUFFICES ASSUME next.result = "ok" PROVE HeaderSoFar(library, groups, next, n + 1)
  BY DEF HeaderSoFar
<1>11. header.result = "ok" /\ place.result = "ok"
  BY <1>9, <1>10 DEF Panicked
<1>12. /\ header = [result |-> "ok", maps |-> library.maps, indices |-> header.indices,
                    groups |-> header.groups, shaders |-> NoGroups(library, groups).shaders]
       /\ Extends(D, library.indices, header.indices)
       /\ header.groups \in Seq(AnyEntry) /\ Len(header.groups) = n
       /\ \A g \in 1..n : EntryOf(library, header.indices, groups[g], header.groups[g])
  BY <1>1, <1>11 DEF HeaderSoFar
<1>13. header.indices \in Seq(D) /\ library.indices \in Seq(D)
  BY <1>1, <1>12 DEF Extends, IsLibrary
<1>14. Extends(D, header.indices, place.indices) /\ LiesAt(place.indices, place.first, group)
  BY <1>6, <1>7, <1>11, <1>13, PlacedThere
<1>15. PICK more : more = Append(header.groups, e)
  OBVIOUS
<1>16. next = [header EXCEPT !.indices = place.indices, !.groups = more]
  BY <1>9, <1>11, <1>15
<1>17. PICK sh : sh = NoGroups(library, groups).shaders
  OBVIOUS
<1>18. next = [result |-> "ok", maps |-> library.maps, indices |-> place.indices,
               groups |-> more, shaders |-> sh]
  <2>1. PICK mp : mp = library.maps
    OBVIOUS
  <2>2. PICK ix : ix = header.indices
    OBVIOUS
  <2>3. PICK gs : gs = header.groups
    OBVIOUS
  <2>4. PICK h : h = [result |-> "ok", maps |-> mp, indices |-> ix, groups |-> gs, shaders |-> sh]
    OBVIOUS
  <2>5. header = h
    BY <1>12, <1>17, <2>1, <2>2, <2>3, <2>4
  <2>6. next = [h EXCEPT !.indices = place.indices, !.groups = more]
    BY <1>16, <2>5
  <2>7. next \in [result : {"ok"}, maps : {mp}, indices : {place.indices}, groups : {more},
                  shaders : {sh}]
    BY <2>4, <2>6
  <2>8. next = [result |-> "ok", maps |-> mp, indices |-> place.indices, groups |-> more,
                shaders |-> sh]
    BY <2>7
  <2> QED
    BY <2>1, <2>8
<1>19. e \in AnyEntry
  <2>1. place.first \in Nat /\ Len(group) \in Nat
    BY <1>6, <1>14 DEF LiesAt
  <2>2. SizeOf(library, group) \in Nat
    <3>1. group = <<>> \/ group # <<>>
      OBVIOUS
    <3> QED
      BY <1>1, <1>6, <3>1, SizePositive, SizeOfNone
  <2>3. IdOf(library, group) \in Seq((DOMAIN FullSize) \X Nat)
    BY <1>1, <1>6, IdTypes
  <2> QED
    BY <1>8, <2>1, <2>2, <2>3 DEF AnyEntry
<1>20. /\ more \in Seq(AnyEntry) /\ Len(more) = n + 1 /\ more[n + 1] = e
       /\ \A g \in 1..n : more[g] = header.groups[g]
  BY <1>12, <1>15, <1>19
<1>21. Extends(D, library.indices, place.indices)
  BY <1>12, <1>13, <1>14, ExtendsOn
<1>22. \A g \in 1..n : EntryOf(library, place.indices, groups[g], more[g])
  <2>1. TAKE g \in 1..n
  <2>2. EntryOf(library, header.indices, groups[g], more[g]) /\ groups[g] \in Seq(D)
    BY <1>2, <1>3, <1>4, <1>12, <1>20
  <2>3. LiesAt(place.indices, more[g].first, groups[g])
    BY <1>13, <1>14, <2>2, LiesOn DEF EntryOf
  <2> QED
    BY <2>2, <2>3 DEF EntryOf
<1>23. EntryOf(library, place.indices, groups[n + 1], more[n + 1])
  <2>1. /\ e.first = place.first /\ e.count = Len(group) /\ e.full = SizeOf(library, group)
        /\ e.id = IdOf(library, group)
    BY <1>8
  <2> QED
    BY <1>5, <1>14, <1>20, <2>1 DEF EntryOf
<1>24. \A g \in 1..(n + 1) : EntryOf(library, place.indices, groups[g], more[g])
  <2>1. \A g \in 1..(n + 1) : g \in 1..n \/ g = n + 1
    BY <1>3
  <2> QED
    BY <1>22, <1>23, <2>1
<1>25. next.indices = place.indices /\ next.groups = more
  BY <1>18
<1> QED
  BY <1>1, <1>17, <1>18, <1>20, <1>21, <1>24, <1>25 DEF HeaderSoFar

\* The header of a library that does not panic has the entries of all groups.
LEMMA HeaderHasGroups ==
  ASSUME NEW library, IsLibrary(library), NEW groups \in Seq(Seq(DOMAIN library.shaders)), NEW checked
  PROVE  HeaderSoFar(library, groups, HeaderOf(library, groups, checked), Len(groups))
<1>1. PICK N : N = Len(groups)
  OBVIOUS
<1>2. N \in Nat
  BY <1>1
<1>3. PICK f : Headers(f, library, groups, checked, N) /\ HeaderOf(library, groups, checked) = f[N]
  BY <1>1, <1>2, HeaderSteps
<1>4. /\ 0 \in 0..N /\ f[0] = NoGroups(library, groups)
      /\ \A n \in 0..(N - 1) : f[n + 1] = WithEntry(library, checked, f[n], groups[n + 1])
  <2>1. 0 \in 0..N /\ f[0] = NoGroups(library, groups)
    BY <1>2, <1>3 DEF Headers
  <2>2. \A n \in 0..(N - 1) : n + 1 \in 0..N /\ n + 1 # 0 /\ (n + 1) - 1 = n
    BY <1>2
  <2>3. \A n \in 0..(N - 1) : f[n + 1] = AddEntry(library, checked, f[n], groups[n + 1])
    BY <1>3, <2>2 DEF Headers
  <2> QED
    BY <2>1, <2>3, EntryAdded
<1> DEFINE I(n) == HeaderSoFar(library, groups, f[n], n)
           T == {n \in 0..N : I(n)}
<1>5. I(0)
  <2>1. PICK sh : sh = NoGroups(library, groups).shaders
    OBVIOUS
  <2>2. f[0] = [result |-> "ok", maps |-> library.maps, indices |-> library.indices,
                groups |-> <<>>, shaders |-> sh]
    BY <1>4, <2>1 DEF NoGroups
  <2>3. f[0].indices = library.indices /\ f[0].groups = <<>>
    BY <2>2
  <2>4. library.indices \in Seq(DOMAIN library.shaders)
    BY DEF IsLibrary
  <2>5. Extends(DOMAIN library.shaders, library.indices, library.indices)
    BY <2>4 DEF Extends
  <2>6. <<>> \in Seq(AnyEntry) /\ Len(<<>>) = 0 /\ \A g \in 1..0 : FALSE
    OBVIOUS
  <2> QED
    BY <2>1, <2>2, <2>3, <2>5, <2>6 DEF HeaderSoFar
<1>6. ASSUME NEW n \in 0..(N - 1), I(n)
      PROVE  I(n + 1)
  <2>1. n \in 0..(Len(groups) - 1)
    BY <1>1
  <2>2. HeaderSoFar(library, groups, f[n], n)
    BY <1>6
  <2>3. f[n + 1] = WithEntry(library, checked, f[n], groups[n + 1])
    BY <1>4
  <2> QED
    BY <2>1, <2>2, <2>3, EntryKeeps
<1>7. I(N)
  <2> HIDE DEF I
  <2>1. 0 \in T
    BY <1>4, <1>5
  <2>2. \A n \in 0..(N - 1) : n \in T => n + 1 \in T
    <3>1. \A n \in 0..(N - 1) : n + 1 \in 0..N
      BY <1>2
    <3> QED
      BY <1>6, <3>1
  <2> HIDE DEF T
  <2>3. 0..N \subseteq T
    BY <1>2, <2>1, <2>2, Induction
  <2>4. N \in 0..N
    BY <1>2
  <2>5. N \in T
    BY <2>3, <2>4
  <2> QED
    BY <2>5 DEF T
<1> QED
  BY <1>1, <1>3, <1>7

-----------------------------------------------------------------------------
(* The bytes of shaders and of groups.                                     *)

\* A part of a sequence is one, also when it ends before it starts.
LEMMA PartTyped ==
  ASSUME NEW S, NEW q \in Seq(S), NEW m \in Nat, NEW n \in Nat, n <= Len(q)
  PROVE  SubSeq(q, m + 1, n) \in Seq(S)
<1>1. CASE m <= n
  BY <1>1
<1>2. CASE ~ (m <= n)
  <2>1. 1..(1 + n - (m + 1)) = {}
    BY <1>2
  <2>2. SubSeq(q, m + 1, n) = [i \in 1..(1 + n - (m + 1)) |-> q[i + (m + 1) - 1]]
    BY DEF SubSeq
  <2>3. SubSeq(q, m + 1, n) = <<>>
    BY <2>1, <2>2
  <2> QED
    BY <2>3
<1> QED
  BY <1>1, <1>2

\* The code of a shader.
LEMMA CodeTyped == ASSUME NEW h \in DOMAIN FullSize PROVE Code(h) \in Seq(AnyByte)
<1>1. PICK n : n = FullSize[h]
  OBVIOUS
<1>2. n \in Nat
  BY <1>1, SizesAssumption
<1>3. <<h>> \in Seq(DOMAIN FullSize) /\ NoMethod \in Methods
  <2>1. <<h>> \in Seq(DOMAIN FullSize)
    OBVIOUS
  <2>2. NoMethod \in Methods
    BY DEF Methods
  <2> QED
    BY <2>1, <2>2
<1>4. \A i \in 1..n : Byte(<<h>>, NoMethod, i) \in AnyByte
  BY <1>3 DEF Byte, AnyByte
<1>5. PICK B : B = AnyByte
  OBVIOUS
<1>6. PICK c : c = [i \in 1..n |-> Byte(<<h>>, NoMethod, i)]
  OBVIOUS
<1>7. c \in [1..n -> B]
  BY <1>4, <1>5, <1>6
<1>8. c \in Seq(B)
  BY <1>2, <1>7
<1> QED
  BY <1>1, <1>5, <1>6, <1>8 DEF Code

\* How many bytes compression makes, one shader after the other.
PackedOf(of) == Fold(LAMBDA n, h : n + PackedSize[h], 0, of)
AddPacked(n, h) == Let(<<n, h>>, LAMBDA pair : pair[1] + PackedSize[pair[2]])
PackedSums(f, of, n) ==
  f = [k \in 0..n |-> IF k = 0 THEN 0 ELSE AddPacked(f[k - 1], of[k])]

\* There are such sums, and the last is the result.
LEMMA PackedSteps ==
  ASSUME NEW of, Len(of) \in Nat
  PROVE  \E f : PackedSums(f, of, Len(of)) /\ PackedOf(of) = f[Len(of)]
<1> DEFINE T == {n \in 0..Len(of) : \E g : PackedSums(g, of, n)}
<1>1. 0 \in T
  <2>1. PackedSums([k \in 0..0 |-> 0], of, 0)
    BY DEF PackedSums
  <2> QED
    BY <2>1
<1>2. ASSUME NEW n \in 0..(Len(of) - 1), n \in T
      PROVE  n + 1 \in T
  <2>1. PICK g : PackedSums(g, of, n)
    BY <1>2
  <2>2. PICK h : h = [k \in 0..(n + 1) |->
                        IF k = n + 1 THEN AddPacked(g[n], of[n + 1]) ELSE g[k]]
    OBVIOUS
  <2>3. PackedSums(h, of, n + 1)
    <3>1. \A k \in 0..(n + 1) : k = n + 1 \/ k \in 0..n
      OBVIOUS
    <3>2. \A k \in 0..n : k # n + 1 /\ k \in 0..(n + 1) /\ (k # 0 => k - 1 \in 0..n)
      OBVIOUS
    <3>3. \A k \in 0..n : h[k] = g[k]
      BY <2>2, <3>2
    <3>4. ASSUME NEW k \in 0..n
          PROVE  h[k] = IF k = 0 THEN 0 ELSE AddPacked(h[k - 1], of[k])
      BY <2>1, <3>2, <3>3 DEF PackedSums
    <3>5. h[n + 1] = AddPacked(h[n], of[n + 1]) /\ n + 1 # 0 /\ (n + 1) - 1 = n
      BY <2>2, <3>2, <3>3
    <3>6. \A k \in 0..(n + 1) :
            h[k] = IF k = 0 THEN 0 ELSE AddPacked(h[k - 1], of[k])
      BY <3>1, <3>4, <3>5
    <3> QED
      BY <2>2, <3>6 DEF PackedSums
  <2>4. n + 1 \in 0..Len(of)
    OBVIOUS
  <2> QED
    BY <2>3, <2>4
<1>3. Len(of) \in T
  <2> HIDE DEF T
  <2>1. 0..Len(of) \subseteq T
    BY <1>1, <1>2, Induction
  <2> QED
    BY <2>1
<1>4. \E f : PackedSums(f, of, Len(of))
  BY <1>3
<1>5. PackedOf(of) = (CHOOSE f : PackedSums(f, of, Len(of)))[Len(of)]
  BY Zenon DEF PackedSums, PackedOf, Fold, AddPacked
<1> QED
  BY <1>4, <1>5

\* They are numbers.
LEMMA PackedTyped == ASSUME NEW of \in Seq(DOMAIN FullSize) PROVE PackedOf(of) \in Nat
<1>1. PICK N : N = Len(of)
  OBVIOUS
<1>2. N \in Nat /\ \A n \in 1..N : of[n] \in DOMAIN FullSize
  BY <1>1
<1>3. PICK f : PackedSums(f, of, N) /\ PackedOf(of) = f[N]
  BY <1>1, <1>2, PackedSteps
<1>4. \A n, h : AddPacked(n, h) = n + PackedSize[h]
  BY DEF AddPacked, Let, Only
<1>5. /\ 0 \in 0..N /\ f[0] = 0
      /\ \A n \in 0..(N - 1) : n + 1 \in 1..N /\ f[n + 1] = f[n] + PackedSize[of[n + 1]]
  <2>1. 0 \in 0..N /\ f[0] = 0
    BY <1>2, <1>3 DEF PackedSums
  <2>2. \A n \in 0..(N - 1) : n + 1 \in 0..N /\ n + 1 \in 1..N /\ n + 1 # 0 /\ (n + 1) - 1 = n
    BY <1>2
  <2>3. \A n \in 0..(N - 1) : f[n + 1] = AddPacked(f[n], of[n + 1])
    BY <1>3, <2>2 DEF PackedSums
  <2> QED
    BY <1>4, <2>1, <2>2, <2>3
<1> DEFINE T == {n \in 0..N : f[n] \in Nat}
<1>6. 0 \in T
  BY <1>5
<1>7. \A n \in 0..(N - 1) : n \in T => n + 1 \in T
  <2>1. TAKE n \in 0..(N - 1)
  <2>2. SUFFICES ASSUME f[n] \in Nat PROVE n + 1 \in T
    OBVIOUS
  <2>3. PackedSize[of[n + 1]] \in Nat
    BY <1>2, <1>5, SizesAssumption
  <2>4. n + 1 \in 0..N
    BY <1>2
  <2> QED
    BY <1>5, <2>2, <2>3, <2>4
<1>8. N \in T
  <2> HIDE DEF T
  <2>1. 0..N \subseteq T
    BY <1>2, <1>6, <1>7, Induction
  <2>2. N \in 0..N
    BY <1>2
  <2> QED
    BY <2>1, <2>2
<1> QED
  BY <1>3, <1>8

\* Compressed bytes, and those that are taken.
LEMMA PackTyped ==
  ASSUME NEW data \in Seq(AnyByte), NEW method \in Methods
  PROVE  Pack(data, method) \in Seq(AnyByte) /\ Smallest(data, method) \in Seq(AnyByte)
<1>1. PICK N : N = Len(data)
  OBVIOUS
<1>2. N \in Nat /\ DOMAIN data = 1..N /\ \A i \in 1..N : data[i] \in AnyByte
  BY <1>1
<1>3. PICK H : H = Seq(DOMAIN FullSize)
  OBVIOUS
<1>4. PICK each : each = [i \in DOMAIN data |-> IF data[i].at = 1 THEN data[i].of ELSE <<>>]
  OBVIOUS
<1>5. \A i \in 1..N : data[i].of \in H /\ <<>> \in H
  BY <1>2, <1>3 DEF AnyByte
<1>6. each \in [1..N -> H]
  BY <1>2, <1>4, <1>5
<1>7. each \in Seq(H)
  BY <1>2, <1>6
<1>8. PICK of : of = FlattenSeq(each)
  OBVIOUS
<1>9. of \in Seq(DOMAIN FullSize)
  BY <1>3, <1>7, <1>8, FlattenPlaces
<1>10. PICK n : n = PackedOf(of)
  OBVIOUS
<1>11. n \in Nat
  BY <1>9, <1>10, PackedTyped
<1>12. PICK B : B = AnyByte
  OBVIOUS
<1>13. PICK c : c = [i \in 1..n |-> Byte(of, method, i)]
  OBVIOUS
<1>14. \A i \in 1..n : Byte(of, method, i) \in B
  BY <1>9, <1>12 DEF Byte, AnyByte
<1>15. c \in [1..n -> B]
  BY <1>13, <1>14
<1>16. c \in Seq(B)
  BY <1>11, <1>15
<1>17. Pack(data, method) = c
  BY <1>4, <1>8, <1>10, <1>13, Zenon DEF Pack, PackedOf
<1>18. Pack(data, method) \in Seq(AnyByte)
  BY <1>12, <1>16, <1>17
<1>19. Smallest(data, method) \in {data, Pack(data, method)}
  BY DEF Smallest
<1> QED
  BY <1>18, <1>19

\* Bytes that are read as they are, or uncompressed.
LEMMA PlainTyped ==
  ASSUME NEW bytes \in Seq(AnyByte), NEW packed, NEW known \in Methods, NEW full,
         NEW plain, plain = Plain(bytes, packed, known, full), plain.result = "ok"
  PROVE  /\ plain = [result |-> "ok", method |-> plain.method, data |-> plain.data]
         /\ plain.method \in Methods /\ plain.data \in Seq(AnyByte)
<1>1. CASE packed = full
  <2>1. plain = [result |-> "ok", method |-> known, data |-> bytes]
    BY <1>1 DEF Plain
  <2>2. plain.method = known /\ plain.data = bytes
    BY <2>1
  <2> QED
    BY <2>1, <2>2
<1>2. CASE packed # full
  <2>1. PICK of : of = bytes[1].of
    OBVIOUS
  <2>2. PICK each : each = [k \in DOMAIN of |-> Code(of[k])]
    OBVIOUS
  <2>3. PICK data : data = FlattenSeq(each)
    OBVIOUS
  <2>4. PICK method : method = bytes[1].method
    OBVIOUS
  <2>5. plain = Unpack(bytes, known, full)
    BY <1>2 DEF Plain
  <2>6. plain = IF bytes # <<>> /\ method # NoMethod /\ known \in {NoMethod, method}
                     /\ Len(data) = full /\ bytes = Pack(data, method)
                THEN [result |-> "ok", method |-> method, data |-> data] ELSE Failed
    BY <2>1, <2>2, <2>3, <2>4, <2>5 DEF Unpack
  <2>7. bytes # <<>> /\ plain = [result |-> "ok", method |-> method, data |-> data]
    BY <2>6 DEF Failed
  <2>8. bytes[1] \in AnyByte
    BY <2>7
  <2>9. of \in Seq(DOMAIN FullSize) /\ method \in Methods
    BY <2>1, <2>4, <2>8 DEF AnyByte
  <2>10. PICK B : B = Seq(AnyByte)
    OBVIOUS
  <2>11. /\ Len(of) \in Nat /\ DOMAIN of = 1..Len(of)
         /\ \A k \in 1..Len(of) : Code(of[k]) \in B
    <3>1. Len(of) \in Nat /\ DOMAIN of = 1..Len(of) /\ \A k \in 1..Len(of) : of[k] \in DOMAIN FullSize
      BY <2>9
    <3> QED
      BY <2>10, <3>1, CodeTyped
  <2>12. each \in [1..Len(of) -> B]
    BY <2>2, <2>11
  <2>13. each \in Seq(B)
    BY <2>11, <2>12
  <2>14. data \in Seq(AnyByte)
    BY <2>3, <2>10, <2>13, FlattenPlaces
  <2>15. plain.method = method /\ plain.data = data
    BY <2>7
  <2> QED
    BY <2>7, <2>9, <2>14, <2>15
<1> QED
  BY <1>1, <1>2

-----------------------------------------------------------------------------
(* The chunks of an archive.                                               *)

\* The bytes of the first n shaders of a list, unless they failed.
GroupBytes(group) ==
  group.result = "ok" =>
    /\ group = [result |-> "ok", method |-> group.method, data |-> group.data]
    /\ group.method \in Methods /\ group.data \in Seq(AnyByte)

\* The bytes of a shader in the code of its library, and what they are uncompressed
\* when the method is known.
BytesAt(library, s) ==
  SubSeq(library.code, library.shaders[s].offset + 1,
         library.shaders[s].offset + library.shaders[s].size)
PlainAt(library, s, known) ==
  Plain(BytesAt(library, s), library.shaders[s].size, known, library.shaders[s].full)

\* What one shader more is, when it does not fail.
PlacedBehind(library, s, group, plain, next) ==
  /\ group.result = "ok"
  /\ library.shaders[s].offset + library.shaders[s].size <= Len(library.code)
  /\ plain.result = "ok" /\ plain.method \in Methods /\ plain.data \in Seq(AnyByte)
  /\ next = [result |-> "ok", method |-> plain.method, data |-> group.data \o plain.data]

\* It is that.
LEMMA PlaceIs ==
  ASSUME NEW library, IsLibrary(library), NEW header, NEW s \in DOMAIN library.shaders,
         NEW group, GroupBytes(group), NEW plain, plain = PlainAt(library, s, group.method),
         NEW next, next = PlaceShader(library, header, group, s), next.result = "ok"
  PROVE  PlacedBehind(library, s, group, plain, next)
<1>1. PICK e : e = library.shaders[s]
  OBVIOUS
<1>2. PICK bytes : bytes = BytesAt(library, s)
  OBVIOUS
<1>3. bytes = SubSeq(library.code, e.offset + 1, e.offset + e.size)
  BY <1>1, <1>2, SMTT(60) DEF BytesAt
<1>4. plain = Plain(bytes, e.size, group.method, e.full)
  BY <1>1, <1>2, SMTT(60) DEF PlainAt
<1>5. PICK fails : fails = (group.result = "ok"
                              /\ (\/ e.offset + e.size > Len(library.code)
                                  \/ header.shaders[s].offset # Len(group.data)))
  BY SMTT(60)
<1>6. next = IF fails THEN Failed ELSE Behind(group, plain)
  BY <1>1, <1>3, <1>4, <1>5 DEF PlaceShader
<1>7. ~fails
  BY <1>6 DEF Failed
<1>8. next = Behind(group, plain)
  BY <1>6, <1>7
<1>9. group.result = "ok" /\ plain.result = "ok"
  BY <1>8 DEF Behind, Failed
<1>10. next = [plain EXCEPT !.data = group.data \o @]
  BY <1>8, <1>9 DEF Behind
<1>11. group.method \in Methods /\ group.data \in Seq(AnyByte)
  BY <1>9 DEF GroupBytes
<1>12. e.offset \in Nat /\ e.size \in Nat /\ library.code \in Seq(AnyByte)
  BY <1>1, ShaderTypes DEF IsLibrary
<1>13. bytes \in Seq(AnyByte) /\ e.offset + e.size <= Len(library.code)
  <2>1. e.offset + e.size \in Nat /\ e.offset + e.size <= Len(library.code)
    <3>1. ~ (e.offset + e.size > Len(library.code))
      BY <1>5, <1>7, <1>9, Zenon
    <3>2. Len(library.code) \in Nat
      BY <1>12
    <3> QED
      BY <1>12, <3>1, <3>2
  <2> QED
    BY <1>12, <2>1, <1>3, PartTyped
<1>14. /\ plain = [result |-> "ok", method |-> plain.method, data |-> plain.data]
       /\ plain.method \in Methods /\ plain.data \in Seq(AnyByte)
  BY <1>9, <1>11, <1>13, <1>4, PlainTyped
<1>15. PICK data : data = group.data \o plain.data
  OBVIOUS
<1>16. data \in Seq(AnyByte)
  BY <1>11, <1>14, <1>15
<1>17. next = [result |-> "ok", method |-> plain.method, data |-> data]
  <2>1. PICK m : m = plain.method
    OBVIOUS
  <2>2. PICK d : d = plain.data
    OBVIOUS
  <2>3. plain = [result |-> "ok", method |-> m, data |-> d]
    BY <1>14, <2>1, <2>2
  <2>4. next = [plain EXCEPT !.data = data]
    BY <1>10, <1>15
  <2>5. [plain EXCEPT !.data = data] = [result |-> "ok", method |-> m, data |-> data]
    BY <2>3
  <2> QED
    BY <2>1, <2>4, <2>5
<1> QED
  BY <1>1, <1>9, <1>13, <1>14, <1>15, <1>17 DEF PlacedBehind

\* One shader more.
LEMMA PlaceKeeps ==
  ASSUME NEW library, IsLibrary(library), NEW header, NEW s \in DOMAIN library.shaders,
         NEW group, GroupBytes(group), NEW next, next = PlaceShader(library, header, group, s)
  PROVE  GroupBytes(next)
<1>1. SUFFICES ASSUME next.result = "ok" PROVE GroupBytes(next)
  BY DEF GroupBytes
<1>2. PICK plain : plain = PlainAt(library, s, group.method)
  OBVIOUS
<1>3. PICK data : data = group.data \o plain.data
  OBVIOUS
<1>4. /\ group.result = "ok" /\ plain.method \in Methods /\ plain.data \in Seq(AnyByte)
      /\ next = [result |-> "ok", method |-> plain.method, data |-> data]
  <2>1. PlacedBehind(library, s, group, plain, next)
    BY <1>1, <1>2, PlaceIs
  <2> QED
    BY <1>3, <2>1 DEF PlacedBehind
<1>5. data \in Seq(AnyByte)
  <2>1. group.data \in Seq(AnyByte)
    BY <1>4 DEF GroupBytes
  <2> QED
    BY <1>3, <1>4, <2>1
<1>6. next.method = plain.method /\ next.data = data
  BY <1>4
<1> QED
  BY <1>4, <1>5, <1>6 DEF GroupBytes

\* The bytes of a list of shaders, a step, and those of the first n.
BytesFrom(library, header, method, list) ==
  Fold(LAMBDA group, s : PlaceShader(library, header, group, s),
       [result |-> "ok", method |-> method, data |-> <<>>], list)
AddShader(library, header, group, s) ==
  Let(<<group, s>>, LAMBDA pair : PlaceShader(library, header, pair[1], pair[2]))
ShaderBytes(f, library, header, method, list, n) ==
  f = [k \in 0..n |-> IF k = 0 THEN [result |-> "ok", method |-> method, data |-> <<>>] ELSE AddShader(library, header, f[k - 1], list[k])]

\* There are such bytes, and the last are the result.
LEMMA ShaderSteps ==
  ASSUME NEW library, NEW header, NEW method, NEW list, Len(list) \in Nat
  PROVE  \E f : ShaderBytes(f, library, header, method, list, Len(list)) /\ BytesFrom(library, header, method, list) = f[Len(list)]
<1> DEFINE T == {n \in 0..Len(list) : \E g : ShaderBytes(g, library, header, method, list, n)}
<1>1. 0 \in T
  <2>1. ShaderBytes([k \in 0..0 |-> [result |-> "ok", method |-> method, data |-> <<>>]], library, header, method, list, 0)
    BY DEF ShaderBytes
  <2> QED
    BY <2>1
<1>2. ASSUME NEW n \in 0..(Len(list) - 1), n \in T
      PROVE  n + 1 \in T
  <2>1. PICK g : ShaderBytes(g, library, header, method, list, n)
    BY <1>2
  <2>2. PICK h : h = [k \in 0..(n + 1) |->
                        IF k = n + 1 THEN AddShader(library, header, g[n], list[n + 1]) ELSE g[k]]
    OBVIOUS
  <2>3. ShaderBytes(h, library, header, method, list, n + 1)
    <3>1. \A k \in 0..(n + 1) : k = n + 1 \/ k \in 0..n
      OBVIOUS
    <3>2. \A k \in 0..n : k # n + 1 /\ k \in 0..(n + 1) /\ (k # 0 => k - 1 \in 0..n)
      OBVIOUS
    <3>3. \A k \in 0..n : h[k] = g[k]
      BY <2>2, <3>2
    <3>4. ASSUME NEW k \in 0..n
          PROVE  h[k] = IF k = 0 THEN [result |-> "ok", method |-> method, data |-> <<>>] ELSE AddShader(library, header, h[k - 1], list[k])
      BY <2>1, <3>2, <3>3 DEF ShaderBytes
    <3>5. h[n + 1] = AddShader(library, header, h[n], list[n + 1]) /\ n + 1 # 0 /\ (n + 1) - 1 = n
      BY <2>2, <3>2, <3>3
    <3>6. \A k \in 0..(n + 1) :
            h[k] = IF k = 0 THEN [result |-> "ok", method |-> method, data |-> <<>>] ELSE AddShader(library, header, h[k - 1], list[k])
      BY <3>1, <3>4, <3>5
    <3> QED
      BY <2>2, <3>6 DEF ShaderBytes
  <2>4. n + 1 \in 0..Len(list)
    OBVIOUS
  <2> QED
    BY <2>3, <2>4
<1>3. Len(list) \in T
  <2> HIDE DEF T
  <2>1. 0..Len(list) \subseteq T
    BY <1>1, <1>2, Induction
  <2> QED
    BY <2>1
<1>4. \E f : ShaderBytes(f, library, header, method, list, Len(list))
  BY <1>3
<1>5. BytesFrom(library, header, method, list) = (CHOOSE f : ShaderBytes(f, library, header, method, list, Len(list)))[Len(list)]
  BY DEF ShaderBytes, BytesFrom, Fold, AddShader
<1> QED
  BY <1>4, <1>5

\* A step is PlaceShader.
LEMMA ShaderAdded ==
  ASSUME NEW library, NEW header, NEW group, NEW s
  PROVE  AddShader(library, header, group, s) = PlaceShader(library, header, group, s)
  BY DEF AddShader, Let, Only

\* Step by step, every shader is placed.
BytesTo(f, library, header, method, list) ==
  /\ f[0] = [result |-> "ok", method |-> method, data |-> <<>>]
  /\ \A n \in 0..(Len(list) - 1) : f[n + 1] = PlaceShader(library, header, f[n], list[n + 1])
BytesAll(library, header, method, list) ==
  \E f : /\ BytesTo(f, library, header, method, list)
         /\ BytesFrom(library, header, method, list) = f[Len(list)]

\* So it is.
LEMMA PlacesShaders ==
  ASSUME NEW library, NEW header, NEW method, NEW list, Len(list) \in Nat
  PROVE  BytesAll(library, header, method, list)
<1>1. PICK N : N = Len(list)
  OBVIOUS
<1>2. N \in Nat
  BY <1>1
<1>3. PICK f : ShaderBytes(f, library, header, method, list, N)
               /\ BytesFrom(library, header, method, list) = f[N]
  BY <1>1, <1>2, ShaderSteps
<1>4. f[0] = [result |-> "ok", method |-> method, data |-> <<>>]
  <2>1. 0 \in 0..N
    BY <1>2
  <2> QED
    BY <1>3, <2>1 DEF ShaderBytes
<1>5. \A n \in 0..(N - 1) : f[n + 1] = PlaceShader(library, header, f[n], list[n + 1])
  <2>1. \A n \in 0..(N - 1) : n + 1 \in 0..N /\ n + 1 # 0 /\ (n + 1) - 1 = n
    BY <1>2
  <2>2. \A n \in 0..(N - 1) : f[n + 1] = AddShader(library, header, f[n], list[n + 1])
    BY <1>3, <2>1 DEF ShaderBytes
  <2> QED
    BY <2>2, ShaderAdded
<1>6. BytesTo(f, library, header, method, list)
  BY <1>1, <1>4, <1>5 DEF BytesTo
<1> QED
  BY <1>1, <1>3, <1>6 DEF BytesAll

\* The bytes of all shaders.
LEMMA BytesTyped ==
  ASSUME NEW library, IsLibrary(library), NEW header, NEW method \in Methods,
         NEW list \in Seq(DOMAIN library.shaders)
  PROVE  GroupBytes(BytesFrom(library, header, method, list))
<1>1. PICK N : N = Len(list)
  OBVIOUS
<1>2. N \in Nat
  BY <1>1
<1>3. PICK f : BytesTo(f, library, header, method, list)
               /\ BytesFrom(library, header, method, list) = f[N]
  BY <1>1, <1>2, PlacesShaders DEF BytesAll
<1>4. /\ 0 \in 0..N /\ f[0] = [result |-> "ok", method |-> method, data |-> <<>>]
      /\ \A n \in 0..(N - 1) : /\ list[n + 1] \in DOMAIN library.shaders
                               /\ f[n + 1] = PlaceShader(library, header, f[n], list[n + 1])
  <2>1. 0 \in 0..N /\ f[0] = [result |-> "ok", method |-> method, data |-> <<>>]
    BY <1>2, <1>3 DEF BytesTo
  <2>2. \A n \in 0..(N - 1) : n + 1 \in 1..N
    BY <1>2
  <2>3. \A n \in 0..(N - 1) : list[n + 1] \in DOMAIN library.shaders
    BY <1>1, <2>2
  <2> QED
    BY <1>1, <1>3, <2>1, <2>3 DEF BytesTo
<1> DEFINE T == {n \in 0..N : GroupBytes(f[n])}
<1>5. 0 \in T
  <2>1. f[0].method = method /\ f[0].data = <<>>
    BY <1>4
  <2>2. f[0] = [result |-> "ok", method |-> f[0].method, data |-> f[0].data]
    BY <1>4, <2>1
  <2>3. f[0].data \in Seq(AnyByte)
    BY <2>1
  <2>4. GroupBytes(f[0])
    BY <2>1, <2>2, <2>3 DEF GroupBytes
  <2> QED
    BY <1>4, <2>4
<1>6. \A n \in 0..(N - 1) : n \in T => n + 1 \in T
  <2>1. TAKE n \in 0..(N - 1)
  <2>2. SUFFICES ASSUME GroupBytes(f[n]) PROVE n + 1 \in T
    OBVIOUS
  <2>3. GroupBytes(f[n + 1])
    BY <1>4, <2>2, PlaceKeeps
  <2>4. n + 1 \in 0..N
    BY <1>2
  <2> QED
    BY <2>3, <2>4
<1>7. N \in T
  <2> HIDE DEF T
  <2>1. 0..N \subseteq T
    BY <1>2, <1>5, <1>6, Induction
  <2>2. N \in 0..N
    BY <1>2
  <2> QED
    BY <2>1, <2>2
<1> QED
  BY <1>3, <1>7

\* An archive with the chunks of the first n groups, unless it failed.
ArchiveSoFar(library, groups, archive, n) ==
  archive.result = "ok" =>
    /\ archive = [result |-> "ok", method |-> archive.method, header |-> archive.header,
                  chunks |-> archive.chunks]
    /\ archive.method \in Methods
    /\ archive.header.result = "ok" /\ HeaderSoFar(library, groups, archive.header, Len(groups))
    /\ archive.chunks \in Seq(Seq(AnyByte)) /\ Len(archive.chunks) = n

\* The size of a chunk goes to the header.
PackedHeader(header, g, p) == [header EXCEPT !.groups[g].packed = p]

\* It is otherwise the same.
LEMMA PackedKeeps ==
  ASSUME NEW library, NEW groups, Len(groups) \in Nat, NEW header, header.result = "ok",
         HeaderSoFar(library, groups, header, Len(groups)),
         NEW g \in 1..Len(groups), NEW p \in Nat,
         NEW next, next = PackedHeader(header, g, p)
  PROVE  next.result = "ok" /\ HeaderSoFar(library, groups, next, Len(groups))
<1>1. PICK N : N = Len(groups)
  OBVIOUS
<1>2. PICK sh : sh = NoGroups(library, groups).shaders
  OBVIOUS
<1>3. PICK mp : mp = library.maps
  OBVIOUS
<1>4. PICK ix : ix = header.indices
  OBVIOUS
<1>5. PICK gs : gs = header.groups
  OBVIOUS
<1>6. /\ header = [result |-> "ok", maps |-> mp, indices |-> ix, groups |-> gs, shaders |-> sh]
      /\ Extends(DOMAIN library.shaders, library.indices, ix)
      /\ gs \in Seq(AnyEntry) /\ Len(gs) = N
      /\ \A h \in 1..N : EntryOf(library, ix, groups[h], gs[h])
  BY <1>1, <1>2, <1>3, <1>4, <1>5 DEF HeaderSoFar
<1>7. PICK e : e = [gs[g] EXCEPT !.packed = p]
  OBVIOUS
<1>8. g \in 1..N /\ N \in Nat /\ gs[g] \in AnyEntry
  BY <1>1, <1>6
<1>9. /\ e \in AnyEntry /\ e.first = gs[g].first /\ e.count = gs[g].count
      /\ e.full = gs[g].full /\ e.id = gs[g].id
  BY <1>7, <1>8 DEF AnyEntry
<1>10. PICK more : more = [gs EXCEPT ![g] = e]
  OBVIOUS
<1>11. next = [header EXCEPT !.groups = more]
  BY <1>5, <1>7, <1>10 DEF PackedHeader
<1>12. [header EXCEPT !.groups = more]
         = [result |-> "ok", maps |-> mp, indices |-> ix, groups |-> more, shaders |-> sh]
  BY <1>6
<1>13. next = [result |-> "ok", maps |-> mp, indices |-> ix, groups |-> more, shaders |-> sh]
  BY <1>11, <1>12
<1>14. more \in Seq(AnyEntry) /\ Len(more) = N
  BY <1>6, <1>8, <1>9, <1>10
<1>15. \A h \in 1..N : EntryOf(library, ix, groups[h], more[h])
  <2>1. TAKE h \in 1..N
  <2>2. EntryOf(library, ix, groups[h], gs[h])
    BY <1>6
  <2>3. more[h] = IF h = g THEN e ELSE gs[h]
    BY <1>6, <1>10
  <2> QED
    BY <1>9, <2>2, <2>3 DEF EntryOf
<1>16. next.result = "ok" /\ next.indices = ix /\ next.groups = more
  BY <1>13
<1> QED
  BY <1>1, <1>2, <1>3, <1>6, <1>13, <1>14, <1>15, <1>16 DEF HeaderSoFar

\* The shaders of a group are those that were grouped.
LEMMA GroupThere ==
  ASSUME NEW library, NEW groups \in Seq(Seq(DOMAIN library.shaders)),
         NEW header, header.result = "ok", HeaderSoFar(library, groups, header, Len(groups)),
         NEW g \in 1..Len(groups)
  PROVE  RangeOf(header.indices, header.groups[g]) = groups[g]
<1>1. PICK D : D = DOMAIN library.shaders
  OBVIOUS
<1>2. PICK entry : entry = header.groups[g]
  OBVIOUS
<1>3. header.indices \in Seq(D) /\ EntryOf(library, header.indices, groups[g], entry)
  BY <1>1, <1>2 DEF HeaderSoFar, Extends
<1>4. groups[g] \in Seq(D)
  BY <1>1
<1>5. entry.count = Len(groups[g]) /\ LiesAt(header.indices, entry.first, groups[g])
  BY <1>3 DEF EntryOf
<1> QED
  BY <1>2, <1>3, <1>4, <1>5, RangeIs, SMTT(60)

\* What one chunk more is, when it does not fail.
WrittenBehind(archive, g, group, next) ==
  /\ archive.result = "ok" /\ group.result = "ok" /\ GroupBytes(group)
  /\ Len(group.data) = archive.header.groups[g].full
  /\ next = [result |-> "ok", method |-> group.method,
             header |-> PackedHeader(archive.header, g, Len(Smallest(group.data, group.method))),
             chunks |-> Append(archive.chunks, Smallest(group.data, group.method))]

\* It is that.
LEMMA WriteIs ==
  ASSUME NEW library, IsLibrary(library), NEW groups \in Seq(Seq(DOMAIN library.shaders)),
         NEW n \in 0..(Len(groups) - 1), NEW archive, ArchiveSoFar(library, groups, archive, n),
         NEW group, group = BytesFrom(library, archive.header, archive.method, groups[n + 1]),
         NEW next, next = WriteGroup(library, archive, n + 1), next.result = "ok"
  PROVE  WrittenBehind(archive, n + 1, group, next)
<1>2. archive.result = "ok"
  BY Zenon DEF WriteGroup
<1>3. PICK g : g = n + 1
  OBVIOUS
<1>4. g \in 1..Len(groups) /\ n \in Nat /\ Len(groups) \in Nat
  BY <1>3
<1>5. PICK header : header = archive.header
  OBVIOUS
<1>6. /\ archive.method \in Methods /\ header.result = "ok"
      /\ HeaderSoFar(library, groups, header, Len(groups))
      /\ archive.chunks \in Seq(Seq(AnyByte)) /\ Len(archive.chunks) = n
  BY <1>2, <1>5 DEF ArchiveSoFar
<1>7. PICK list : list = RangeOf(header.indices, header.groups[g])
  OBVIOUS
<1>8. list = groups[g]
  BY <1>4, <1>6, <1>7, GroupThere
<1>9. groups[g] \in Seq(DOMAIN library.shaders)
  BY <1>4
<1>10. group = BytesFrom(library, header, archive.method, list)
  BY <1>3, <1>5, <1>8
<1>11. GroupBytes(group)
  BY <1>6, <1>8, <1>9, <1>10, BytesTyped
<1>12. next = WithGroup(archive, g, group)
  <2>1. WriteGroup(library, archive, n + 1) =
          IF archive.result # "ok" THEN archive
          ELSE WithGroup(archive, n + 1,
                 BytesFrom(library, archive.header, archive.method,
                           RangeOf(archive.header.indices, archive.header.groups[n + 1])))
    BY Zenon DEF WriteGroup, BytesFrom
  <2> QED
    BY <1>2, <1>3, <1>5, <1>7, <1>10, <2>1
<1>13. group.result = "ok"
  BY <1>12 DEF WithGroup
<1>14. WithGroup(archive, g, group) =
         IF group.result # "ok" THEN group
         ELSE IF Len(group.data) # archive.header.groups[g].full THEN Failed
         ELSE [result |-> "ok", method |-> group.method,
               header |-> PackedHeader(archive.header, g, Len(Smallest(group.data, group.method))),
               chunks |-> Append(archive.chunks, Smallest(group.data, group.method))]
  BY DEF WithGroup, PackedHeader
<1>15. Failed.result # "ok"
  BY DEF Failed
<1>16. ~ (Len(group.data) # archive.header.groups[g].full)
  BY <1>12, <1>13, <1>14, <1>15, Zenon
<1> QED
  BY <1>2, <1>3, <1>11, <1>12, <1>13, <1>14, <1>16 DEF WrittenBehind

\* One chunk more.
LEMMA WriteKeeps ==
  ASSUME NEW library, IsLibrary(library), NEW groups \in Seq(Seq(DOMAIN library.shaders)),
         NEW n \in 0..(Len(groups) - 1), NEW archive, ArchiveSoFar(library, groups, archive, n),
         NEW next, next = WriteGroup(library, archive, n + 1)
  PROVE  ArchiveSoFar(library, groups, next, n + 1)
<1>1. SUFFICES ASSUME next.result = "ok" PROVE ArchiveSoFar(library, groups, next, n + 1)
  BY DEF ArchiveSoFar
<1>2. PICK g : g = n + 1
  OBVIOUS
<1>3. g \in 1..Len(groups) /\ n \in Nat /\ Len(groups) \in Nat
  BY <1>2
<1>4. PICK header : header = archive.header
  OBVIOUS
<1>5. PICK group : group = BytesFrom(library, archive.header, archive.method, groups[n + 1])
  OBVIOUS
<1>6. PICK chunk : chunk = Smallest(group.data, group.method)
  OBVIOUS
<1>7. PICK after : after = PackedHeader(header, g, Len(chunk))
  OBVIOUS
<1>8. PICK chunks2 : chunks2 = Append(archive.chunks, chunk)
  OBVIOUS
<1>9. /\ archive.result = "ok" /\ group.result = "ok" /\ GroupBytes(group)
      /\ next = [result |-> "ok", method |-> group.method, header |-> after, chunks |-> chunks2]
  <2>1. WrittenBehind(archive, n + 1, group, next)
    BY <1>1, <1>5, WriteIs
  <2>2. /\ PackedHeader(archive.header, n + 1, Len(Smallest(group.data, group.method))) = after
        /\ Append(archive.chunks, Smallest(group.data, group.method)) = chunks2
    BY <1>2, <1>4, <1>6, <1>7, <1>8
  <2> QED
    BY <2>1, <2>2 DEF WrittenBehind
<1>10. /\ header.result = "ok" /\ HeaderSoFar(library, groups, header, Len(groups))
       /\ archive.chunks \in Seq(Seq(AnyByte)) /\ Len(archive.chunks) = n
  BY <1>4, <1>9 DEF ArchiveSoFar
<1>11. group.method \in Methods /\ group.data \in Seq(AnyByte)
  BY <1>9 DEF GroupBytes
<1>12. chunk \in Seq(AnyByte) /\ Len(chunk) \in Nat
  <2>1. chunk \in Seq(AnyByte)
    BY <1>6, <1>11, PackTyped
  <2> QED
    BY <2>1
<1>13. after.result = "ok" /\ HeaderSoFar(library, groups, after, Len(groups))
  BY <1>3, <1>7, <1>10, <1>12, PackedKeeps
<1>14. chunks2 \in Seq(Seq(AnyByte)) /\ Len(chunks2) = n + 1
  <2>1. PICK B : B = Seq(AnyByte)
    OBVIOUS
  <2>2. archive.chunks \in Seq(B) /\ chunk \in B
    BY <1>10, <1>12, <2>1
  <2>3. chunks2 \in Seq(B) /\ Len(chunks2) = n + 1
    BY <1>8, <1>10, <2>2
  <2> QED
    BY <2>1, <2>3
<1>15. next.method = group.method /\ next.header = after /\ next.chunks = chunks2
  BY <1>9
<1> QED
  BY <1>9, <1>11, <1>13, <1>14, <1>15 DEF ArchiveSoFar

\* The numbers of the groups, the archive without chunks, a step, and the archives.
Numbered(groups) == [g \in DOMAIN groups |-> g]
NoChunks(header) == [result |-> "ok", method |-> NoMethod, header |-> header, chunks |-> <<>>]
ChunksOf(library, header, list) ==
  Fold(LAMBDA archive, g : WriteGroup(library, archive, g), NoChunks(header), list)
AddChunk(library, archive, g) ==
  Let(<<archive, g>>, LAMBDA pair : WriteGroup(library, pair[1], pair[2]))
Archives(f, library, header, list, n) ==
  f = [k \in 0..n |-> IF k = 0 THEN NoChunks(header) ELSE AddChunk(library, f[k - 1], list[k])]

\* There are such archives, and the last is the result.
LEMMA ChunkSteps ==
  ASSUME NEW library, NEW header, NEW list, Len(list) \in Nat
  PROVE  \E f : Archives(f, library, header, list, Len(list)) /\ ChunksOf(library, header, list) = f[Len(list)]
<1> DEFINE T == {n \in 0..Len(list) : \E g : Archives(g, library, header, list, n)}
<1>1. 0 \in T
  <2>1. Archives([k \in 0..0 |-> NoChunks(header)], library, header, list, 0)
    BY DEF Archives
  <2> QED
    BY <2>1
<1>2. ASSUME NEW n \in 0..(Len(list) - 1), n \in T
      PROVE  n + 1 \in T
  <2>1. PICK g : Archives(g, library, header, list, n)
    BY <1>2
  <2>2. PICK h : h = [k \in 0..(n + 1) |->
                        IF k = n + 1 THEN AddChunk(library, g[n], list[n + 1]) ELSE g[k]]
    OBVIOUS
  <2>3. Archives(h, library, header, list, n + 1)
    <3>1. \A k \in 0..(n + 1) : k = n + 1 \/ k \in 0..n
      OBVIOUS
    <3>2. \A k \in 0..n : k # n + 1 /\ k \in 0..(n + 1) /\ (k # 0 => k - 1 \in 0..n)
      OBVIOUS
    <3>3. \A k \in 0..n : h[k] = g[k]
      BY <2>2, <3>2
    <3>4. ASSUME NEW k \in 0..n
          PROVE  h[k] = IF k = 0 THEN NoChunks(header) ELSE AddChunk(library, h[k - 1], list[k])
      BY <2>1, <3>2, <3>3 DEF Archives
    <3>5. h[n + 1] = AddChunk(library, h[n], list[n + 1]) /\ n + 1 # 0 /\ (n + 1) - 1 = n
      BY <2>2, <3>2, <3>3
    <3>6. \A k \in 0..(n + 1) :
            h[k] = IF k = 0 THEN NoChunks(header) ELSE AddChunk(library, h[k - 1], list[k])
      BY <3>1, <3>4, <3>5
    <3> QED
      BY <2>2, <3>6 DEF Archives
  <2>4. n + 1 \in 0..Len(list)
    OBVIOUS
  <2> QED
    BY <2>3, <2>4
<1>3. Len(list) \in T
  <2> HIDE DEF T
  <2>1. 0..Len(list) \subseteq T
    BY <1>1, <1>2, Induction
  <2> QED
    BY <2>1
<1>4. \E f : Archives(f, library, header, list, Len(list))
  BY <1>3
<1>5. ChunksOf(library, header, list) = (CHOOSE f : Archives(f, library, header, list, Len(list)))[Len(list)]
  BY DEF Archives, ChunksOf, Fold, AddChunk
<1> QED
  BY <1>4, <1>5

\* A step is WriteGroup.
LEMMA ChunkAdded ==
  ASSUME NEW library, NEW archive, NEW g
  PROVE  AddChunk(library, archive, g) = WriteGroup(library, archive, g)
  BY DEF AddChunk, Let, Only

\* Step by step, every group is written.
WritesTo(f, library, header, N) ==
  /\ f[0] = NoChunks(header)
  /\ \A n \in 0..(N - 1) : f[n + 1] = WriteGroup(library, f[n], n + 1)
WritesAll(library, header, N) ==
  \E f : WritesTo(f, library, header, N) /\ WriteGroups(library, header) = f[N]

\* So it is.
LEMMA WritesGroups ==
  ASSUME NEW library, NEW groups, Len(groups) \in Nat,
         NEW header, HeaderSoFar(library, groups, header, Len(groups)), header.result = "ok"
  PROVE  WritesAll(library, header, Len(groups))
<1>1. PICK N : N = Len(groups)
  OBVIOUS
<1>2. PICK list : list = Numbered(header.groups)
  OBVIOUS
<1>3. N \in Nat /\ Len(list) = N /\ \A k \in 1..N : list[k] = k
  <2>1. N \in Nat
    BY <1>1
  <2>2. PICK gs : gs = header.groups
    OBVIOUS
  <2>3. gs \in Seq(AnyEntry) /\ Len(gs) = N
    BY <1>1, <2>2 DEF HeaderSoFar
  <2>4. DOMAIN gs = 1..N
    BY <2>1, <2>3
  <2>5. list = [k \in 1..N |-> k]
    BY <1>2, <2>2, <2>4 DEF Numbered
  <2> QED
    BY <2>1, <2>5
<1>4. PICK f : Archives(f, library, header, list, N) /\ ChunksOf(library, header, list) = f[N]
  BY <1>3, ChunkSteps
<1>5. f[0] = NoChunks(header)
  <2>1. 0 \in 0..N
    BY <1>3
  <2> QED
    BY <1>4, <2>1 DEF Archives
<1>6. \A n \in 0..(N - 1) : f[n + 1] = WriteGroup(library, f[n], n + 1)
  <2>1. \A n \in 0..(N - 1) : /\ n + 1 \in 0..N /\ n + 1 \in 1..N /\ n + 1 # 0 /\ (n + 1) - 1 = n
    BY <1>3
  <2>2. \A n \in 0..(N - 1) : f[n + 1] = AddChunk(library, f[n], list[n + 1])
    BY <1>4, <2>1 DEF Archives
  <2>3. \A n \in 0..(N - 1) : list[n + 1] = n + 1
    BY <1>3, <2>1
  <2> QED
    BY <2>2, <2>3, ChunkAdded
<1>7. WritesTo(f, library, header, N)
  BY <1>5, <1>6 DEF WritesTo
<1>8. WriteGroups(library, header) = ChunksOf(library, header, list)
  BY <1>2 DEF WriteGroups, ChunksOf, NoChunks, Numbered
<1> QED
  BY <1>1, <1>4, <1>7, <1>8 DEF WritesAll

\* The archive of a header has a chunk for every group.
LEMMA ArchiveHasChunks ==
  ASSUME NEW library, IsLibrary(library), NEW groups \in Seq(Seq(DOMAIN library.shaders)),
         NEW header, HeaderSoFar(library, groups, header, Len(groups))
  PROVE  ArchiveSoFar(library, groups, WriteGroups(library, header), Len(groups))
<1>1. CASE header.result # "ok"
  <2>1. WriteGroups(library, header) = header
    BY <1>1 DEF WriteGroups
  <2> QED
    BY <1>1, <2>1 DEF ArchiveSoFar
<1>2. CASE header.result = "ok"
  <2>1. PICK N : N = Len(groups)
    OBVIOUS
  <2>3. N \in Nat
    BY <2>1
  <2>4. PICK f : WritesTo(f, library, header, N) /\ WriteGroups(library, header) = f[N]
    BY <1>2, <2>1, <2>3, WritesGroups DEF WritesAll
  <2>5. /\ 0 \in 0..N /\ f[0] = NoChunks(header)
        /\ \A n \in 0..(N - 1) : f[n + 1] = WriteGroup(library, f[n], n + 1)
    BY <2>3, <2>4 DEF WritesTo
  <2> DEFINE T == {n \in 0..N : ArchiveSoFar(library, groups, f[n], n)}
  <2>6. 0 \in T
    <3>1. f[0] = [result |-> "ok", method |-> NoMethod, header |-> header, chunks |-> <<>>]
      BY <2>5 DEF NoChunks
    <3>2. f[0].method = NoMethod /\ f[0].header = header /\ f[0].chunks = <<>>
      BY <3>1
    <3>3. NoMethod \in Methods
      BY DEF Methods
    <3>4. <<>> \in Seq(Seq(AnyByte)) /\ Len(<<>>) = 0
      OBVIOUS
    <3>5. ArchiveSoFar(library, groups, f[0], 0)
      BY <1>2, <3>1, <3>2, <3>3, <3>4 DEF ArchiveSoFar
    <3> QED
      BY <2>5, <3>5
  <2>7. \A n \in 0..(N - 1) : n \in T => n + 1 \in T
    <3>1. TAKE n \in 0..(N - 1)
    <3>2. SUFFICES ASSUME ArchiveSoFar(library, groups, f[n], n) PROVE n + 1 \in T
      OBVIOUS
    <3>3. n \in 0..(Len(groups) - 1) /\ f[n + 1] = WriteGroup(library, f[n], n + 1)
      BY <2>1, <2>5
    <3>4. ArchiveSoFar(library, groups, f[n + 1], n + 1)
      BY <3>2, <3>3, WriteKeeps
    <3>5. n + 1 \in 0..N
      BY <2>3
    <3> QED
      BY <3>4, <3>5
  <2>8. N \in T
    <3> HIDE DEF T
    <3>1. 0..N \subseteq T
      BY <2>3, <2>6, <2>7, Induction
    <3>2. N \in 0..N
      BY <2>3
    <3> QED
      BY <3>1, <3>2
  <2> QED
    BY <2>1, <2>4, <2>8
<1> QED
  BY <1>1, <1>2

\* What a library is when it has been written.
LEMMA WrittenHasChunks ==
  ASSUME NEW library, IsLibrary(library), NEW format, NEW checked
  PROVE  LET groups == GroupsOf(library, format)
         IN  ArchiveSoFar(library, groups, WriteLibrary(library, format, checked), Len(groups))
<1>1. PICK groups : groups = GroupsOf(library, format)
  OBVIOUS
<1>2. Grouped(library, groups)
  BY <1>1, GroupsOfLibrary
<1>3. groups \in Seq(Seq(DOMAIN library.shaders))
  BY <1>2 DEF Grouped, Splits
<1>4. PICK header : header = HeaderOf(library, groups, checked)
  OBVIOUS
<1>5. HeaderSoFar(library, groups, header, Len(groups))
  BY <1>3, <1>4, HeaderHasGroups
<1>6. ArchiveSoFar(library, groups, WriteGroups(library, header), Len(groups))
  BY <1>3, <1>5, ArchiveHasChunks
<1>7. WriteLibrary(library, format, checked) = WriteGroups(library, header)
  BY <1>1, <1>4 DEF WriteLibrary, ArchiveHeader
<1> QED
  BY <1>1, <1>6, <1>7

-----------------------------------------------------------------------------
(* The messages name every shader once.                                    *)

\* What a message can be.
AnyMessage == [kind : {"Compress", "StartMap", "EndMap"}, index : Nat, unique : BOOLEAN]

\* The messages ask for each shader of a set exactly once, and for no other.
SentOnce(messages, shaders) ==
  /\ messages \in Seq(AnyMessage)
  /\ \A i \in 1..Len(messages) : messages[i].kind = "Compress" => messages[i].index \in shaders
  /\ \A i, j \in 1..Len(messages) :
       /\ messages[i].kind = "Compress" /\ messages[j].kind = "Compress"
       /\ messages[i].index = messages[j].index
       => i = j
  /\ \A s \in shaders : \E i \in 1..Len(messages) :
       messages[i].kind = "Compress" /\ messages[i].index = s

\* Messages about different shaders can follow each other.
LEMMA JoinSentOnce ==
  ASSUME NEW F, NEW G, NEW A, NEW B, SentOnce(F, A), SentOnce(G, B), A \cap B = {}
  PROVE  SentOnce(F \o G, A \cup B)
<1>1. F \in Seq(AnyMessage) /\ G \in Seq(AnyMessage)
  BY DEF SentOnce
<1>2. PICK H : H = F \o G
  OBVIOUS
<1>3. /\ H \in Seq(AnyMessage) /\ Len(F) \in Nat /\ Len(G) \in Nat /\ Len(H) = Len(F) + Len(G)
      /\ \A i \in 1..Len(F) : H[i] = F[i]
      /\ \A i \in 1..Len(G) : H[Len(F) + i] = G[i]
  BY <1>1, <1>2
<1>4. \A i \in 1..Len(H) : i \in 1..Len(F) \/ \E j \in 1..Len(G) : i = Len(F) + j
  <2>1. TAKE i \in 1..Len(H)
  <2>2. i \in 1..Len(F) \/ (i - Len(F) \in 1..Len(G) /\ i = Len(F) + (i - Len(F)))
    BY <1>3
  <2> QED
    BY <2>2
<1>5. /\ \A i \in 1..Len(F) : i \in 1..Len(H)
      /\ \A j \in 1..Len(G) : Len(F) + j \in 1..Len(H)
  BY <1>3
<1>6. /\ \A i \in 1..Len(F) : F[i].kind = "Compress" => F[i].index \in A
      /\ \A i \in 1..Len(G) : G[i].kind = "Compress" => G[i].index \in B
  BY DEF SentOnce
<1>7. \A i \in 1..Len(H) : H[i].kind = "Compress" =>
        \/ i \in 1..Len(F) /\ H[i] = F[i] /\ H[i].index \in A
        \/ H[i].index \in B /\ \E j \in 1..Len(G) : i = Len(F) + j /\ H[i] = G[j]
  BY <1>3, <1>4, <1>6, ZenonT(60)
<1>8. ASSUME NEW i \in 1..Len(H), NEW j \in 1..Len(H),
             H[i].kind = "Compress", H[j].kind = "Compress", H[i].index = H[j].index
      PROVE  i = j
  <2>1. CASE H[i].index \in A
    <3>1. H[i].index \notin B
      BY <2>1
    <3>2. i \in 1..Len(F) /\ H[i] = F[i] /\ j \in 1..Len(F) /\ H[j] = F[j]
      BY <1>7, <1>8, <3>1
    <3> QED
      BY <1>8, <3>2 DEF SentOnce
  <2>2. CASE H[i].index \notin A
    <3>1. PICK k \in 1..Len(G) : i = Len(F) + k /\ H[i] = G[k]
      BY <1>7, <1>8, <2>2
    <3>2. PICK l \in 1..Len(G) : j = Len(F) + l /\ H[j] = G[l]
      BY <1>7, <1>8, <2>2
    <3>3. k = l
      BY <1>8, <3>1, <3>2 DEF SentOnce
    <3> QED
      BY <3>1, <3>2, <3>3
  <2> QED
    BY <2>1, <2>2
<1>9. ASSUME NEW s \in A \cup B
      PROVE  \E i \in 1..Len(H) : H[i].kind = "Compress" /\ H[i].index = s
  <2>1. CASE s \in A
    <3>1. PICK i \in 1..Len(F) : F[i].kind = "Compress" /\ F[i].index = s
      BY <2>1 DEF SentOnce
    <3> QED
      BY <1>3, <1>5, <3>1
  <2>2. CASE s \in B
    <3>1. PICK i \in 1..Len(G) : G[i].kind = "Compress" /\ G[i].index = s
      BY <2>2 DEF SentOnce
    <3>2. H[Len(F) + i] = G[i] /\ Len(F) + i \in 1..Len(H)
      BY <1>3, <1>5
    <3> QED
      BY <3>1, <3>2
  <2> QED
    BY <2>1, <2>2
<1>10. \A i \in 1..Len(H) : H[i].kind = "Compress" => H[i].index \in A \cup B
  BY <1>7
<1> QED
  BY <1>2, <1>3, <1>8, <1>9, <1>10 DEF SentOnce

\* Where in a list the messages for those of a set are from: each place of the list
\* with such a shader has a message of its own.
AskedFrom(F, shaders, set, unique, from) ==
  /\ from \in [1..Len(F) -> 1..Len(shaders)]
  /\ \A p \in 1..Len(F) : /\ shaders[from[p]] \in set
                          /\ F[p] = Message("Compress", shaders[from[p]], unique)
  /\ \A p, q \in 1..Len(F) : from[p] = from[q] => p = q
  /\ \A k \in 1..Len(shaders) : shaders[k] \in set => \E p \in 1..Len(F) : from[p] = k

\* What is asked for has such an origin.
LEMMA AskedPlaces ==
  ASSUME NEW shaders \in Seq(Nat), NEW set, NEW unique \in BOOLEAN,
         NEW F, F = Asked(shaders, set, unique)
  PROVE  F \in Seq(AnyMessage) /\ \E from : AskedFrom(F, shaders, set, unique, from)
<1>1. PICK N : N = Len(shaders)
  OBVIOUS
<1>2. N \in Nat /\ DOMAIN shaders = 1..N /\ \A k \in 1..N : shaders[k] \in Nat
  BY <1>1
<1>3. PICK seqs : seqs = [k \in 1..N |-> IF shaders[k] \in set
                                         THEN <<Message("Compress", shaders[k], unique)>> ELSE <<>>]
  OBVIOUS
<1>4. F = FlattenSeq(seqs)
  BY <1>2, <1>3 DEF Asked
<1>5. \A k \in 1..N : Message("Compress", shaders[k], unique) \in AnyMessage
  BY <1>2 DEF Message, AnyMessage
<1>6. seqs \in Seq(Seq(AnyMessage)) /\ Len(seqs) = N
  <2>1. \A k \in 1..N : <<Message("Compress", shaders[k], unique)>> \in Seq(AnyMessage)
    BY <1>5
  <2>2. <<>> \in Seq(AnyMessage)
    OBVIOUS
  <2>3. PICK R : R = Seq(AnyMessage)
    OBVIOUS
  <2>4. seqs \in [1..N -> R]
    BY <1>3, <2>1, <2>2, <2>3
  <2> QED
    BY <1>2, <2>3, <2>4
<1>7. \A k \in 1..N : /\ shaders[k] \in set => Len(seqs[k]) = 1
                      /\ shaders[k] \in set => seqs[k][1] = Message("Compress", shaders[k], unique)
                      /\ shaders[k] \notin set => Len(seqs[k]) = 0
  BY <1>3
<1>8. \A k \in 1..N : \A i \in 1..Len(seqs[k]) :
        i = 1 /\ shaders[k] \in set /\ seqs[k][i] = Message("Compress", shaders[k], unique)
  <2>1. TAKE k \in 1..N
  <2>2. TAKE i \in 1..Len(seqs[k])
  <2>3. shaders[k] \in set
    BY <1>7
  <2>4. Len(seqs[k]) = 1
    BY <1>7, <2>3
  <2>5. i = 1
    BY <2>4
  <2> QED
    BY <1>7, <2>3, <2>5
<1>9. F \in Seq(AnyMessage)
  BY <1>4, <1>6, FlattenPlaces
<1>10. PICK off : Places(seqs, off)
  BY <1>6, FlattenPlaces
<1>11. /\ \A k \in 1..N : \A i \in 1..Len(seqs[k]) :
            off[k] + i \in 1..Len(F) /\ F[off[k] + i] = seqs[k][i]
       /\ \A p \in 1..Len(F) : \E k \in 1..N : \E i \in 1..Len(seqs[k]) : p = off[k] + i
       /\ \A k, l \in 1..N : \A i \in 1..Len(seqs[k]), j \in 1..Len(seqs[l]) :
            off[k] + i = off[l] + j => k = l /\ i = j
  BY <1>4, <1>6, <1>10 DEF Places
<1>12. \A p \in 1..Len(F) : \E k \in 1..N : p = off[k] + 1 /\ 1 \in 1..Len(seqs[k])
  BY <1>8, <1>11
<1>13. PICK from : from = [p \in 1..Len(F) |-> CHOOSE k \in 1..N : p = off[k] + 1 /\ 1 \in 1..Len(seqs[k])]
  OBVIOUS
<1>14. \A p \in 1..Len(F) : from[p] \in 1..N /\ p = off[from[p]] + 1 /\ 1 \in 1..Len(seqs[from[p]])
  BY <1>12, <1>13
<1>15. from \in [1..Len(F) -> 1..N]
  BY <1>13, <1>14
<1>16. \A p \in 1..Len(F) : /\ shaders[from[p]] \in set
                            /\ F[p] = Message("Compress", shaders[from[p]], unique)
  <2>1. TAKE p \in 1..Len(F)
  <2>2. from[p] \in 1..N /\ p = off[from[p]] + 1 /\ 1 \in 1..Len(seqs[from[p]])
    BY <1>14
  <2>3. PICK k \in 1..N : k = from[p]
    BY <2>2
  <2>4. F[off[k] + 1] = seqs[k][1] /\ p = off[k] + 1 /\ 1 \in 1..Len(seqs[k])
    BY <1>11, <2>2, <2>3
  <2>5. shaders[k] \in set /\ F[p] = Message("Compress", shaders[k], unique)
    BY <1>8, <2>4
  <2> QED
    BY <2>3, <2>5
<1>17. \A p, q \in 1..Len(F) : from[p] = from[q] => p = q
  BY <1>14
<1>18. ASSUME NEW k \in 1..N, shaders[k] \in set
       PROVE  \E p \in 1..Len(F) : from[p] = k
  <2>1. 1 \in 1..Len(seqs[k])
    BY <1>7, <1>18
  <2>2. off[k] + 1 \in 1..Len(F)
    BY <1>11, <2>1
  <2>3. PICK p \in 1..Len(F) : p = off[k] + 1
    BY <2>2
  <2>4. from[p] \in 1..N /\ off[k] + 1 = off[from[p]] + 1 /\ 1 \in 1..Len(seqs[from[p]])
    BY <1>14, <2>3
  <2>5. from[p] = k
    BY <1>11, <2>1, <2>4
  <2> QED
    BY <2>5
<1> QED
  BY <1>1, <1>9, <1>15, <1>16, <1>17, <1>18 DEF AskedFrom

\* The shaders of a set among all of them are each asked for once.
LEMMA AskedOnce ==
  ASSUME NEW n \in Nat, NEW set \in SUBSET (1..n), NEW unique \in BOOLEAN
  PROVE  SentOnce(Asked([s \in 1..n |-> s], set, unique), set)
<1>1. PICK all : all = [s \in 1..n |-> s]
  OBVIOUS
<1>2. all \in Seq(Nat) /\ Len(all) = n /\ \A s \in 1..n : all[s] = s
  BY <1>1
<1>3. PICK F : F = Asked(all, set, unique)
  OBVIOUS
<1>4. F \in Seq(AnyMessage)
  BY <1>2, <1>3, AskedPlaces
<1>8. PICK from : AskedFrom(F, all, set, unique, from)
  BY <1>2, <1>3, AskedPlaces
<1>5. /\ from \in [1..Len(F) -> 1..n]
      /\ \A p \in 1..Len(F) : all[from[p]] \in set /\ F[p] = Message("Compress", all[from[p]], unique)
      /\ \A p, q \in 1..Len(F) : from[p] = from[q] => p = q
      /\ \A k \in 1..n : all[k] \in set => \E p \in 1..Len(F) : from[p] = k
  BY <1>2, <1>8 DEF AskedFrom
<1>6. \A p \in 1..Len(F) : F[p].kind = "Compress" /\ F[p].index = from[p] /\ from[p] \in set
  <2>1. TAKE p \in 1..Len(F)
  <2>2. PICK k \in 1..n : k = from[p]
    BY <1>5
  <2>3. all[k] \in set /\ F[p] = Message("Compress", all[k], unique) /\ all[k] = k
    BY <1>2, <1>5, <2>2
  <2>4. Message("Compress", k, unique).kind = "Compress" /\ Message("Compress", k, unique).index = k
    BY DEF Message
  <2> QED
    BY <2>2, <2>3, <2>4
<1>7. \A s \in set : \E p \in 1..Len(F) : F[p].kind = "Compress" /\ F[p].index = s
  <2>1. TAKE s \in set
  <2>2. s \in 1..n /\ all[s] = s
    BY <1>2
  <2>3. PICK p \in 1..Len(F) : from[p] = s
    BY <1>5, <2>2
  <2> QED
    BY <1>6, <2>3
<1>9. \A p, q \in 1..Len(F) : F[p].index = F[q].index => p = q
  <2>1. TAKE p, q \in 1..Len(F)
  <2>2. F[p].index = from[p] /\ F[q].index = from[q]
    BY <1>6
  <2> QED
    BY <1>5, <2>2
<1>10. SentOnce(F, set)
  BY <1>4, <1>6, <1>7, <1>9 DEF SentOnce
<1> QED
  BY <1>1, <1>3, <1>10

\* Map m lists shader s at place i.
Lists(header, m, i, s) == i \in 1..Len(ShadersOf(header, m)) /\ ShadersOf(header, m)[i] = s

\* A shader that is counted once has one place in one map.
LEMMA CountedOnce ==
  ASSUME NEW header, NEW M \in Nat, DOMAIN header.maps = 1..M,
         \A m \in 1..M : ShadersOf(header, m) \in Seq(Nat), NEW s
  PROVE  /\ Len(MapsOf(header, s)) \in Nat
         /\ Len(MapsOf(header, s)) = 1 => \E m \in 1..M : \E i : Lists(header, m, i, s)
         /\ Len(MapsOf(header, s)) = 1 =>
              \A m, n \in 1..M : \A i, j :
                Lists(header, m, i, s) /\ Lists(header, n, j, s) => m = n /\ i = j
<1>1. PICK lists : lists = [m \in 1..M |-> ShadersOf(header, m)]
  OBVIOUS
<1>2. /\ \A m \in 1..M : lists[m] = ShadersOf(header, m)
      /\ \A m \in 1..M : lists[m] \in Seq(Nat) /\ Len(lists[m]) \in Nat
                         /\ DOMAIN lists[m] = 1..Len(lists[m])
  <2>1. \A m \in 1..M : lists[m] = ShadersOf(header, m)
    BY <1>1
  <2>2. \A m \in 1..M : lists[m] \in Seq(Nat)
    BY <2>1
  <2>3. \A q \in Seq(Nat) : Len(q) \in Nat /\ DOMAIN q = 1..Len(q)
    OBVIOUS
  <2> QED
    BY <2>1, <2>2, <2>3
<1>3. PICK places : places = [m \in 1..M |-> {i \in 1..Len(lists[m]) : lists[m][i] = s}]
  OBVIOUS
<1>4. \A m \in 1..M : IsFiniteSet(places[m]) /\ Cardinality(places[m]) \in Nat
  <2>1. TAKE m \in 1..M
  <2>2. IsFiniteSet(1..Len(lists[m]))
    BY <1>2, FS_Interval
  <2>3. places[m] \subseteq 1..Len(lists[m])
    BY <1>3
  <2>4. IsFiniteSet(places[m])
    BY <2>2, <2>3, FS_Subset
  <2> QED
    BY <2>4, FS_CardinalityType
<1>5. PICK seqs : seqs = [m \in 1..M |-> [k \in 1..Cardinality(places[m]) |-> m]]
  OBVIOUS
<1>6. MapsOf(header, s) = FlattenSeq(seqs)
  <2>1. \A m \in 1..M : {i \in DOMAIN ShadersOf(header, m) : ShadersOf(header, m)[i] = s} = places[m]
    BY <1>2, <1>3
  <2>2. [m \in DOMAIN header.maps |->
          [k \in 1..Cardinality({i \in DOMAIN ShadersOf(header, m) : ShadersOf(header, m)[i] = s}) |-> m]]
        = seqs
    BY <1>5, <2>1
  <2> QED
    BY <2>2 DEF MapsOf
<1>7. /\ seqs \in Seq(Seq(Nat)) /\ Len(seqs) = M
      /\ \A m \in 1..M : Len(seqs[m]) = Cardinality(places[m])
  <2>1. \A m \in 1..M : seqs[m] = [k \in 1..Cardinality(places[m]) |-> m]
    BY <1>5
  <2>2. \A m \in 1..M : seqs[m] \in Seq(Nat) /\ Len(seqs[m]) = Cardinality(places[m])
    <3>1. TAKE m \in 1..M
    <3>2. PICK c \in Nat : c = Cardinality(places[m])
      BY <1>4
    <3>3. seqs[m] = [k \in 1..c |-> m]
      BY <2>1, <3>2
    <3> QED
      BY <3>2, <3>3
  <2>3. PICK R : R = Seq(Nat)
    OBVIOUS
  <2>4. seqs \in [1..M -> R]
    BY <1>5, <2>2, <2>3
  <2>5. seqs \in Seq(R) /\ Len(seqs) = M
    BY <2>4
  <2> QED
    BY <2>2, <2>3, <2>5
<1>8. PICK F : F = FlattenSeq(seqs)
  OBVIOUS
<1>9. F \in Seq(Nat) /\ Len(F) \in Nat
  <2>1. F \in Seq(Nat)
    BY <1>7, <1>8, FlattenPlaces
  <2> QED
    BY <2>1
<1>10. PICK off : Places(seqs, off)
  BY <1>7, FlattenPlaces
<1>11. /\ \A m \in 1..M : off[m] \in Nat
       /\ \A m \in 1..M : \A k \in 1..Len(seqs[m]) : off[m] + k \in 1..Len(F)
       /\ \A p \in 1..Len(F) : \E m \in 1..M : \E k \in 1..Len(seqs[m]) : p = off[m] + k
       /\ \A m, n \in 1..M : \A i \in 1..Len(seqs[m]), j \in 1..Len(seqs[n]) :
            off[m] + i = off[n] + j => m = n /\ i = j
  BY <1>7, <1>8, <1>10 DEF Places
<1>12. ASSUME Len(F) = 1
       PROVE  \E m \in 1..M : \E i \in 1..Len(lists[m]) : lists[m][i] = s
  <2>1. PICK m \in 1..M : \E k \in 1..Len(seqs[m]) : 1 = off[m] + k
    BY <1>11, <1>12
  <2>2. Cardinality(places[m]) # 0
    BY <1>7, <2>1
  <2>3. places[m] # {}
    BY <2>2, FS_EmptySet
  <2> QED
    BY <1>3, <2>3
<1>13. ASSUME Len(F) = 1, NEW m \in 1..M, NEW n \in 1..M, NEW i \in 1..Len(lists[m]),
              NEW j \in 1..Len(lists[n]), lists[m][i] = s, lists[n][j] = s
       PROVE  m = n /\ i = j
  <2>1. i \in places[m] /\ j \in places[n]
    BY <1>3, <1>13
  <2>2. Cardinality(places[m]) # 0 /\ Cardinality(places[n]) # 0
    BY <1>4, <2>1, FS_EmptySet
  <2>3. 1 \in 1..Len(seqs[m]) /\ 1 \in 1..Len(seqs[n])
    BY <1>4, <1>7, <2>2, SMTT(60)
  <2>4. off[m] + 1 = off[n] + 1
    <3>1. off[m] + 1 \in 1..1 /\ off[n] + 1 \in 1..1
      BY <1>11, <1>13, <2>3
    <3> QED
      BY <3>1
  <2>5. m = n
    BY <1>11, <2>3, <2>4
  <2>6. ASSUME i # j
        PROVE  FALSE
    <3>1. {i, j} \subseteq places[m]
      BY <2>1, <2>5
    <3>2. IsFiniteSet({i}) /\ Cardinality({i}) = 1
      BY FS_Singleton
    <3>3. PICK both : both = {i} \cup {j}
      OBVIOUS
    <3>4. Cardinality(both) = Cardinality({i}) + 1
      BY <2>6, <3>2, <3>3, FS_AddElement
    <3>5. Cardinality(both) <= Cardinality(places[m])
      BY <1>4, <3>1, <3>3, FS_Subset
    <3>a. \A b, c, d \in Int : c = 1 /\ b = c + 1 /\ b <= d => 2 <= d
      OBVIOUS
    <3>b. Cardinality(both) \in Int /\ Cardinality({i}) \in Int /\ Cardinality(places[m]) \in Int
      BY <1>4, <3>2, <3>4
    <3>6. 2 <= Cardinality(places[m])
      BY <3>2, <3>4, <3>5, <3>a, <3>b
    <3>7. 2 \in 1..Len(seqs[m])
      BY <1>4, <1>7, <3>6
    <3>8. off[m] + 2 \in 1..1
      BY <1>11, <1>13, <3>7
    <3> QED
      BY <1>11, <3>8
  <2> QED
    BY <2>5, <2>6
<1>14. Len(MapsOf(header, s)) = Len(F)
  BY <1>6, <1>8
<1>15. Len(MapsOf(header, s)) \in Nat
  BY <1>9, <1>14
<1>16. ASSUME Len(MapsOf(header, s)) = 1
       PROVE  \E m \in 1..M : \E i : Lists(header, m, i, s)
  <2>1. PICK m \in 1..M : \E i \in 1..Len(lists[m]) : lists[m][i] = s
    BY <1>12, <1>14, <1>16
  <2>2. lists[m] = ShadersOf(header, m)
    BY <1>2
  <2> QED
    BY <2>1, <2>2 DEF Lists
<1>17. ASSUME Len(MapsOf(header, s)) = 1, NEW m \in 1..M, NEW n \in 1..M, NEW i, NEW j,
              Lists(header, m, i, s), Lists(header, n, j, s)
       PROVE  m = n /\ i = j
  <2>1. lists[m] = ShadersOf(header, m) /\ lists[n] = ShadersOf(header, n)
    BY <1>2
  <2>2. /\ i \in 1..Len(lists[m]) /\ lists[m][i] = s
        /\ j \in 1..Len(lists[n]) /\ lists[n][j] = s
    BY <1>17, <2>1 DEF Lists
  <2> QED
    BY <1>13, <1>14, <1>17, <2>2
<1> QED
  BY <1>15, <1>16, <1>17

\* A sequence with an element before and one behind it.
Framed(T, x, A, y) ==
  LET O == <<x>> \o A \o <<y>>
  IN  /\ O \in Seq(T)
      /\ \A i \in 1..Len(O) :
           \/ i = 1 /\ O[i] = x
           \/ i - 1 \in 1..Len(A) /\ O[i] = A[i - 1]
           \/ O[i] = y
      /\ \A i \in 1..Len(A) : i + 1 \in 1..Len(O) /\ O[i + 1] = A[i]

\* Framing keeps the elements and moves them by one.
LEMMA FramedSequence ==
  ASSUME NEW T, NEW x \in T, NEW y \in T, NEW A \in Seq(T)
  PROVE  Framed(T, x, A, y)
<1>1. PICK B : B = <<x>> \o A
  OBVIOUS
<1>2. PICK O : O = B \o <<y>>
  OBVIOUS
<1>3. /\ B \in Seq(T) /\ Len(B) = Len(A) + 1 /\ Len(A) \in Nat /\ B[1] = x
      /\ \A i \in 1..Len(A) : B[i + 1] = A[i]
  BY <1>1
<1>4. /\ O \in Seq(T) /\ Len(O) = Len(A) + 2 /\ O[Len(A) + 2] = y
      /\ \A i \in 1..(Len(A) + 1) : O[i] = B[i]
  BY <1>2, <1>3
<1>5. \A i \in 1..Len(A) : i + 1 \in 1..(Len(A) + 1) /\ i + 1 \in 1..Len(O)
  BY <1>3, <1>4
<1>6. \A i \in 1..Len(A) : O[i + 1] = A[i]
  BY <1>3, <1>4, <1>5
<1>7. ASSUME NEW i \in 1..Len(O)
      PROVE  i = 1 \/ i - 1 \in 1..Len(A) \/ i = Len(A) + 2
  BY <1>3, <1>4
<1>8. O[1] = x
  BY <1>3, <1>4
<1>9. ASSUME NEW i \in 1..Len(O), i - 1 \in 1..Len(A)
      PROVE  O[i] = A[i - 1]
  <2>1. (i - 1) + 1 = i
    BY <1>3, <1>4
  <2> QED
    BY <1>6, <1>9, <2>1
<1>10. Framed(T, x, A, y)
  BY <1>1, <1>2, <1>4, <1>5, <1>6, <1>7, <1>8, <1>9 DEF Framed
<1> QED
  BY <1>10

\* The requests for code among the messages O are those of A, in their order.
RequestsOf(O, A) ==
  /\ \A i \in 1..Len(O) : O[i].kind = "Compress" => i - 1 \in 1..Len(A) /\ O[i] = A[i - 1]
  /\ \A i \in 1..Len(A) : i + 1 \in 1..Len(O) /\ O[i + 1] = A[i]

\* What a map sends: between the marks, the messages for its own shaders.
LEMMA OwnPlaces ==
  ASSUME NEW header, NEW own, NEW m \in Nat, ShadersOf(header, m) \in Seq(Nat),
         NEW A, A = Asked(ShadersOf(header, m), own, TRUE), NEW O, O = OwnMessages(header, own, m)
  PROVE  O \in Seq(AnyMessage) /\ RequestsOf(O, A)
<1>1. A \in Seq(AnyMessage)
  BY AskedPlaces
<1>2. PICK start : start = Message("StartMap", m, FALSE)
  OBVIOUS
<1>3. PICK end : end = Message("EndMap", m, FALSE)
  OBVIOUS
<1>4. /\ start \in AnyMessage /\ start.kind # "Compress"
      /\ end \in AnyMessage /\ end.kind # "Compress"
  BY <1>2, <1>3 DEF Message, AnyMessage
<1>5. O = <<start>> \o A \o <<end>>
  BY <1>2, <1>3 DEF OwnMessages
<1>6. Framed(AnyMessage, start, A, end)
  BY <1>1, <1>4, FramedSequence
<1>7. /\ O \in Seq(AnyMessage)
      /\ \A i \in 1..Len(O) :
           \/ i = 1 /\ O[i] = start
           \/ i - 1 \in 1..Len(A) /\ O[i] = A[i - 1]
           \/ O[i] = end
      /\ \A i \in 1..Len(A) : i + 1 \in 1..Len(O) /\ O[i + 1] = A[i]
  BY <1>5, <1>6 DEF Framed
<1> QED
  BY <1>4, <1>7 DEF RequestsOf

\* The own shaders of the maps are each asked for once.
LEMMA OwnOnce ==
  ASSUME NEW header, NEW M \in Nat, DOMAIN header.maps = 1..M, NEW n \in Nat,
         \A m \in 1..M : ShadersOf(header, m) \in Seq(1..n),
         NEW own, own = {s \in 1..n : Len(MapsOf(header, s)) = 1}
  PROVE  SentOnce(FlattenSeq([m \in 1..M |-> OwnMessages(header, own, m)]), own)
<1>1. PICK lists : lists = [m \in 1..M |-> ShadersOf(header, m)]
  OBVIOUS
<1>2. \A m \in 1..M : /\ lists[m] = ShadersOf(header, m) /\ lists[m] \in Seq(Nat)
                      /\ \A k \in 1..Len(lists[m]) : lists[m][k] \in 1..n
  <2>1. \A q \in Seq(1..n) : q \in Seq(Nat) /\ \A k \in 1..Len(q) : q[k] \in 1..n
    OBVIOUS
  <2> QED
    BY <1>1, <2>1
<1>3. PICK asked : asked = [m \in 1..M |-> Asked(lists[m], own, TRUE)]
  OBVIOUS
<1>4. PICK seqs : seqs = [m \in 1..M |-> OwnMessages(header, own, m)]
  OBVIOUS
<1>5. \A m \in 1..M : seqs[m] \in Seq(AnyMessage) /\ RequestsOf(seqs[m], asked[m])
  <2>1. TAKE m \in 1..M
  <2>2. /\ m \in Nat /\ ShadersOf(header, m) \in Seq(Nat)
        /\ asked[m] = Asked(ShadersOf(header, m), own, TRUE) /\ seqs[m] = OwnMessages(header, own, m)
    <3>1. m \in Nat
      OBVIOUS
    <3>2. ShadersOf(header, m) = lists[m] /\ lists[m] \in Seq(Nat)
      BY <1>2
    <3>3. asked[m] = Asked(lists[m], own, TRUE) /\ seqs[m] = OwnMessages(header, own, m)
      BY <1>3, <1>4
    <3> QED
      BY <3>1, <3>2, <3>3
  <2> QED
    BY <2>2, OwnPlaces
<1>6. \A m \in 1..M : \E from : AskedFrom(asked[m], lists[m], own, TRUE, from)
  <2>1. TAKE m \in 1..M
  <2>2. lists[m] \in Seq(Nat) /\ asked[m] = Asked(lists[m], own, TRUE)
    BY <1>2, <1>3
  <2> QED
    BY <2>2, AskedPlaces
<1>7. PICK from : from = [m \in 1..M |-> CHOOSE f : AskedFrom(asked[m], lists[m], own, TRUE, f)]
  OBVIOUS
<1>8. \A m \in 1..M : AskedFrom(asked[m], lists[m], own, TRUE, from[m])
  BY <1>6, <1>7
<1>9. \A m \in 1..M :
        /\ \A p \in 1..Len(asked[m]) : /\ from[m][p] \in 1..Len(lists[m])
                                       /\ lists[m][from[m][p]] \in own
                                       /\ asked[m][p].kind = "Compress"
                                       /\ asked[m][p].index = lists[m][from[m][p]]
        /\ \A p, q \in 1..Len(asked[m]) : from[m][p] = from[m][q] => p = q
        /\ \A k \in 1..Len(lists[m]) : lists[m][k] \in own =>
             \E p \in 1..Len(asked[m]) : from[m][p] = k
  <2>1. TAKE m \in 1..M
  <2>2. AskedFrom(asked[m], lists[m], own, TRUE, from[m])
    BY <1>8
  <2>3. \A k : Message("Compress", k, TRUE).kind = "Compress" /\ Message("Compress", k, TRUE).index = k
    BY DEF Message
  <2>4. /\ from[m] \in [1..Len(asked[m]) -> 1..Len(lists[m])]
        /\ \A p \in 1..Len(asked[m]) :
             /\ lists[m][from[m][p]] \in own
             /\ asked[m][p] = Message("Compress", lists[m][from[m][p]], TRUE)
        /\ \A p, q \in 1..Len(asked[m]) : from[m][p] = from[m][q] => p = q
        /\ \A k \in 1..Len(lists[m]) : lists[m][k] \in own =>
             \E p \in 1..Len(asked[m]) : from[m][p] = k
    BY <2>2 DEF AskedFrom
  <2>5. \A p \in 1..Len(asked[m]) : from[m][p] \in 1..Len(lists[m])
    BY <2>4
  <2>6. \A p \in 1..Len(asked[m]) : asked[m][p].kind = "Compress"
                                     /\ asked[m][p].index = lists[m][from[m][p]]
    <3>1. TAKE p \in 1..Len(asked[m])
    <3>2. PICK k : k = lists[m][from[m][p]]
      OBVIOUS
    <3>3. asked[m][p] = Message("Compress", k, TRUE)
      BY <2>4, <3>2
    <3> QED
      BY <2>3, <3>2, <3>3
  <2> QED
    BY <2>4, <2>5, <2>6
<1>10. PICK F : F = FlattenSeq(seqs)
  OBVIOUS
<1>11. seqs \in Seq(Seq(AnyMessage)) /\ Len(seqs) = M
  <2>1. PICK R : R = Seq(AnyMessage)
    OBVIOUS
  <2>2. seqs \in [1..M -> R]
    BY <1>4, <1>5, <2>1
  <2> QED
    BY <2>1, <2>2
<1>12. F \in Seq(AnyMessage)
  BY <1>10, <1>11, FlattenPlaces
<1>13. PICK off : Places(seqs, off)
  BY <1>11, FlattenPlaces
<1>14. /\ \A m \in 1..M : \A i \in 1..Len(seqs[m]) :
            off[m] + i \in 1..Len(F) /\ F[off[m] + i] = seqs[m][i]
       /\ \A p \in 1..Len(F) : \E m \in 1..M : \E i \in 1..Len(seqs[m]) : p = off[m] + i
  BY <1>10, <1>11, <1>13 DEF Places
\* the place of a message in its map, and in the list of the map
<1>15. \A p \in 1..Len(F) : F[p].kind = "Compress" =>
         \E m \in 1..M : \E j \in 1..Len(asked[m]) :
           /\ p = off[m] + (j + 1)
           /\ F[p].index = lists[m][from[m][j]] /\ F[p].index \in own
  <2>1. TAKE p \in 1..Len(F)
  <2>2. HAVE F[p].kind = "Compress"
  <2>a. PICK m \in 1..M : \E i \in 1..Len(seqs[m]) : p = off[m] + i
    BY <1>14
  <2>3. PICK i \in 1..Len(seqs[m]) : p = off[m] + i
    BY <2>a
  <2>4. F[p] = seqs[m][i]
    BY <1>14, <2>3
  <2>5. i - 1 \in 1..Len(asked[m]) /\ seqs[m][i] = asked[m][i - 1]
    BY <1>5, <2>2, <2>4 DEF RequestsOf
  <2>6. PICK j \in 1..Len(asked[m]) : j = i - 1
    BY <2>5
  <2>7. Len(seqs[m]) \in Nat
    BY <1>5
  <2>8. i = j + 1
    BY <2>6, <2>7
  <2>9. F[p] = asked[m][j]
    BY <2>4, <2>5, <2>6
  <2>10. F[p].index = lists[m][from[m][j]] /\ F[p].index \in own
    <3>1. /\ asked[m][j].index = lists[m][from[m][j]]
          /\ lists[m][from[m][j]] \in own
      BY <1>9
    <3> QED
      BY <2>9, <3>1
  <2>11. p = off[m] + (j + 1)
    BY <2>3, <2>8
  <2> QED
    BY <2>10, <2>11
<1>16. ASSUME NEW p \in 1..Len(F), NEW q \in 1..Len(F),
              F[p].kind = "Compress", F[q].kind = "Compress", F[p].index = F[q].index
       PROVE  p = q
  <2>a. PICK m \in 1..M : \E j \in 1..Len(asked[m]) :
          p = off[m] + (j + 1) /\ F[p].index = lists[m][from[m][j]] /\ F[p].index \in own
    BY <1>15, <1>16
  <2>1. PICK j \in 1..Len(asked[m]) :
          p = off[m] + (j + 1) /\ F[p].index = lists[m][from[m][j]] /\ F[p].index \in own
    BY <2>a
  <2>b. PICK l \in 1..M : \E k \in 1..Len(asked[l]) :
          q = off[l] + (k + 1) /\ F[q].index = lists[l][from[l][k]]
    BY <1>15, <1>16
  <2>2. PICK k \in 1..Len(asked[l]) :
          q = off[l] + (k + 1) /\ F[q].index = lists[l][from[l][k]]
    BY <2>b
  <2>3. PICK s : s = F[p].index
    OBVIOUS
  <2>4. Len(MapsOf(header, s)) = 1
    BY <2>1, <2>3
  <2>5. from[m][j] \in 1..Len(lists[m]) /\ from[l][k] \in 1..Len(lists[l])
    BY <1>9
  <2>6. lists[m][from[m][j]] = s /\ lists[l][from[l][k]] = s
    BY <1>16, <2>1, <2>2, <2>3
  <2>7. Lists(header, m, from[m][j], s) /\ Lists(header, l, from[l][k], s)
    <3>1. lists[m] = ShadersOf(header, m) /\ lists[l] = ShadersOf(header, l)
      BY <1>2
    <3> QED
      BY <2>5, <2>6, <3>1 DEF Lists
  <2>8. m = l /\ from[m][j] = from[l][k]
    <3>1. \A a \in 1..M : ShadersOf(header, a) \in Seq(Nat)
      BY <1>2
    <3>2. \A a, b \in 1..M : \A x, y :
            Lists(header, a, x, s) /\ Lists(header, b, y, s) => a = b /\ x = y
      BY <2>4, <3>1, CountedOnce
    <3> QED
      BY <2>7, <3>2
  <2>9. j = k
    BY <1>9, <2>8
  <2> QED
    BY <2>1, <2>2, <2>8, <2>9
<1>17. ASSUME NEW s \in own
       PROVE  \E p \in 1..Len(F) : F[p].kind = "Compress" /\ F[p].index = s
  <2>a. PICK m \in 1..M : \E k \in 1..Len(lists[m]) : lists[m][k] = s
    <3>1. \A a \in 1..M : ShadersOf(header, a) \in Seq(Nat)
      BY <1>2
    <3>2. Len(MapsOf(header, s)) = 1
      OBVIOUS
    <3>3. PICK m \in 1..M : \E k : Lists(header, m, k, s)
      BY <3>1, <3>2, CountedOnce
    <3>4. lists[m] = ShadersOf(header, m)
      BY <1>2
    <3> QED
      BY <3>3, <3>4 DEF Lists
  <2>1. PICK k \in 1..Len(lists[m]) : lists[m][k] = s
    BY <2>a
  <2>2. PICK j \in 1..Len(asked[m]) : from[m][j] = k
    BY <1>9, <2>1, ZenonT(60)
  <2>3. asked[m][j].kind = "Compress" /\ asked[m][j].index = s
    BY <1>9, <2>1, <2>2
  <2>4. j + 1 \in 1..Len(seqs[m]) /\ seqs[m][j + 1] = asked[m][j]
    BY <1>5 DEF RequestsOf
  <2>5. off[m] + (j + 1) \in 1..Len(F) /\ F[off[m] + (j + 1)] = seqs[m][j + 1]
    BY <1>14, <2>4
  <2> QED
    BY <2>3, <2>4, <2>5
<1>18. \A p \in 1..Len(F) : F[p].kind = "Compress" => F[p].index \in own
  BY <1>15
<1>19. SentOnce(F, own)
  BY <1>12, <1>16, <1>17, <1>18 DEF SentOnce
<1> QED
  BY <1>4, <1>10, <1>19

\* Every shader of an archive is asked for exactly once: a shader that several maps
\* or no map refer to by itself, one of a single map with that map.
LEMMA MessagesOnce ==
  ASSUME NEW archive, NEW n \in Nat, NEW M \in Nat,
         DOMAIN archive.header.shaders = 1..n, DOMAIN archive.header.maps = 1..M,
         \A m \in 1..M : ShadersOf(archive.header, m) \in Seq(1..n)
  PROVE  SentOnce(Messages(archive), 1..n)
<1>1. PICK header : header = archive.header
  OBVIOUS
<1>2. PICK count : count = [s \in 1..n |-> Len(MapsOf(header, s))]
  OBVIOUS
<1>3. PICK shared : shared = {s \in 1..n : count[s] > 1}
  OBVIOUS
<1>4. PICK own : own = {s \in 1..n : count[s] = 1}
  OBVIOUS
<1>5. PICK detached : detached = {s \in 1..n : count[s] = 0}
  OBVIOUS
<1>6. PICK A : A = Asked([s \in 1..n |-> s], shared, FALSE)
  OBVIOUS
<1>7. PICK B : B = FlattenSeq([m \in 1..M |-> OwnMessages(header, own, m)])
  OBVIOUS
<1>8. PICK C : C = Asked([s \in 1..n |-> s], detached, FALSE)
  OBVIOUS
<1>9. Messages(archive) = A \o B \o C
  <2>1. DOMAIN header.shaders = 1..n /\ DOMAIN header.maps = 1..M /\ DOMAIN count = 1..n
    BY <1>1, <1>2
  <2> QED
    BY <1>1, <1>2, <1>3, <1>4, <1>5, <1>6, <1>7, <1>8, <2>1 DEF Messages
<1>10. \A s \in 1..n : count[s] \in Nat
  <2>1. TAKE s \in 1..n
  <2>2. \A m \in 1..M : ShadersOf(header, m) \in Seq(Nat)
    <3>1. \A q \in Seq(1..n) : q \in Seq(Nat)
      OBVIOUS
    <3> QED
      BY <1>1, <3>1
  <2>3. Len(MapsOf(header, s)) \in Nat
    BY <1>1, <2>2, CountedOnce
  <2> QED
    BY <1>2, <2>3
<1>11. SentOnce(A, shared)
  BY <1>3, <1>6, AskedOnce
<1>12. SentOnce(B, own)
  <2>1. own = {s \in 1..n : Len(MapsOf(header, s)) = 1}
    BY <1>2, <1>4
  <2> QED
    BY <1>1, <1>7, <2>1, OwnOnce
<1>13. SentOnce(C, detached)
  BY <1>5, <1>8, AskedOnce
<1>14. /\ shared \cap own = {} /\ (shared \cup own) \cap detached = {}
       /\ (shared \cup own) \cup detached = 1..n
  BY <1>3, <1>4, <1>5, <1>10
<1>15. SentOnce(A \o B, shared \cup own)
  BY <1>11, <1>12, <1>14, JoinSentOnce
<1>16. SentOnce((A \o B) \o C, (shared \cup own) \cup detached)
  BY <1>13, <1>14, <1>15, JoinSentOnce
<1> QED
  BY <1>9, <1>14, <1>16

-----------------------------------------------------------------------------
(* What is sent for a map.                                                 *)

\* A request for a shader of one map only.
IsOwn(message) == message.kind = "Compress" /\ message.unique

\* What map m sends, which lists the shaders in S: a mark, requests for a own shaders of
\* it, and a mark.
FramesMap(O, own, S, m, a) ==
  /\ O \in Seq(AnyMessage) /\ a \in Nat /\ Len(O) = a + 2
  /\ O[1].kind = "StartMap" /\ O[a + 2].kind = "EndMap" /\ O[a + 2].index = m
  /\ \A i \in 2..(a + 1) : IsOwn(O[i]) /\ O[i].index \in own /\ O[i].index \in S

\* A map sends a mark, requests for its own shaders, and a mark.
LEMMA MapFrames ==
  ASSUME NEW header, NEW own, NEW m \in Nat, ShadersOf(header, m) \in Seq(Nat),
         NEW O, O = OwnMessages(header, own, m)
  PROVE  \E a : FramesMap(O, own, ToSet(ShadersOf(header, m)), m, a)
<1>1. PICK list : list = ShadersOf(header, m)
  OBVIOUS
<1>2. PICK A : A = Asked(list, own, TRUE)
  OBVIOUS
<1>3. A \in Seq(AnyMessage) /\ \E from : AskedFrom(A, list, own, TRUE, from)
  BY <1>1, <1>2, AskedPlaces
<1>4. PICK from : AskedFrom(A, list, own, TRUE, from)
  BY <1>3
<1>5. PICK x : x = Message("StartMap", m, FALSE)
  OBVIOUS
<1>6. PICK y : y = Message("EndMap", m, FALSE)
  OBVIOUS
<1>7. x \in AnyMessage /\ x.kind = "StartMap" /\ y \in AnyMessage /\ y.kind = "EndMap" /\ y.index = m
  BY <1>5, <1>6 DEF Message, AnyMessage
<1>8. PICK B : B = <<x>> \o A
  OBVIOUS
<1>9. O = B \o <<y>>
  BY <1>1, <1>2, <1>5, <1>6, <1>8 DEF OwnMessages
<1>10. PICK a : a = Len(A)
  OBVIOUS
<1>11. /\ a \in Nat /\ B \in Seq(AnyMessage) /\ Len(B) = a + 1 /\ B[1] = x
       /\ \A i \in 2..(a + 1) : i - 1 \in 1..a /\ B[i] = A[i - 1]
  BY <1>3, <1>7, <1>8, <1>10
<1>12. /\ O \in Seq(AnyMessage) /\ Len(O) = a + 2 /\ O[a + 2] = y
       /\ \A i \in 1..(a + 1) : O[i] = B[i]
  BY <1>7, <1>9, <1>11
<1>13. O[1] = x /\ \A i \in 2..(a + 1) : i - 1 \in 1..a /\ O[i] = A[i - 1]
  <2>1. 1 \in 1..(a + 1) /\ \A i \in 2..(a + 1) : i \in 1..(a + 1)
    BY <1>11
  <2> QED
    BY <1>11, <1>12, <2>1
<1>14. ASSUME NEW p \in 1..a
       PROVE  IsOwn(A[p]) /\ A[p].index \in own /\ A[p].index \in ToSet(list)
  <2>1. PICK k : k = from[p]
    OBVIOUS
  <2>2. k \in 1..Len(list) /\ list[k] \in own /\ A[p] = Message("Compress", list[k], TRUE)
    BY <1>4, <1>10, <2>1 DEF AskedFrom
  <2>3. list[k] \in ToSet(list)
    BY <1>1, <2>2, SeqTypes
  <2>4. PICK s : s = list[k]
    OBVIOUS
  <2>5. A[p] = [kind |-> "Compress", index |-> s, unique |-> TRUE]
    BY <2>2, <2>4 DEF Message
  <2>6. A[p].kind = "Compress" /\ A[p].unique = TRUE /\ A[p].index = s
    BY <2>5
  <2> QED
    BY <2>2, <2>3, <2>4, <2>6, Zenon DEF IsOwn
<1>15. \A i \in 2..(a + 1) : IsOwn(O[i]) /\ O[i].index \in own /\ O[i].index \in ToSet(list)
  <2>1. TAKE i \in 2..(a + 1)
  <2>2. PICK p \in 1..a : p = i - 1
    BY <1>13
  <2>3. O[i] = A[p]
    BY <1>13, <2>2
  <2> QED
    BY <1>14, <2>3
<1>16. FramesMap(O, own, ToSet(list), m, a)
  BY <1>7, <1>11, <1>12, <1>13, <1>15, Zenon DEF FramesMap
<1> QED
  BY <1>1, <1>16

\* Among all messages, those of map m are from j to k.
Between(F, S, m, j, k) ==
  /\ j \in 1..Len(F) /\ k \in 1..Len(F) /\ j < k
  /\ F[j].kind = "StartMap" /\ F[k].kind = "EndMap" /\ F[k].index = m
  /\ \A i \in (j + 1)..(k - 1) : IsOwn(F[i]) /\ F[i].index \in S

\* The messages of each map are in one place, with all requests for own shaders.
Marked(F, lists, M, own, start, end) ==
  /\ \A m \in 1..M : Between(F, ToSet(lists[m]), m, start[m], end[m])
  /\ \A i \in 1..Len(F) : F[i].kind = "EndMap" => \E m \in 1..M : i = end[m]
  /\ \A i \in 1..Len(F) : IsOwn(F[i]) =>
       F[i].index \in own /\ \E m \in 1..M : start[m] < i /\ i < end[m]

\* So they are among what the maps send.
LEMMA OwnMarked ==
  ASSUME NEW header, NEW M \in Nat, NEW own, NEW lists, lists = [m \in 1..M |-> ShadersOf(header, m)],
         \A m \in 1..M : lists[m] \in Seq(Nat),
         NEW F, F = FlattenSeq([m \in 1..M |-> OwnMessages(header, own, m)])
  PROVE  F \in Seq(AnyMessage) /\ \E start, end : Marked(F, lists, M, own, start, end)
<1>1. PICK seqs : seqs = [m \in 1..M |-> OwnMessages(header, own, m)]
  OBVIOUS
<1>2. \A m \in 1..M : \E a : FramesMap(seqs[m], own, ToSet(lists[m]), m, a)
  <2>1. TAKE m \in 1..M
  <2>2. m \in Nat /\ ShadersOf(header, m) = lists[m] /\ lists[m] \in Seq(Nat)
        /\ seqs[m] = OwnMessages(header, own, m)
    BY <1>1
  <2> QED
    BY <2>2, MapFrames
<1>3. PICK a : a = [m \in 1..M |-> CHOOSE b : FramesMap(seqs[m], own, ToSet(lists[m]), m, b)]
  OBVIOUS
<1>4. \A m \in 1..M : FramesMap(seqs[m], own, ToSet(lists[m]), m, a[m])
  BY <1>2, <1>3
<1>5. seqs \in Seq(Seq(AnyMessage)) /\ Len(seqs) = M
  <2>1. PICK R : R = Seq(AnyMessage)
    OBVIOUS
  <2>2. \A m \in 1..M : seqs[m] \in R
    BY <1>4, <2>1 DEF FramesMap
  <2>3. seqs \in [1..M -> R]
    BY <1>1, <2>2
  <2> QED
    BY <2>1, <2>3
<1>6. F = FlattenSeq(seqs)
  BY <1>1
<1>7. F \in Seq(AnyMessage)
  BY <1>5, <1>6, FlattenPlaces
<1>8. PICK off : Places(seqs, off)
  BY <1>5, FlattenPlaces
<1>9. /\ \A m \in 1..M : off[m] \in Nat
      /\ \A m \in 1..M : \A i \in 1..Len(seqs[m]) :
           off[m] + i \in 1..Len(F) /\ F[off[m] + i] = seqs[m][i]
      /\ \A p \in 1..Len(F) : \E m \in 1..M : \E i \in 1..Len(seqs[m]) : p = off[m] + i
  <2>1. off \in [1..M -> Nat]
    BY <1>5, <1>8, Zenon DEF Places
  <2>2. \A m \in 1..M : \A i \in 1..Len(seqs[m]) :
          off[m] + i \in 1..Len(F) /\ F[off[m] + i] = seqs[m][i]
    <3>1. \A m \in 1..Len(seqs) : \A i \in 1..Len(seqs[m]) :
            /\ off[m] + i \in 1..Len(FlattenSeq(seqs))
            /\ FlattenSeq(seqs)[off[m] + i] = seqs[m][i]
      BY <1>8 DEF Places
    <3> QED
      BY <1>5, <1>6, <3>1
  <2>3. \A p \in 1..Len(F) : \E m \in 1..M : \E i \in 1..Len(seqs[m]) : p = off[m] + i
    BY <1>5, <1>6, <1>8, Zenon DEF Places
  <2> QED
    BY <2>1, <2>2, <2>3
<1>10. PICK start : start = [m \in 1..M |-> off[m] + 1]
  OBVIOUS
<1>11. PICK end : end = [m \in 1..M |-> off[m] + (a[m] + 2)]
  OBVIOUS
<1>12. \A m \in 1..M : /\ a[m] \in Nat /\ Len(seqs[m]) = a[m] + 2 /\ seqs[m][1].kind = "StartMap"
                       /\ seqs[m][a[m] + 2].kind = "EndMap" /\ seqs[m][a[m] + 2].index = m
                       /\ \A i \in 2..(a[m] + 1) : /\ IsOwn(seqs[m][i]) /\ seqs[m][i].index \in own
                                                   /\ seqs[m][i].index \in ToSet(lists[m])
  BY <1>4 DEF FramesMap
<1>13. ASSUME NEW m \in 1..M
       PROVE  Between(F, ToSet(lists[m]), m, start[m], end[m])
  <2>1. PICK o, n : o = off[m] /\ n = a[m]
    OBVIOUS
  <2>2. o \in Nat /\ n \in Nat /\ start[m] = o + 1 /\ end[m] = o + (n + 2) /\ Len(seqs[m]) = n + 2
    BY <1>9, <1>10, <1>11, <1>12, <2>1
  <2>3. 1 \in 1..Len(seqs[m]) /\ n + 2 \in 1..Len(seqs[m])
    BY <2>2
  <2>4. /\ o + 1 \in 1..Len(F) /\ F[o + 1] = seqs[m][1]
        /\ o + (n + 2) \in 1..Len(F) /\ F[o + (n + 2)] = seqs[m][n + 2]
    BY <1>9, <2>1, <2>3
  <2>5. F[start[m]].kind = "StartMap" /\ F[end[m]].kind = "EndMap" /\ F[end[m]].index = m
    <3>1. seqs[m][1].kind = "StartMap" /\ seqs[m][n + 2].kind = "EndMap" /\ seqs[m][n + 2].index = m
      BY <1>12, <2>1
    <3> QED
      BY <2>2, <2>4, <3>1
  <2>6. ASSUME NEW i \in (start[m] + 1)..(end[m] - 1)
        PROVE  IsOwn(F[i]) /\ F[i].index \in ToSet(lists[m])
    <3>1. PICK k : k = i - o
      OBVIOUS
    <3>2. k \in 2..(n + 1) /\ k \in 1..Len(seqs[m]) /\ i = o + k
      BY <2>2, <3>1
    <3>3. F[i] = seqs[m][k]
      BY <1>9, <2>1, <3>2
    <3> QED
      BY <1>12, <2>1, <3>2, <3>3
  <2>7. start[m] < end[m]
    BY <2>2
  <2> QED
    BY <2>2, <2>4, <2>5, <2>6, <2>7 DEF Between
<1>14. ASSUME NEW p \in 1..Len(F), NEW m \in 1..M, NEW i \in 1..Len(seqs[m]), p = off[m] + i
       PROVE  \/ i = 1 /\ F[p].kind = "StartMap"
              \/ p = end[m] /\ F[p].kind = "EndMap"
              \/ F[p].index \in own /\ start[m] < p /\ p < end[m] /\ IsOwn(F[p])
  <2>1. PICK o, n : o = off[m] /\ n = a[m]
    OBVIOUS
  <2>2. o \in Nat /\ n \in Nat /\ start[m] = o + 1 /\ end[m] = o + (n + 2) /\ Len(seqs[m]) = n + 2
    BY <1>9, <1>10, <1>11, <1>12, <2>1
  <2>3. F[p] = seqs[m][i]
    BY <1>9, <1>14
  <2>4. i = 1 \/ i = n + 2 \/ (i \in 2..(n + 1) /\ o + 1 < o + i /\ o + i < o + (n + 2))
    BY <2>2
  <2>5. CASE i = 1
    BY <1>12, <2>3, <2>5
  <2>6. CASE i = n + 2
    <3>1. seqs[m][i].kind = "EndMap"
      BY <1>12, <2>1, <2>6
    <3>2. p = end[m]
      BY <1>14, <2>1, <2>2, <2>6
    <3> QED
      BY <2>3, <3>1, <3>2
  <2>7. CASE i \in 2..(n + 1) /\ o + 1 < o + i /\ o + i < o + (n + 2)
    <3>1. IsOwn(seqs[m][i]) /\ seqs[m][i].index \in own
      BY <1>12, <2>1, <2>7
    <3>2. start[m] < p /\ p < end[m]
      BY <1>14, <2>1, <2>2, <2>7
    <3> QED
      BY <2>3, <3>1, <3>2
  <2> QED
    BY <2>4, <2>5, <2>6, <2>7
<1>15. \A p \in 1..Len(F) : \E m \in 1..M :
         \/ F[p].kind = "StartMap"
         \/ p = end[m] /\ F[p].kind = "EndMap"
         \/ F[p].index \in own /\ start[m] < p /\ p < end[m] /\ IsOwn(F[p])
  BY <1>9, <1>14
<1>16. \A p \in 1..Len(F) : F[p].kind = "EndMap" => \E m \in 1..M : p = end[m]
  <2>1. \A x : x.kind = "EndMap" => x.kind # "StartMap" /\ ~IsOwn(x)
    BY DEF IsOwn
  <2> QED
    BY <1>15, <2>1
<1>17. \A p \in 1..Len(F) : IsOwn(F[p]) =>
         F[p].index \in own /\ \E m \in 1..M : start[m] < p /\ p < end[m]
  <2>1. \A x : IsOwn(x) => x.kind # "StartMap" /\ x.kind # "EndMap"
    BY DEF IsOwn
  <2> QED
    BY <1>15, <2>1
<1>18. Marked(F, lists, M, own, start, end)
  BY <1>13, <1>16, <1>17 DEF Marked
<1> QED
  BY <1>7, <1>18

\* Messages before and after, without marks and own shaders.
Plainly(A) == \A i \in 1..Len(A) : A[i].kind # "EndMap" /\ ~IsOwn(A[i])

\* Messages before and after leave the marks with their maps.
LEMMA MarkedBetween ==
  ASSUME NEW A \in Seq(AnyMessage), NEW F \in Seq(AnyMessage), NEW C \in Seq(AnyMessage),
         Plainly(A), Plainly(C), NEW lists, NEW M \in Nat, NEW own, NEW start, NEW end,
         Marked(F, lists, M, own, start, end),
         NEW from, from = [m \in 1..M |-> Len(A) + start[m]],
         NEW to, to = [m \in 1..M |-> Len(A) + end[m]],
         NEW G, G = A \o F \o C
  PROVE  Marked(G, lists, M, own, from, to)
<1>1. PICK a, f, c : a = Len(A) /\ f = Len(F) /\ c = Len(C)
  OBVIOUS
<1>2. PICK H : H = A \o F
  OBVIOUS
<1>3. a \in Nat /\ f \in Nat /\ c \in Nat
  BY <1>1
<1>4. /\ H \in Seq(AnyMessage) /\ Len(H) = a + f
      /\ \A i \in 1..a : H[i] = A[i]
      /\ \A i \in 1..f : H[a + i] = F[i]
  BY <1>1, <1>2
<1>5. /\ Len(G) = a + f + c
      /\ \A i \in 1..(a + f) : G[i] = H[i]
      /\ \A i \in 1..c : G[a + f + i] = C[i]
  BY <1>1, <1>2, <1>3, <1>4
<1>6. \A i \in 1..a : G[i] = A[i]
  BY <1>3, <1>4, <1>5, SMTT(60)
<1>7. \A i \in 1..f : a + i \in 1..Len(G) /\ G[a + i] = F[i]
  BY <1>3, <1>4, <1>5, SMTT(60)
<1>8. \A p \in 1..Len(G) : \/ p \in 1..a
                           \/ p - a \in 1..f /\ p = a + (p - a)
                           \/ p - (a + f) \in 1..c /\ p = a + f + (p - (a + f))
  BY <1>3, <1>5
<1>9. \A p \in 1..Len(G) : G[p].kind = "EndMap" \/ IsOwn(G[p]) =>
        \E i \in 1..f : p = a + i /\ G[p] = F[i]
  BY <1>1, <1>5, <1>6, <1>7, <1>8 DEF Plainly
<1>10. \A m \in 1..M : Between(F, ToSet(lists[m]), m, start[m], end[m])
  BY DEF Marked
<1>11. ASSUME NEW m \in 1..M
       PROVE  Between(G, ToSet(lists[m]), m, from[m], to[m])
  <2>1. PICK j, k : j = start[m] /\ k = end[m]
    OBVIOUS
  <2>2. /\ j \in 1..f /\ k \in 1..f /\ j < k
        /\ F[j].kind = "StartMap" /\ F[k].kind = "EndMap" /\ F[k].index = m
        /\ \A i \in (j + 1)..(k - 1) : IsOwn(F[i]) /\ F[i].index \in ToSet(lists[m])
    BY <1>1, <1>10, <2>1 DEF Between
  <2>3. from[m] = a + j /\ to[m] = a + k
    BY <1>1, <2>1
  <2>4. a + j < a + k
    BY <1>3, <2>2
  <2>5. G[a + j] = F[j] /\ G[a + k] = F[k] /\ a + j \in 1..Len(G) /\ a + k \in 1..Len(G)
    BY <1>7, <2>2
  <2>7. PICK u, v : u = a + j /\ v = a + k
    OBVIOUS
  <2>9. ASSUME NEW i \in (u + 1)..(v - 1)
        PROVE  IsOwn(G[i]) /\ G[i].index \in ToSet(lists[m])
    <3>1. PICK l : l = i - a
      OBVIOUS
    <3>2. l \in (j + 1)..(k - 1) /\ l \in 1..f /\ i = a + l
      BY <1>3, <2>2, <2>7, <3>1
    <3>3. G[i] = F[l]
      BY <1>7, <3>2
    <3> QED
      BY <2>2, <3>2, <3>3
  <2>8. /\ u \in 1..Len(G) /\ v \in 1..Len(G) /\ u < v
        /\ G[u].kind = "StartMap" /\ G[v].kind = "EndMap" /\ G[v].index = m
    BY <2>2, <2>4, <2>5, <2>7
  <2>10. from[m] = u /\ to[m] = v
    BY <2>3, <2>7
  <2> QED
    BY <2>8, <2>9, <2>10 DEF Between
<1>12. \A p \in 1..Len(G) : G[p].kind = "EndMap" => \E m \in 1..M : p = to[m]
  <2>1. \A i \in 1..f : F[i].kind = "EndMap" => \E m \in 1..M : i = end[m]
    BY <1>1 DEF Marked
  <2>2. ASSUME NEW p \in 1..Len(G), G[p].kind = "EndMap"
        PROVE  \E m \in 1..M : p = to[m]
    <3>1. PICK i \in 1..f : p = a + i /\ G[p] = F[i]
      BY <1>9, <2>2
    <3>2. PICK m \in 1..M : i = end[m]
      BY <2>1, <2>2, <3>1
    <3> QED
      BY <1>1, <3>1, <3>2
  <2> QED
    BY <2>2
<1>13. ASSUME NEW p \in 1..Len(G), IsOwn(G[p])
       PROVE  G[p].index \in own /\ \E m \in 1..M : from[m] < p /\ p < to[m]
  <2>1. PICK i \in 1..f : p = a + i /\ G[p] = F[i]
    BY <1>9, <1>13
  <2>2. F[i].index \in own /\ \E m \in 1..M : start[m] < i /\ i < end[m]
    BY <1>1, <1>13, <2>1 DEF Marked
  <2>3. PICK m \in 1..M : start[m] < i /\ i < end[m]
    BY <2>2
  <2>4. start[m] \in 1..f /\ end[m] \in 1..f
    BY <1>1, <1>10 DEF Between
  <2>5. a + start[m] < a + i /\ a + i < a + end[m]
    BY <1>3, <2>3, <2>4, SMTT(60)
  <2>6. from[m] < p /\ p < to[m]
    BY <1>1, <2>1, <2>5
  <2> QED
    BY <2>1, <2>2, <2>6
<1> QED
  BY <1>11, <1>12, <1>13 DEF Marked

\* The requests that Asked makes for shared shaders or those of no map.
LEMMA AskedPlainly ==
  ASSUME NEW list \in Seq(Nat), NEW set, NEW A, A = Asked(list, set, FALSE)
  PROVE  A \in Seq(AnyMessage) /\ Plainly(A)
<1>1. A \in Seq(AnyMessage) /\ \E from : AskedFrom(A, list, set, FALSE, from)
  BY AskedPlaces
<1>2. PICK from : AskedFrom(A, list, set, FALSE, from)
  BY <1>1
<1>3. ASSUME NEW i \in 1..Len(A)
      PROVE  A[i].kind # "EndMap" /\ ~IsOwn(A[i])
  <2>1. PICK s : s = list[from[i]]
    OBVIOUS
  <2>2. A[i] = [kind |-> "Compress", index |-> s, unique |-> FALSE]
    BY <1>2, <2>1 DEF AskedFrom, Message
  <2>3. A[i].kind = "Compress" /\ ~A[i].unique
    <3>1. PICK r : r = [kind |-> "Compress", index |-> s, unique |-> FALSE]
      OBVIOUS
    <3>2. r.kind = "Compress" /\ ~r.unique
      BY <3>1
    <3> QED
      BY <2>2, <3>1, <3>2, Zenon
  <2> QED
    BY <2>3 DEF IsOwn
<1> QED
  BY <1>1, <1>3 DEF Plainly

\* The shaders that one map has once, the lists of the maps.
OwnOf(header) == {s \in DOMAIN header.shaders : Len(MapsOf(header, s)) = 1}
ListsOf(header) == [m \in DOMAIN header.maps |-> ShadersOf(header, m)]

\* The requests for own shaders are all between the marks of their map.
LEMMA MessagesMarked ==
  ASSUME NEW archive, NEW n \in Nat, NEW M \in Nat, NEW header, header = archive.header,
         DOMAIN header.shaders = 1..n, DOMAIN header.maps = 1..M,
         \A m \in 1..M : ShadersOf(header, m) \in Seq(1..n)
  PROVE  \E start, end :
           Marked(Messages(archive), ListsOf(header), M, OwnOf(header), start, end)
<1>1. PICK all : all = [s \in 1..n |-> s]
  OBVIOUS
<1>2. PICK count : count = [s \in 1..n |-> Len(MapsOf(header, s))]
  OBVIOUS
<1>3. PICK shared : shared = {s \in DOMAIN count : count[s] > 1}
  OBVIOUS
<1>4. PICK own : own = {s \in DOMAIN count : count[s] = 1}
  OBVIOUS
<1>5. PICK detached : detached = {s \in DOMAIN count : count[s] = 0}
  OBVIOUS
<1>6. PICK A : A = Asked(all, shared, FALSE)
  OBVIOUS
<1>7. PICK F : F = FlattenSeq([m \in 1..M |-> OwnMessages(header, own, m)])
  OBVIOUS
<1>8. PICK C : C = Asked(all, detached, FALSE)
  OBVIOUS
<1>9. Messages(archive) = A \o F \o C
  BY <1>1, <1>2, <1>3, <1>4, <1>5, <1>6, <1>7, <1>8, Zenon DEF Messages
<1>10. own = OwnOf(header)
  BY <1>2, <1>4 DEF OwnOf
<1>11. PICK lists : lists = ListsOf(header)
  OBVIOUS
<1>12. lists = [m \in 1..M |-> ShadersOf(header, m)]
  BY <1>11 DEF ListsOf
<1>13. \A m \in 1..M : lists[m] \in Seq(Nat)
  BY <1>12
<1>14. F \in Seq(AnyMessage) /\ \E start, end : Marked(F, lists, M, own, start, end)
  BY <1>7, <1>12, <1>13, OwnMarked
<1>15. PICK start, end : Marked(F, lists, M, own, start, end)
  BY <1>14
<1>16. all \in Seq(Nat)
  BY <1>1
<1>17. A \in Seq(AnyMessage) /\ Plainly(A) /\ C \in Seq(AnyMessage) /\ Plainly(C)
  BY <1>6, <1>8, <1>16, AskedPlainly
<1>18. PICK from : from = [m \in 1..M |-> Len(A) + start[m]]
  OBVIOUS
<1>19. PICK to : to = [m \in 1..M |-> Len(A) + end[m]]
  OBVIOUS
<1>20. Marked(Messages(archive), lists, M, own, from, to)
  BY <1>9, <1>14, <1>15, <1>17, <1>18, <1>19, MarkedBetween
<1> QED
  BY <1>10, <1>11, <1>20

-----------------------------------------------------------------------------
(* Where the messages lay out the code.                                    *)

\* How many bytes there are after each message.
Lengths(F, S) ==
  /\ S \in [0..Len(F) -> Nat]
  /\ \A k \in 1..Len(F) : S[k - 1] <= S[k] /\ (F[k].kind # "Compress" => S[k] = S[k - 1])

\* The code only grows.
LEMMA LengthsRise ==
  ASSUME NEW F, NEW N \in Nat, N = Len(F), NEW S, Lengths(F, S), NEW i \in 0..N, NEW j \in i..N
  PROVE  S[i] <= S[j]
<1>1. PICK T : T = {x \in 0..N : i <= x => S[i] <= S[x]}
  OBVIOUS
<1>2. S \in [0..N -> Nat] /\ \A k \in 1..N : S[k - 1] <= S[k]
  BY DEF Lengths
<1>3. 0 \in T
  <2>1. i <= 0 => i = 0
    OBVIOUS
  <2> QED
    BY <1>1, <1>2, <2>1
<1>4. ASSUME NEW x \in 0..(N - 1), x \in T
      PROVE  x + 1 \in T
  <2>1. x + 1 \in 1..N /\ (x + 1) - 1 = x /\ x \in 0..N /\ x + 1 \in 0..N
    OBVIOUS
  <2>2. S[x] <= S[x + 1] /\ S[x] \in Nat /\ S[x + 1] \in Nat /\ S[i] \in Nat
    BY <1>2, <2>1
  <2>3. i <= x + 1 => i <= x \/ i = x + 1
    OBVIOUS
  <2>4. i <= x => S[i] <= S[x]
    BY <1>1, <1>4
  <2> QED
    BY <1>1, <2>1, <2>2, <2>3, <2>4
<1>5. 0..N \subseteq T
  BY <1>3, <1>4, Induction
<1>6. j \in 0..N /\ i <= j
  OBVIOUS
<1> QED
  BY <1>1, <1>5, <1>6

\* Every byte came of one message.
LEMMA ByteFrom ==
  ASSUME NEW F, NEW N \in Nat, N = Len(F), NEW S, Lengths(F, S), NEW i \in 0..N, NEW j \in i..N,
         NEW b \in (S[i] + 1)..S[j]
  PROVE  \E k \in (i + 1)..j : b \in (S[k - 1] + 1)..S[k]
<1>1. S \in [0..N -> Nat]
  BY DEF Lengths
<1>2. PICK T : T = {k \in i..j : b <= S[k]}
  OBVIOUS
<1>3. S[i] \in Nat /\ S[j] \in Nat /\ b \in Nat /\ S[i] < b /\ b <= S[j] /\ j \in i..j
  BY <1>1
<1>4. T \subseteq Nat /\ T # {}
  BY <1>2, <1>3
<1>5. PICK k \in T : \A l \in T : k <= l
  BY <1>4, LeastNumber
<1>6. k \in i..j /\ b <= S[k] /\ k # i
  BY <1>1, <1>2, <1>3
<1>7. k - 1 \in i..j /\ k - 1 \notin T /\ k \in (i + 1)..j
  BY <1>4, <1>5, <1>6
<1>8. k - 1 \in 0..N /\ k \in 0..N
  BY <1>7
<1>9. S[k - 1] \in Nat /\ S[k] \in Nat /\ ~ (b <= S[k - 1])
  BY <1>1, <1>2, <1>7, <1>8
<1>10. b \in (S[k - 1] + 1)..S[k]
  BY <1>3, <1>6, <1>9
<1> QED
  BY <1>7, <1>10

\* The bytes of a region.
Bytes(r) == r.offset + 1 .. r.offset + r.size

\* Every shader lies where its message put it.
Laid(F, S, shaders, n) ==
  /\ \A s \in 1..n : \E k \in 1..Len(F) : F[k].kind = "Compress" /\ F[k].index = s
  /\ \A k \in 1..Len(F) : F[k].kind = "Compress" =>
       /\ F[k].index \in 1..n
       /\ shaders[F[k].index] = [offset |-> S[k - 1], size |-> S[k] - S[k - 1], unique |-> F[k].unique]

\* The message of a shader, and what it says of its region.
SentAs(F, S, shaders, s, k) ==
  /\ k \in 1..Len(F) /\ F[k].kind = "Compress" /\ F[k].index = s
  /\ Bytes(shaders[s]) = (S[k - 1] + 1)..S[k]
  /\ shaders[s].offset \in Nat /\ shaders[s].size \in Nat
  /\ shaders[s].unique <=> IsOwn(F[k])

\* A request has the region of its shader.
LEMMA LaidAs ==
  ASSUME NEW F, F \in Seq(AnyMessage), NEW S, Lengths(F, S), NEW n \in Nat, NEW shaders,
         Laid(F, S, shaders, n), NEW k \in 1..Len(F), F[k].kind = "Compress",
         NEW s, s = F[k].index
  PROVE  SentAs(F, S, shaders, s, k)
<1>1. PICK N \in Nat : N = Len(F)
  OBVIOUS
<1>2. PICK u : u = F[k].unique
  OBVIOUS
<1>3. PICK x, y : x = S[k - 1] /\ y = S[k]
  OBVIOUS
<1>4. x \in Nat /\ y \in Nat /\ x <= y
  <2>1. k - 1 \in 0..Len(F) /\ k \in 0..Len(F)
    BY <1>1
  <2> QED
    BY <1>3, <2>1 DEF Lengths
<1>5. PICK r : r = [offset |-> x, size |-> y - x, unique |-> u]
  OBVIOUS
<1>6. shaders[s] = r
  BY <1>2, <1>3, <1>5 DEF Laid
<1>7. r.offset = x /\ r.size = y - x /\ r.unique = u
  BY <1>5
<1>8. x + (y - x) = y /\ y - x \in Nat
  BY <1>4
<1>9. Bytes(r) = (x + 1)..y
  BY <1>7, <1>8, Zenon DEF Bytes
<1>10. u <=> IsOwn(F[k])
  BY <1>2, Zenon DEF IsOwn
<1> QED
  BY <1>3, <1>4, <1>6, <1>7, <1>8, <1>9, <1>10, Zenon DEF SentAs

\* Every shader has such a request.
LEMMA SentSomewhere ==
  ASSUME NEW F, F \in Seq(AnyMessage), NEW S, Lengths(F, S), NEW n \in Nat, NEW shaders,
         Laid(F, S, shaders, n), NEW s \in 1..n
  PROVE  \E k : SentAs(F, S, shaders, s, k)
<1>1. PICK k \in 1..Len(F) : F[k].kind = "Compress" /\ F[k].index = s
  BY DEF Laid
<1>2. s = F[k].index
  BY <1>1
<1> QED
  BY <1>1, <1>2, LaidAs

\* What different messages wrote does not overlap, even together.
LEMMA Apart ==
  ASSUME NEW F, NEW N \in Nat, N = Len(F), NEW S, Lengths(F, S),
         NEW i \in 0..N, NEW j \in i..N, NEW k \in j..N, NEW l \in k..N
  PROVE  ((S[i] + 1)..S[j]) \cap ((S[k] + 1)..S[l]) = {}
<1>1. S[j] <= S[k]
  BY LengthsRise
<1>2. S \in [0..N -> Nat]
  BY DEF Lengths
<1>3. S[i] \in Nat /\ S[j] \in Nat /\ S[k] \in Nat /\ S[l] \in Nat
  BY <1>2
<1> QED
  BY <1>1, <1>3

\* Regions of different shaders do not overlap.
LEMMA ShadersApart ==
  ASSUME NEW F, F \in Seq(AnyMessage), NEW S, Lengths(F, S), NEW n \in Nat, NEW shaders,
         Laid(F, S, shaders, n), NEW s \in 1..n, NEW t \in 1..n, s # t
  PROVE  Bytes(shaders[s]) \cap Bytes(shaders[t]) = {}
<1>1. PICK k : SentAs(F, S, shaders, s, k)
  BY SentSomewhere
<1>2. PICK l : SentAs(F, S, shaders, t, l)
  BY SentSomewhere
<1>3. PICK N \in Nat : N = Len(F)
  OBVIOUS
<1>4. /\ k \in 1..N /\ l \in 1..N /\ k # l
      /\ Bytes(shaders[s]) = (S[k - 1] + 1)..S[k] /\ Bytes(shaders[t]) = (S[l - 1] + 1)..S[l]
  BY <1>1, <1>2, <1>3 DEF SentAs
<1>5. CASE k < l
  <2>1. k - 1 \in 0..N /\ k \in (k - 1)..N /\ l - 1 \in k..N /\ l \in (l - 1)..N
    BY <1>4, <1>5
  <2>2. ((S[k - 1] + 1)..S[k]) \cap ((S[l - 1] + 1)..S[l]) = {}
    BY <1>3, <2>1, Apart
  <2> QED
    BY <1>4, <2>2
<1>6. CASE l < k
  <2>1. l - 1 \in 0..N /\ l \in (l - 1)..N /\ k - 1 \in l..N /\ k \in (k - 1)..N
    BY <1>4, <1>6
  <2>2. ((S[l - 1] + 1)..S[l]) \cap ((S[k - 1] + 1)..S[k]) = {}
    BY <1>3, <2>1, Apart
  <2> QED
    BY <1>4, <2>2
<1> QED
  BY <1>4, <1>5, <1>6

\* A map has a region between its marks.
OwnRegion(F, S, own, list, m, j, k) ==
  /\ Between(F, ToSet(list), m, j, k)
  /\ own = [offset |-> S[j], size |-> S[k] - S[j]]

\* It is what was written between them.
LEMMA RegionBytes ==
  ASSUME NEW F, F \in Seq(AnyMessage), NEW S, Lengths(F, S), NEW own, NEW list, NEW m, NEW j, NEW k,
         OwnRegion(F, S, own, list, m, j, k)
  PROVE  /\ own.offset \in Nat /\ own.size \in Nat
         /\ j \in 1..Len(F) /\ k \in 1..Len(F) /\ j < k
         /\ S[k] = S[k - 1]
         /\ Bytes(own) = (S[j] + 1)..S[k]
<1>1. PICK N \in Nat : N = Len(F)
  OBVIOUS
<1>2. j \in 1..N /\ k \in 1..N /\ j < k /\ F[k].kind = "EndMap"
  BY <1>1 DEF OwnRegion, Between
<1>3. j \in 0..N /\ k \in j..N /\ k \in 0..N
  BY <1>2
<1>4. S[j] <= S[k]
  BY <1>1, <1>3, LengthsRise
<1>5. PICK x, y : x = S[j] /\ y = S[k]
  OBVIOUS
<1>6. x \in Nat /\ y \in Nat /\ x <= y
  BY <1>1, <1>3, <1>4, <1>5 DEF Lengths
<1>7. own = [offset |-> x, size |-> y - x]
  BY <1>5 DEF OwnRegion
<1>8. own.offset = x /\ own.size = y - x
  BY <1>7
<1>9. x + (y - x) = y /\ y - x \in Nat
  BY <1>6
<1>10. Bytes(own) = (x + 1)..y
  BY <1>8, <1>9, Zenon DEF Bytes
<1>11. S[k] = S[k - 1]
  BY <1>1, <1>2 DEF Lengths
<1> QED
  BY <1>1, <1>2, <1>5, <1>6, <1>8, <1>9, <1>10, <1>11

\* Shaders that are not marked own lie outside of the regions of maps.
LEMMA OwnApart ==
  ASSUME NEW F, F \in Seq(AnyMessage), NEW S, Lengths(F, S), NEW n \in Nat, NEW shaders,
         Laid(F, S, shaders, n), NEW own, NEW list, NEW m, NEW j, NEW k,
         OwnRegion(F, S, own, list, m, j, k), NEW s \in 1..n, ~shaders[s].unique
  PROVE  Bytes(own) \cap Bytes(shaders[s]) = {}
<1>1. PICK N \in Nat : N = Len(F)
  OBVIOUS
<1>2. PICK l : SentAs(F, S, shaders, s, l)
  BY SentSomewhere
<1>3. l \in 1..N /\ F[l].kind = "Compress" /\ ~IsOwn(F[l]) /\ Bytes(shaders[s]) = (S[l - 1] + 1)..S[l]
  BY <1>1, <1>2 DEF SentAs
<1>4. /\ j \in 1..N /\ k \in 1..N /\ j < k /\ F[j].kind = "StartMap" /\ F[k].kind = "EndMap"
      /\ \A i \in (j + 1)..(k - 1) : IsOwn(F[i])
  BY <1>1 DEF OwnRegion, Between
<1>5. l # j /\ l # k /\ l \notin (j + 1)..(k - 1)
  BY <1>3, <1>4
<1>6. Bytes(own) = (S[j] + 1)..S[k]
  BY RegionBytes
<1>7. CASE l < j
  <2>1. l - 1 \in 0..N /\ l \in (l - 1)..N /\ j \in l..N /\ k \in j..N
    BY <1>3, <1>4, <1>7
  <2>2. ((S[l - 1] + 1)..S[l]) \cap ((S[j] + 1)..S[k]) = {}
    BY <1>1, <2>1, Apart
  <2> QED
    BY <1>3, <1>6, <2>2
<1>8. CASE l > k
  <2>1. j \in 0..N /\ k \in j..N /\ l - 1 \in k..N /\ l \in (l - 1)..N
    BY <1>3, <1>4, <1>8
  <2>2. ((S[j] + 1)..S[k]) \cap ((S[l - 1] + 1)..S[l]) = {}
    BY <1>1, <2>1, Apart
  <2> QED
    BY <1>3, <1>6, <2>2
<1> QED
  BY <1>3, <1>4, <1>5, <1>7, <1>8

\* The region of a map is of code of its shaders.
LEMMA OwnBytes ==
  ASSUME NEW F, F \in Seq(AnyMessage), NEW S, Lengths(F, S), NEW n \in Nat, NEW shaders,
         Laid(F, S, shaders, n), NEW own, NEW list, NEW m, NEW j, NEW k,
         OwnRegion(F, S, own, list, m, j, k), NEW b \in Bytes(own)
  PROVE  \E s \in ToSet(list) : s \in 1..n /\ b \in Bytes(shaders[s])
<1>1. PICK N \in Nat : N = Len(F)
  OBVIOUS
<1>2. j \in 1..N /\ k \in 1..N /\ j < k /\ S[k] = S[k - 1] /\ Bytes(own) = (S[j] + 1)..S[k]
  BY <1>1, RegionBytes
<1>3. j \in 0..N /\ k - 1 \in j..N /\ b \in (S[j] + 1)..S[k - 1]
  BY <1>2
<1>4. PICK l \in (j + 1)..(k - 1) : b \in (S[l - 1] + 1)..S[l]
  BY <1>1, <1>3, ByteFrom
<1>5. l \in 1..Len(F) /\ IsOwn(F[l]) /\ F[l].index \in ToSet(list)
  BY <1>1, <1>2 DEF OwnRegion, Between
<1>6. F[l].kind = "Compress"
  BY <1>5 DEF IsOwn
<1>7. PICK s : s = F[l].index
  OBVIOUS
<1>8. SentAs(F, S, shaders, s, l)
  BY <1>5, <1>6, <1>7, LaidAs
<1>9. b \in Bytes(shaders[s]) /\ s \in 1..n
  BY <1>4, <1>5, <1>6, <1>7, <1>8 DEF SentAs, Laid
<1> QED
  BY <1>5, <1>7, <1>9

\* The region of a map has the code of all its own shaders.
LEMMA OwnInside ==
  ASSUME NEW F, F \in Seq(AnyMessage), NEW S, Lengths(F, S), NEW n \in Nat, NEW shaders,
         Laid(F, S, shaders, n), NEW own, NEW list, NEW m, NEW j, NEW k,
         OwnRegion(F, S, own, list, m, j, k), NEW s \in 1..n,
         NEW l, SentAs(F, S, shaders, s, l), j < l, l < k
  PROVE  Bytes(shaders[s]) \subseteq Bytes(own)
<1>1. PICK N \in Nat : N = Len(F)
  OBVIOUS
<1>2. j \in 1..N /\ k \in 1..N /\ j < k /\ Bytes(own) = (S[j] + 1)..S[k]
  BY <1>1, RegionBytes
<1>3. l \in 1..N /\ Bytes(shaders[s]) = (S[l - 1] + 1)..S[l]
  BY <1>1 DEF SentAs
<1>4. j \in 0..N /\ l - 1 \in j..N /\ l \in 0..N /\ k \in l..N /\ k \in 0..N /\ l - 1 \in 0..N
  BY <1>2, <1>3
<1>5. S[j] <= S[l - 1] /\ S[l] <= S[k]
  BY <1>1, <1>4, LengthsRise
<1>6. S[j] \in Nat /\ S[l - 1] \in Nat /\ S[l] \in Nat /\ S[k] \in Nat
  BY <1>1, <1>4 DEF Lengths
<1> QED
  BY <1>2, <1>3, <1>5, <1>6, SMTT(60)

-----------------------------------------------------------------------------
(* The regions that a game preloads for a map.                             *)

\* A layout in which all messages are written.
Complete(F, S, header, written, n, M, start, end) ==
  /\ F \in Seq(AnyMessage) /\ Lengths(F, S) /\ Laid(F, S, written.shaders, n)
  /\ DOMAIN header.shaders = 1..n /\ DOMAIN header.maps = 1..M /\ DOMAIN written.shaders = 1..n
  /\ \A m \in 1..M : ShadersOf(header, m) \in Seq(1..n)
  /\ Marked(F, ListsOf(header), M, OwnOf(header), start, end)
  /\ \A m \in 1..M : written.maps[m] = [offset |-> S[start[m]], size |-> S[end[m]] - S[start[m]]]

\* The region of a map is the code of its own shaders, and no other shader of it has
\* a part of that.
Covered(shaders, own, list) ==
  /\ own.offset \in Nat /\ own.size \in Nat
  /\ \A b \in Bytes(own) : \E s \in ToSet(list) : b \in Bytes(shaders[s])
  /\ \A s \in ToSet(list) :
       /\ shaders[s].offset \in Nat /\ shaders[s].size \in Nat
       /\ shaders[s].unique => Bytes(shaders[s]) \subseteq Bytes(own)
       /\ ~shaders[s].unique => Bytes(own) \cap Bytes(shaders[s]) = {}
  /\ \A s, t \in ToSet(list) : s # t => Bytes(shaders[s]) \cap Bytes(shaders[t]) = {}

\* All messages written, the region of a map is the code of its own shaders.
LEMMA CompleteCovers ==
  ASSUME NEW n \in Nat, NEW M \in Nat, NEW F, NEW S, NEW header, NEW written, NEW start, NEW end,
         Complete(F, S, header, written, n, M, start, end), NEW m \in 1..M
  PROVE  Covered(written.shaders, written.maps[m], ShadersOf(header, m))
<1>1. PICK shaders : shaders = written.shaders
  OBVIOUS
<1>2. PICK own : own = written.maps[m]
  OBVIOUS
<1>3. PICK list : list = ShadersOf(header, m)
  OBVIOUS
<1>4. PICK lists : lists = ListsOf(header)
  OBVIOUS
<1>5. PICK j, k : j = start[m] /\ k = end[m]
  OBVIOUS
<1>6. /\ F \in Seq(AnyMessage) /\ Lengths(F, S) /\ Laid(F, S, shaders, n)
      /\ DOMAIN header.shaders = 1..n /\ DOMAIN header.maps = 1..M
      /\ \A i \in 1..M : ShadersOf(header, i) \in Seq(1..n)
      /\ Marked(F, lists, M, OwnOf(header), start, end)
      /\ own = [offset |-> S[j], size |-> S[k] - S[j]]
  BY <1>1, <1>2, <1>4, <1>5 DEF Complete
<1>7. \A i \in 1..M : lists[i] = ShadersOf(header, i)
  BY <1>4, <1>6 DEF ListsOf
<1>8. OwnRegion(F, S, own, list, m, j, k)
  BY <1>3, <1>5, <1>6, <1>7 DEF Marked, OwnRegion
<1>9. list \in Seq(1..n) /\ ToSet(list) \subseteq 1..n
  <2>1. list \in Seq(1..n)
    BY <1>3, <1>6
  <2> QED
    BY <2>1, SeqTypes
<1>10. own.offset \in Nat /\ own.size \in Nat
  BY <1>6, <1>8, RegionBytes
<1>11. ASSUME NEW s \in ToSet(list), shaders[s].unique
       PROVE  Bytes(shaders[s]) \subseteq Bytes(own)
  <2>1. s \in 1..n
    BY <1>9
  <2>2. PICK l : SentAs(F, S, shaders, s, l)
    BY <1>6, <2>1, SentSomewhere
  <2>3. l \in 1..Len(F) /\ IsOwn(F[l]) /\ F[l].index = s
    BY <1>11, <2>2 DEF SentAs
  <2>4. s \in OwnOf(header) /\ \E i \in 1..M : start[i] < l /\ l < end[i]
    BY <1>6, <2>3 DEF Marked
  <2>5. PICK i \in 1..M : start[i] < l /\ l < end[i]
    BY <2>4
  <2>6. Between(F, ToSet(lists[i]), i, start[i], end[i])
    BY <1>6 DEF Marked
  <2>7. s \in ToSet(lists[i])
    <3>1. start[i] \in 1..Len(F) /\ end[i] \in 1..Len(F)
      BY <2>6 DEF Between
    <3>2. l \in (start[i] + 1)..(end[i] - 1)
      BY <2>3, <2>5, <3>1
    <3> QED
      BY <2>3, <2>6, <3>2 DEF Between
  <2>8. Len(MapsOf(header, s)) = 1
    BY <2>4 DEF OwnOf
  <2>9. \E p : Lists(header, i, p, s)
    <3>1. PICK q : q = ShadersOf(header, i)
      OBVIOUS
    <3>2. q \in Seq(1..n) /\ s \in ToSet(q)
      BY <1>6, <1>7, <2>7, <3>1
    <3>3. \E p \in 1..Len(q) : q[p] = s
      BY <3>2, SeqTypes
    <3> QED
      BY <3>1, <3>3 DEF Lists
  <2>10. \E p : Lists(header, m, p, s)
    <3>1. \E p \in 1..Len(list) : list[p] = s
      BY <1>9, SeqTypes
    <3> QED
      BY <1>3, <3>1 DEF Lists
  <2>11. \A g \in 1..M : ShadersOf(header, g) \in Seq(Nat)
    BY <1>6
  <2>12. i = m
    BY <1>6, <2>8, <2>9, <2>10, <2>11, CountedOnce
  <2>13. j < l /\ l < k
    BY <1>5, <2>5, <2>12
  <2> QED
    BY <1>6, <1>8, <2>1, <2>2, <2>13, OwnInside
<1>12. ASSUME NEW s \in ToSet(list)
       PROVE  shaders[s].offset \in Nat /\ shaders[s].size \in Nat
  <2>1. s \in 1..n
    BY <1>9
  <2>2. PICK l : SentAs(F, S, shaders, s, l)
    BY <1>6, <2>1, SentSomewhere
  <2> QED
    BY <2>2 DEF SentAs
<1>13. \A s \in ToSet(list) : ~shaders[s].unique => Bytes(own) \cap Bytes(shaders[s]) = {}
  <2>1. ASSUME NEW s \in ToSet(list), ~shaders[s].unique
        PROVE  Bytes(own) \cap Bytes(shaders[s]) = {}
    <3>1. s \in 1..n
      BY <1>9
    <3> QED
      BY <1>6, <1>8, <2>1, <3>1, OwnApart
  <2> QED
    BY <2>1
<1>14. \A s, t \in ToSet(list) : s # t => Bytes(shaders[s]) \cap Bytes(shaders[t]) = {}
  <2>1. ASSUME NEW s \in ToSet(list), NEW t \in ToSet(list), s # t
        PROVE  Bytes(shaders[s]) \cap Bytes(shaders[t]) = {}
    <3>1. s \in 1..n /\ t \in 1..n
      BY <1>9
    <3> QED
      BY <1>6, <2>1, <3>1, ShadersApart
  <2> QED
    BY <2>1
<1>15. ASSUME NEW b \in Bytes(own)
       PROVE  \E s \in ToSet(list) : b \in Bytes(shaders[s])
  BY <1>6, <1>8, OwnBytes
<1>16. Covered(shaders, own, list)
  BY <1>10, <1>11, <1>12, <1>13, <1>14, <1>15, Zenon DEF Covered
<1> QED
  BY <1>1, <1>2, <1>3, <1>16

\* Regions, and what they cover.
AnyRegion == [offset : Nat, size : Nat]
Region(r) == [offset |-> r.offset, size |-> r.size]

\* A region leaves out only whether its shader has a single map.
LEMMA RegionTyped ==
  ASSUME NEW r, r.offset \in Nat, r.size \in Nat
  PROVE  Region(r) \in AnyRegion /\ Bytes(Region(r)) = Bytes(r)
<1>1. Region(r).offset = r.offset /\ Region(r).size = r.size
  BY DEF Region
<1>2. Region(r) \in AnyRegion
  BY DEF Region, AnyRegion
<1> QED
  BY <1>1, <1>2, Zenon DEF Bytes

\* The preloads cover the shaders of a list, once if it lists them once.
PreloadsAre(P, shaders, list) ==
  /\ P \in Seq(AnyRegion)
  /\ UNION {Bytes(r) : r \in ToSet(P)} = UNION {Bytes(shaders[s]) : s \in ToSet(list)}
  /\ Distinct(list) => \A i, j \in 1..Len(P) : i # j => Bytes(P[i]) \cap Bytes(P[j]) = {}

\* The region of the map and those of its other shaders cover its code.
LEMMA PreloadsCovered ==
  ASSUME NEW n \in Nat, NEW header, NEW written, NEW m, DOMAIN written.shaders = 1..n,
         NEW list, list = ShadersOf(header, m), list \in Seq(1..n),
         Covered(written.shaders, written.maps[m], list),
         NEW P, P = PreloadsOf(header, written, m)
  PROVE  PreloadsAre(P, written.shaders, list)
<1>1. PICK shaders : shaders = written.shaders
  OBVIOUS
<1>2. PICK own : own = written.maps[m]
  OBVIOUS
<1>3. PICK rest : rest = {s \in 1..n : ~shaders[s].unique}
  OBVIOUS
<1>4. PICK others : others = Chosen(list, rest)
  OBVIOUS
<1>5. PICK Q : Q = [k \in DOMAIN others |-> Region(shaders[others[k]])]
  OBVIOUS
<1>6. PICK O : O = IF own.size > 0 THEN <<Region(own)>> ELSE <<>>
  OBVIOUS
<1>7. P = O \o Q
  BY <1>1, <1>2, <1>3, <1>4, <1>5, <1>6, Zenon DEF PreloadsOf, Preloads, Region
<1>8. /\ own.offset \in Nat /\ own.size \in Nat
      /\ \A b \in Bytes(own) : \E s \in ToSet(list) : b \in Bytes(shaders[s])
      /\ \A s \in ToSet(list) :
           /\ shaders[s].offset \in Nat /\ shaders[s].size \in Nat
           /\ shaders[s].unique => Bytes(shaders[s]) \subseteq Bytes(own)
           /\ ~shaders[s].unique => Bytes(own) \cap Bytes(shaders[s]) = {}
      /\ \A s, t \in ToSet(list) : s # t => Bytes(shaders[s]) \cap Bytes(shaders[t]) = {}
  BY <1>1, <1>2 DEF Covered
<1>9. /\ others \in Seq(1..n) /\ ToSet(others) = ToSet(list) \cap rest
      /\ Distinct(list) => Distinct(others)
  BY <1>4, ChosenSame
<1>10. PICK c \in Nat : c = Len(others) /\ DOMAIN others = 1..c
  BY <1>9
<1>11. \A i \in 1..c : others[i] \in ToSet(list) /\ ~shaders[others[i]].unique
  <2>1. \A i \in 1..c : others[i] \in ToSet(others)
    BY <1>9, <1>10, SeqTypes
  <2> QED
    BY <1>3, <1>9, <2>1
<1>12. \A i \in 1..c : Q[i] \in AnyRegion /\ Bytes(Q[i]) = Bytes(shaders[others[i]])
  <2>1. TAKE i \in 1..c
  <2>2. PICK r : r = shaders[others[i]]
    OBVIOUS
  <2>3. r.offset \in Nat /\ r.size \in Nat
    BY <1>8, <1>11, <2>2
  <2>4. Q[i] = Region(r)
    BY <1>5, <1>10, <2>2
  <2> QED
    BY <2>2, <2>3, <2>4, RegionTyped
<1>13. Q \in Seq(AnyRegion) /\ Len(Q) = c
  <2>1. Q \in [1..c -> AnyRegion]
    BY <1>5, <1>10, <1>12
  <2> QED
    BY <2>1
<1>14. UNION {Bytes(r) : r \in ToSet(Q)} = UNION {Bytes(shaders[s]) : s \in ToSet(list) \cap rest}
  <2>1. ToSet(Q) = {Q[i] : i \in 1..c} /\ ToSet(others) = {others[i] : i \in 1..c}
    <3>1. ToSet(Q) = {Q[i] : i \in 1..c}
      BY <1>13, SeqTypes
    <3>2. ToSet(others) = {others[i] : i \in 1..c}
      BY <1>9, <1>10, SeqTypes
    <3> QED
      BY <3>1, <3>2
  <2>2. UNION {Bytes(r) : r \in ToSet(Q)} = UNION {Bytes(Q[i]) : i \in 1..c}
    BY <2>1
  <2>3. UNION {Bytes(Q[i]) : i \in 1..c} = UNION {Bytes(shaders[others[i]]) : i \in 1..c}
    BY <1>12
  <2>4. UNION {Bytes(shaders[others[i]]) : i \in 1..c} = UNION {Bytes(shaders[s]) : s \in ToSet(others)}
    BY <2>1
  <2> QED
    BY <1>9, <2>2, <2>3, <2>4
<1>15. \A i, j \in 1..c : Distinct(list) /\ i # j => Bytes(Q[i]) \cap Bytes(Q[j]) = {}
  <2>1. \A i, j \in 1..c : Distinct(list) /\ i # j => others[i] # others[j]
    BY <1>9, <1>10 DEF Distinct
  <2>2. ASSUME NEW i \in 1..c, NEW j \in 1..c, Distinct(list), i # j
        PROVE  Bytes(Q[i]) \cap Bytes(Q[j]) = {}
    <3>1. PICK s, t : s = others[i] /\ t = others[j]
      OBVIOUS
    <3>2. s \in ToSet(list) /\ t \in ToSet(list) /\ s # t
      BY <1>11, <2>1, <2>2, <3>1
    <3>3. Bytes(Q[i]) = Bytes(shaders[s]) /\ Bytes(Q[j]) = Bytes(shaders[t])
      BY <1>12, <3>1
    <3> QED
      BY <1>8, <3>2, <3>3
  <2> QED
    BY <2>2
<1>16. UNION {Bytes(shaders[s]) : s \in ToSet(list)} =
         Bytes(own) \cup UNION {Bytes(shaders[s]) : s \in ToSet(list) \cap rest}
  <2>1. \A s \in ToSet(list) : s \in rest \/ shaders[s].unique
    BY <1>3, SeqTypes
  <2> QED
    BY <1>8, <2>1
<1>17. CASE own.size > 0
  <2>1. PICK o : o = Region(own)
    OBVIOUS
  <2>2. o \in AnyRegion /\ Bytes(o) = Bytes(own)
    BY <1>8, <2>1, RegionTyped
  <2>3. P = <<o>> \o Q
    BY <1>6, <1>7, <1>17, <2>1
  <2>4. /\ P \in Seq(AnyRegion) /\ Len(P) = c + 1 /\ P[1] = o
        /\ \A i \in 1..c : P[i + 1] = Q[i]
    BY <1>13, <2>2, <2>3
  <2>5. \A i \in 1..Len(P) : i = 1 \/ (i - 1 \in 1..c /\ P[i] = Q[i - 1])
    BY <1>10, <2>4
  <2>6. \A i \in 1..c : i + 1 \in 1..Len(P) /\ P[i + 1] = Q[i]
    BY <1>10, <2>4
  <2>7. ToSet(P) = {o} \cup ToSet(Q)
    <3>1. ToSet(Q) = {Q[i] : i \in 1..c}
      BY <1>13, SeqTypes
    <3>2. ToSet(P) = {P[i] : i \in 1..Len(P)}
      <4>1. P \in Seq(AnyRegion)
        BY <2>4
      <4> QED
        BY <4>1, SeqTypes
    <3>3. 1 \in 1..Len(P) /\ P[1] = o
      BY <1>10, <2>4
    <3>4. ToSet(P) \subseteq {o} \cup ToSet(Q)
      BY <2>5, <3>1, <3>2, <3>3
    <3>5. {o} \cup ToSet(Q) \subseteq ToSet(P)
      BY <2>6, <3>1, <3>2, <3>3
    <3> QED
      BY <3>4, <3>5
  <2>8. UNION {Bytes(r) : r \in ToSet(P)} = UNION {Bytes(shaders[s]) : s \in ToSet(list)}
    <3>1. PICK T : T = ToSet(P)
      OBVIOUS
    <3>2. PICK U : U = ToSet(Q)
      OBVIOUS
    <3>3. T = {o} \cup U
      BY <2>7, <3>1, <3>2
    <3>4. UNION {Bytes(r) : r \in T} = Bytes(o) \cup UNION {Bytes(r) : r \in U}
      BY <3>3, SMTT(60)
    <3> QED
      BY <1>14, <1>16, <2>2, <3>1, <3>2, <3>4
  <2>9. ASSUME Distinct(list), NEW i \in 1..Len(P), NEW j \in 1..Len(P), i # j
        PROVE  Bytes(P[i]) \cap Bytes(P[j]) = {}
    <3>1. \A a \in 1..c : Bytes(o) \cap Bytes(Q[a]) = {}
      BY <1>8, <1>11, <1>12, <2>2
    <3>2. CASE i = 1
      <4>1. PICK a \in 1..c : P[j] = Q[a]
        BY <2>5, <2>9, <3>2
      <4> QED
        BY <2>4, <3>1, <3>2, <4>1
    <3>3. CASE j = 1
      <4>1. PICK a \in 1..c : P[i] = Q[a]
        BY <2>5, <2>9, <3>3
      <4> QED
        BY <2>4, <3>1, <3>3, <4>1
    <3>4. CASE i # 1 /\ j # 1
      <4>1. i - 1 \in 1..c /\ P[i] = Q[i - 1] /\ j - 1 \in 1..c /\ P[j] = Q[j - 1] /\ i - 1 # j - 1
        BY <2>5, <2>9, <3>4
      <4> QED
        BY <1>15, <2>9, <4>1
    <3> QED
      BY <3>2, <3>3, <3>4
  <2>10. Distinct(list) => \A i, j \in 1..Len(P) : i # j => Bytes(P[i]) \cap Bytes(P[j]) = {}
    BY <2>9
  <2>11. PreloadsAre(P, shaders, list)
    BY <2>4, <2>8, <2>10, Zenon DEF PreloadsAre
  <2> QED
    BY <1>1, <2>11
<1>18. CASE ~ (own.size > 0)
  <2>1. P = Q
    BY <1>6, <1>7, <1>13, <1>18
  <2>2. Bytes(own) = {}
    <3>1. PICK x \in Nat : x = own.offset
      BY <1>8
    <3>2. own.size = 0
      BY <1>8, <1>18
    <3>3. (x + 1)..(x + 0) = {}
      OBVIOUS
    <3> QED
      BY <3>1, <3>2, <3>3, Zenon DEF Bytes
  <2>3. UNION {Bytes(r) : r \in ToSet(P)} = UNION {Bytes(shaders[s]) : s \in ToSet(list)}
    BY <1>14, <1>16, <2>1, <2>2
  <2>4. Distinct(list) => \A i, j \in 1..Len(P) : i # j => Bytes(P[i]) \cap Bytes(P[j]) = {}
    BY <1>13, <1>15, <2>1
  <2>5. P \in Seq(AnyRegion)
    BY <1>13, <2>1
  <2>6. PreloadsAre(P, shaders, list)
    BY <2>3, <2>4, <2>5, Zenon DEF PreloadsAre
  <2> QED
    BY <1>1, <2>6
<1> QED
  BY <1>17, <1>18
=============================================================================
