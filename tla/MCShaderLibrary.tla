-------------------------- MODULE MCShaderLibrary --------------------------
(* Small games with one or two shader libraries.                           *)
EXTENDS ShaderLibrary

\* The hashes of the shaders: b does not shrink, and is a raytracing shader.
HashSet == {"a", "b", "c", "d", "e", "f"}
MCFullSize == [h \in HashSet |-> CASE h = "b" -> 1 [] h = "c" -> 2 [] h = "d" -> 4 [] OTHER -> 3]
MCPackedSize == [h \in HashSet |-> IF h = "c" THEN 1 ELSE 2]

\* A library as the cooker writes it: shaders that shrink are compressed.
Library(hashes, maps, method) ==
  LET code == [s \in DOMAIN hashes |-> Smallest(Code(hashes[s]), method)]
      lists == [m \in DOMAIN maps |-> maps[m].shaders]
      Before(seqs, k) == Len(FlattenSeq(SubSeq(seqs, 1, k - 1)))
  IN  [maps |-> [m \in DOMAIN maps |->
                   [hash |-> maps[m].hash, first |-> Before(lists, m), count |-> Len(lists[m])]],
       shaders |-> [s \in DOMAIN hashes |->
                      [hash |-> hashes[s], frequency |-> IF hashes[s] = "b" THEN 6 ELSE 3,
                       full |-> FullSize[hashes[s]], size |-> Len(code[s]),
                       offset |-> Before(code, s)]],
       indices |-> FlattenSeq(lists),
       code |-> FlattenSeq(code)]

Map(hash, shaders) == [hash |-> hash, shaders |-> shaders]
Info(hash, packages) == [hash |-> hash, packages |-> packages]

Increasing(n) == {SetToSortSeq(S, <) : S \in SUBSET (1..n)} \ {<<>>}

\* One library of up to three shaders, with one or two maps of any of them.
MapLists(n) == {<<Map("m", l)>> : l \in Increasing(n)}
               \cup {<<Map("m", k), Map("n", l)>> : k, l \in Increasing(n)}
Hashes == {<<"a">>, <<"b", "a">>, <<"c", "b", "a">>}

Single(library, format, compress) ==
  [order |-> <<"L">>, libraries |-> [n \in {"L"} |-> library],
   infos |-> [n \in {"L"} |-> <<Info("m", <<"P", "Q">>), Info("n", <<"Q">>)>>],
   format |-> format, checked |-> compress, compress |-> compress,
   converted |-> {"P", "Q"}, unreadable |-> {}, keepsHashes |-> compress]

SingleGames ==
  UNION {{Single(Library(h, maps, method), format, compress) :
            maps \in MapLists(Len(h)), method \in {NoMethod, "Oodle"},
            format \in {"PCD3D_SM5", "PCD3D_SM6"}, compress \in BOOLEAN} : h \in Hashes}

\* Larger libraries: groups to split, shaders of no map, and a shader twice in a map.
LargeGames ==
  {Single(Library(x[1], x[2], method), "PCD3D_SM6", compress) :
     method \in {NoMethod, "Oodle"}, compress \in BOOLEAN,
     x \in {<<<<"a", "b", "c", "d">>, <<Map("m", <<1, 2, 3, 4>>)>>>>,
            <<<<"d", "a", "c">>, <<Map("m", <<3, 2, 1>>), Map("n", <<2>>)>>>>,
            <<<<"a", "b", "c", "d">>, <<Map("m", <<2>>)>>>>,
            <<<<"a", "b", "c">>, <<Map("m", <<3, 1, 2>>), Map("n", <<3, 1, 2>>)>>>>,
            <<<<"e", "f", "a">>, <<Map("m", <<2, 3, 1>>)>>>>,
            <<<<"a", "c">>, <<Map("m", <<1, 2, 1>>)>>>>,
            <<<<"a", "c">>, <<>>>>}}

\* Two libraries with a map and shaders in common.
Double(hashes1, hashes2, method1, method2, compress, converted, unreadable) ==
  [order |-> <<"L", "M">>,
   libraries |->
     [n \in {"L", "M"} |->
        IF n = "L" THEN Library(hashes1, <<Map("m", <<1>>), Map("n", <<2>>)>>, method1)
        ELSE Library(hashes2, <<Map("m", <<1>>), Map("o", <<2>>)>>, method2)],
   infos |-> [n \in {"L", "M"} |-> IF n = "L" THEN <<Info("m", <<"P", "Q">>), Info("n", <<"Q">>)>>
                                   ELSE <<Info("m", <<"P">>), Info("o", <<"Q", "P">>)>>],
   format |-> "PCD3D_SM6", checked |-> FALSE, compress |-> compress,
   converted |-> converted, unreadable |-> unreadable, keepsHashes |-> TRUE]

DoubleGames ==
  {Double(<<"c", "a">>, x, m[1], m[2], compress, p[1], p[2]) :
     x \in {<<"a", "b">>, <<"c", "b">>, <<"b", "a">>},
     m \in {NoMethod, "Oodle"} \X {NoMethod, "Oodle"} \cup {<<"Oodle", "Zlib">>},
     compress \in BOOLEAN,
     p \in {<<{"P", "Q"}, {}>>, <<{"P", "Q"}, {"Q"}>>, <<{"P"}, {}>>}}

MCGames == SingleGames \cup LargeGames \cup DoubleGames
=============================================================================
