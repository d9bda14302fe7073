------------------------- MODULE MCPackageRoundTrip -------------------------
(* Small packages for the round trip of import and export maps.            *)
EXTENDS PackageRoundTrip

LOCAL INSTANCE SequencesExt
LOCAL INSTANCE FiniteSetsExt

\* The native package E has the classes C and G, with their default objects, and
\* a function X of C.
MCScriptPackages == {"E"}
MCDefaultObjects == {"Default__C", "Default__G", "Default__K"}
MCScriptObjects ==
  [o \in {<<"E">>, <<"E", "C">>, <<"E", "G">>, <<"E", "C", "X">>,
          <<"E", "Default__C">>, <<"E", "Default__G">>} |->
     CASE Len(o) = 2 /\ o[2] = "Default__C" -> <<"E", "C">>
       [] Len(o) = 2 /\ o[2] = "Default__G" -> <<"E", "G">>
       [] OTHER -> <<>>]

\* A has a localized form, which the redirects lead to.
MCSources == [p \in {"A_fr"} |-> "A"]
MCRedirects == [p \in {"A"} |-> "A_fr"]

\* The objects that can be imported, and their classes.
ClassOf(path) ==
  CASE Len(path) = 1 -> IF path[1] = "P" THEN PrestreamClass ELSE PackageClass
    [] path = <<"E", "C", "X">> -> <<"CoreUObject", "Function">>
    [] path \in {<<"E", "C">>, <<"E", "G">>} -> ClassClass
    [] path \in {<<"E", "Default__C">>, <<"A", "X">>} -> <<"E", "C">>
    [] path \in {<<"B", "K">>, <<"A", "X", "Y">>} -> <<"E", "G">>
    [] OTHER -> <<"B", "K">>

At(paths, path) == IF path \in Range(paths) THEN -PositionOf(paths, path) ELSE Null

ImportsOf(paths) ==
  [i \in DOMAIN paths |-> [class |-> ClassOf(paths[i]),
                           outer |-> At(paths, Front(paths[i])),
                           name |-> Last(paths[i])]]

Object(name, outer, class, super, template, public) ==
  [name |-> name, outer |-> outer, class |-> class, super |-> super, template |-> template,
   public |-> public]

\* What the cooker makes every export wait for.
Natural(exports) ==
  UNION {LET On(i, c, d) == {<<<<i, c>>, <<e, d>>>> : x \in {i} \ {Null}}
             x == exports[e]
         IN  On(x.outer, "Create", "Create") \cup On(x.super, "Create", "Create")
               \cup On(x.super, "Serialize", "Serialize") \cup On(x.class, "Serialize", "Create")
               \cup On(x.template, "Serialize", "Create") : e \in DOMAIN exports}

Package(name, paths, exports, extra) ==
  [name |-> name, imports |-> ImportsOf(paths), exports |-> exports,
   depends |-> Natural(exports) \cup extra]

E == <<"E">>
EC == <<"E", "C">>
EG == <<"E", "G">>
ECX == <<"E", "C", "X">>
EDefault == <<"E", "Default__C">>
A == <<"A">>
AX == <<"A", "X">>
AXY == <<"A", "X", "Y">>
B == <<"B">>
BK == <<"B", "K">>
D == <<"D">>
DZ == <<"D", "Z">>
P == <<"P">>

Two == <<Object("X", 0, -2, 0, 0, TRUE), Object("Y", 1, -3, 0, 0, TRUE)>>
MCOthers ==
  [name \in {"A", "A_fr", "B", "D", "P"} |->
     CASE name = "B" -> Package(name, <<E, EG>>,
                                <<Object("K", 0, -2, 0, 0, TRUE),
                                  Object("Default__K", 0, 1, 0, 0, TRUE)>>, {})
       [] name = "D" -> Package(name, <<BK, B>>, <<Object("Z", 0, -1, 0, 0, TRUE)>>, {})
       [] name = "P" -> Package(name, <<E, EC>>, <<Object("Q", 0, -2, 0, 0, FALSE)>>, {})
       [] OTHER -> Package(name, <<E, EC, EG>>, Two, {})]

\* The package S has two exports, M and N in M; what it imports and refers to.
Refers(class, super, template) == [class |-> class, super |-> super, template |-> template]
Nothing == <<>>

Subject(paths, refers, publicM, publicN, extra) ==
  Package("S", paths,
    <<Object("M", Null, At(paths, refers.class), At(paths, refers.super),
             At(paths, refers.template), publicM),
      Object("N", 1, At(paths, EC), Null, Null, publicN)>>, extra)

\* One more dependency, between the exports or on an import.
Extra(paths) ==
  {{}, {<<<<1, "Serialize">>, <<2, "Serialize">>>>}, {<<<<2, "Serialize">>, <<1, "Serialize">>>>},
   {<<<<At(paths, AX), "Serialize">>, <<1, "Create">>>>},
   {<<<<At(paths, AX), "Create">>, <<2, "Serialize">>>>}}

Permuted ==
  UNION {{Subject(paths, Refers(EC, AX, Nothing), m, n, extra) :
            m \in BOOLEAN, n \in BOOLEAN, extra \in Extra(paths)} :
           paths \in SetToSeqs({E, EC, A, AX})}

Varied ==
  {Subject(s[1], s[2], m, TRUE, {<<<<1, "Serialize">>, <<2, "Serialize">>>>}) :
     m \in BOOLEAN,
     s \in {<<<<E, EC, A, AX, AXY>>, Refers(EC, AX, AXY)>>,
            <<<<AXY, BK, EC, AX, E, B, A>>, Refers(BK, Nothing, AXY)>>,
            <<<<EDefault, DZ, A, ECX, E, D, EC, AX>>, Refers(EC, AX, EDefault)>>,
            <<<<P, ECX, EC, BK, B, E>>, Refers(BK, Nothing, Nothing)>>,
            <<<<B, EC, A, AX, E>>, Refers(EC, AX, Nothing)>>}}

\* The games: for any package, any engine and nothing else of note; for the
\* varied ones, all ways to tell a package version, and stores with gaps and
\* redirects.
Game(e, tells, missing, redirected, together, keeps) ==
  [engine |-> e, versioned |-> tells = "package", known |-> tells = "user", lost |-> missing,
   redirected |-> redirected, together |-> together, keeps |-> keeps]

PlainGames == {Game(e, "nobody", {}, FALSE, TRUE, FALSE) : e \in Engines}
Games ==
  {Game(e, tells, {}, FALSE, TRUE, keeps) :
     e \in Engines, tells \in {"package", "user", "nobody"}, keeps \in BOOLEAN}
  \cup {Game(e, "nobody", missing, redirected, together, keeps) :
     e \in Engines, missing \in {{}, {"A"}, {"B"}, {"P"}}, redirected \in BOOLEAN,
     together \in BOOLEAN, keeps \in BOOLEAN}

MCCases == (Permuted \X PlainGames) \cup (Varied \X Games)
=============================================================================
