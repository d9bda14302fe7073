--------------------------- MODULE PackageObjects ---------------------------
(***************************************************************************)
(* The objects of packages and how a legacy package names them             *)
(* (src/src/legacy_asset.rs, src/src/zen.rs).                              *)
(*                                                                         *)
(* An object is the sequence of the names on its path, the package first:  *)
(* names are compared as wholes, so the case and the separators of paths   *)
(* are left out, and a hash or a package id is the name it is made from.   *)
(*                                                                         *)
(* An FPackageIndex is 0 for no object, i > 0 for the i-th export, and     *)
(* -i < 0 for the i-th import.                                             *)
(***************************************************************************)
EXTENDS Integers, Sequences, FiniteSets

LOCAL INSTANCE SequencesExt

CONSTANTS
  Sources,         \* the localized packages, with the packages they stand for
  ScriptPackages,  \* the packages of native code, /Script/...
  DefaultObjects,  \* the names that start with Default__
  ScriptObjects    \* the native objects, with their cdo_class_index

ASSUME ObjectsAssumption ==
  /\ \A p \in ScriptPackages : <<p>> \in DOMAIN ScriptObjects
  /\ \A o \in DOMAIN ScriptObjects :
       /\ o[1] \in ScriptPackages
       /\ Len(o) > 1 => Front(o) \in DOMAIN ScriptObjects

Null == 0
IsImport(i) == i < 0
IsExport(i) == i > 0

\* The names of classes that the conversion makes up: <<package, class>>.
PackageClass == <<"CoreUObject", "Package">>
PrestreamClass == <<"CoreUObject", "PrestreamPackage">>
ClassClass == <<"CoreUObject", "Class">>
ObjectClass == <<"CoreUObject", "Object">>

\* A legacy package is [name, imports, exports, depends]: imports are
\* [class, outer, name]; exports have a name, are public or not, and refer to
\* outer, class, super and template; depends has the preload dependencies
\* <<m, n>>, command n waits for command m.
Entry(package, i) == IF IsImport(i) THEN package.imports[-i] ELSE package.exports[i]

\* Every index of a package.
Indices(package) == (-Len(package.imports)..Len(package.exports)) \ {Null}

\* package_object_outer_chain: the indices from the outermost object to i.
Chains(package) ==
  LET chain[i \in Indices(package)] ==
        LET outer == Entry(package, i).outer
        IN  IF outer = Null THEN <<i>> ELSE Append(chain[outer], i)
  IN  chain

\* The paths of the objects that a package, under the given name, has indices
\* for: the package of an export is this package, that of an import the
\* outermost import.
Paths(package, name) ==
  LET chains == Chains(package)
  IN  [i \in DOMAIN chains |->
        LET names == [k \in DOMAIN chains[i] |-> Entry(package, chains[i][k]).name]
        IN  IF IsExport(chains[i][1]) THEN <<name>> \o names ELSE names]

\* The package a localized package stands for, and itself for any other.
SourceName(name) == IF name \in DOMAIN Sources THEN Sources[name] ELSE name
=============================================================================
