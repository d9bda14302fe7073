----------------------------- MODULE MCToLegacy -----------------------------
EXTENDS ToLegacy, TLC

CONSTANTS p, q, lib

\* A patch container replaces package p of the base container.
MCContainers == <<<<p>>, <<p, q>>>>
MCFilesOf == (p :> <<"uasset", "uexp">>) @@ (q :> <<"uasset", "uexp", "ubulk">>)
             @@ (lib :> <<"ushaderbytecode", "assetinfo">>)
MCLibraries == <<lib>>
=============================================================================
