SPECIFICATION FairSpec
CONSTANTS
  Workers = {w1, w2}
  Packages = {p, q}
  p = p
  q = q
  lib = lib
  None = None
  Containers <- MCContainers
  FilesOf <- MCFilesOf
  Libraries <- MCLibraries
INVARIANTS
  CompleteWhenOk
  NoOrphanFiles
PROPERTIES
  CommandReturns
