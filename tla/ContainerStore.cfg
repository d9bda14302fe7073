SPECIFICATION Spec
CONSTANTS
  BlockSize = 2
  Names <- MCNames
  Versions <- MCVersions
  ChunkInputs <- MCChunkInputs
  PackageInputs <- MCPackageInputs
  ScriptObjects <- MCScriptObjects
  GlobalVersion = 2
  NoSource = 0
  Usages <- MCUsages
  Idle = Idle
CHECK_DEADLOCK FALSE
INVARIANTS
  PathsAgree
  ListingMatchesRead
  EntryMatchesChunk
PROPERTIES
  ActsAsLayers
