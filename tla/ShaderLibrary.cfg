SPECIFICATION FairSpec
CONSTANTS
  FullSize <- MCFullSize
  PackedSize <- MCPackedSize
  MaxGroupSize = 5
  ChannelSize = 2
  Ahead = 3
  Games <- MCGames
INVARIANTS
  CodeSurvives
  PreloadsCover
  LaidOutInOrder
  FailsJustly
  GroupsBounded
  AssetsSurvive
PROPERTIES
  RebuildEnds
