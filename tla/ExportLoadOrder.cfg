SPECIFICATION SortSpec
CONSTANTS
  Exports = {0, 1, 2}
  Imports = {i}
  Preloads <- MCPreloads
INVARIANTS
  RespectsDependencies
  OrderCanonical
PROPERTIES
  SortsInLoadOrder
