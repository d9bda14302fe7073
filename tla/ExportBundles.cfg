SPECIFICATION Spec
CONSTANTS
  Exports = {0, 1, 2}
  Imports = {}
  Preloads <- MCPreloads
  Bytes <- MCBytes
  Files <- MCFiles
INVARIANTS
  BundlesCutLoadOrder
  DependenciesMet
  DataSurvives
