SPECIFICATION FairSpec
CONSTANTS
  Workers = {w1, w2}
  Assets = {a1, a2, a3, a4}
  Packages = {p, q, r, x}
  a1 = a1
  a2 = a2
  a3 = a3
  a4 = a4
  p = p
  q = q
  r = r
  x = x
  None = None
  PackageOf <- MCPackageOf
  BulkKinds <- MCBulkKinds
  Imports <- MCImports
INVARIANTS
  AllOrNothing
  EntryMatchesData
  ArcsMatchReader
  BulkDataBounded
PROPERTIES
  CommandReturns
