SPECIFICATION Spec
CONSTANTS
  Nodes = {m, n}
  Objects = {a, b, s}
  Packages = {p, q}
  a = a
  b = b
  s = s
  p = p
  q = q
  None = None
  PackageOf <- MCPackageOf
  Bundles = {1, 2}
  MaxDependencies = 3
INVARIANTS
  ArcsMatchDependencies
  FailsJustly
