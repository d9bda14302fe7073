SPECIFICATION FairSpec
CONSTANTS
  Threads = {w1, w2, w3}
  Packages = {p1, p2}
  Nobody = Nobody
  MaxLookups = 2
INVARIANTS
  SingleLoad
PROPERTIES
  ActsAsMemo
  LookupsReturn
