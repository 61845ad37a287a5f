SPECIFICATION BothSpec
CONSTANTS
  d1 = d1
  d2 = d2
  d3 = d3
  r1 = r1
  r2 = r2
  j1 = j1
  j2 = j2
  a1 = a1
  Docs = {d1, d2, d3}
  Storages = {"Pooled", "SystemDefault"}
  MaxArenas = 3
  MaxBlocks = 6
  MaxOut = 6
  Resources = {r1, r2}
  Values = {j1, j2}
  Arrays = {a1}
  MaxItems = 2
  MaxNesting = 3
SYMMETRY Swaps
INVARIANTS BlocksBalance NothingDangles BlocksAccounted BoundToOneResource
CHECK_DEADLOCK FALSE
