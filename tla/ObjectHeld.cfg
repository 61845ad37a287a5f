SPECIFICATION Spec
CONSTANTS
  k1 = k1
  k2 = k2
  k3 = k3
  leaf = leaf
  leaf2 = leaf2
  other = other
  Null = Null
  Objs = {"a", "b"}
  Keys = {k1, k2, k3}
  Scalars = {Null, other}
  Leaves = {leaf, leaf2}
  Resources = {"r", "s"}
  Hash <- HashTable
  Threshold = 1
  MinCap = 2
  Programs <- Holder
INVARIANTS LookupFindsFirst
