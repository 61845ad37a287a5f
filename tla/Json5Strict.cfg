SPECIFICATION TextsSpec
CONSTANTS
  k1 = k1
  k2 = k2
  k3 = k3
  k4 = k4
  k5 = k5
  Keys = {k1, k2, k3, k4, k5}
  Hash <- MemberHash
  Threshold = 1
  InitialCap = 2
  MaxMembers = 6
  Kinds = {"json5"}
  Json5Pieces <- StringFragments
  MaxFragments = 5
  MaxLineFragments = 5
INVARIANTS StrictMeansWellFormed
