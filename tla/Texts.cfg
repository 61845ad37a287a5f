SPECIFICATION TextsSpec
CONSTANTS
  k1 = k1
  k2 = k2
  k3 = k3
  k4 = k4
  k5 = k5
  Keys = {k1, k2, k3, k4, k5}
  Hash <- MemberHash
  Threshold = 1
  InitialCap = 2
  MaxMembers = 6
  Kinds = {"validate", "json5", "lines", "json5 lines", "members"}
  Json5Pieces <- Json5Fragments
  MaxFragments = 4
  MaxLineFragments = 5
INVARIANTS SameVerdictAsRuntime Json5IsSuperset LinesAgree Json5LinesApart SameAsInsert KeyIndexSound
