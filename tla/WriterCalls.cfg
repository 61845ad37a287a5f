SPECIFICATION Spec
CONSTANTS
  Batch = 2
  Values <- MCValues
  Options <- MCOptions
  Caps = {0, 1, 4, 5, 40}
INVARIANTS OutputReadsBack EntryPointsAgree JudgesAsParser CompileTimeAgrees
