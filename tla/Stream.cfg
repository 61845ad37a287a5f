SPECIFICATION SuiteSpec
CONSTANTS
  Inputs <- AllInputs
  ChunkSizes = {0, 1, 2, 3}
  Modes = {"SingleRoot", "MultiValue"}
  MaxDepths = {0, 2}
  StripBoms = {FALSE}
  StrictUtf8s = {FALSE, TRUE}
  ReadFaults = FALSE
INVARIANTS WindowIsSlice DecodeBehindCursor EventProtocol SameVerdictAsDom SameFirstError
