SPECIFICATION FairSpec
CONSTANTS
  Inputs <- Documents
  ChunkSizes = {1, 2, 3, 5, 8}
  Modes = {"SingleRoot", "MultiValue"}
  MaxDepths = {0, 1}
  StripBoms = {FALSE, TRUE}
  StrictUtf8s = {TRUE}
  ReadFaults = TRUE
INVARIANTS ReaderInv CleanEndIsComplete EventsArePrefix
PROPERTIES FirstErrorWins Termination
