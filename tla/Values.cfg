SPECIFICATION ValuesSpec
CONSTANTS
  Targets <- PatchTargets
  Patches <- PatchSet
  Merges <- MergeSet
  Values <- OrderValues
  Schemas <- SchemaSet
  Instances <- InstanceSet
  Trees <- PathTrees
  SizeMax = 127
  Alphabet = {".", "[", "]", "0", "1", "9", "a"}
  JsonEqual <- TreeEqual
  JsonClone <- TreeClone
  JsonRuntime <- TreeToRuntime
  NodePlaced <- TreeWithNode
  NodesOf <- TreeSubtree
  Valid <- Conforms
INVARIANTS PatchMayDie OperationLaws MergeConverges ComparisonsAgree VerdictIsConjunction ReportLocatesFirst PathDenotesOne
PROPERTIES Atomic
