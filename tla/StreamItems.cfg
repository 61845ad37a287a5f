SPECIFICATION Spec
CONSTANTS
  PrefixTexts <- Pointers
  Texts <- Names
  SizeMax = 10
  MaxDepth = 4
  MaxIndex = 2
INVARIANTS CursorSound PrefixDecodes
