SPECIFICATION FairSpec
CONSTANTS
  Types = {"Order", "Item", "Note"}
  TypeNames = {"Order", "Item", "Note", ""}
  Names = {"x", "y", "X", "Y"}
  Lower <- LowerCase
  MaxDepth = 5
  Programs <- SeenDifferently
INVARIANT
  DefinitionsAreEncodings
CHECK_DEADLOCK FALSE
