SPECIFICATION FairSpec
CONSTANTS
  Types = {"Order", "Item", "Note"}
  TypeNames = {"Order", "Item", "Note", ""}
  Names = {"x", "y", "X", "Y"}
  Lower <- LowerCase
  MaxDepth = 5
  Programs <- Acyclic
INVARIANTS
  TypeOK
  EveryRefResolves
  DefinitionsAreEncodings
  ParsedIsDocumented
PROPERTY
  DocumentIsServed
CHECK_DEADLOCK FALSE
