SPECIFICATION FairSpec
CONSTANTS
  Types = {"Order", "Note"}
  TypeNames = {"Order", "Note", ""}
  Names = {"x", "y", "X", "Y"}
  Lower <- LowerCase
  MaxDepth = 5
  Programs <- Tree
PROPERTY
  DocumentIsServed
CHECK_DEADLOCK FALSE
