SPECIFICATION FairSpec
CONSTANTS
  Rows <- MCRows
  Relays = {}
  SettledElsewhere = {}
  Decisions = {"resumed", "cancelled"}
  Watch = FALSE
  MaxTroubles = 1
PROPERTY RunCompletes
