SPECIFICATION Spec
CONSTANTS
  Rows <- MCRows
  Relays <- MCRelays
  SettledElsewhere = {}
  Decisions = {"resumed"}
  Watch = TRUE
  MaxTroubles = 1
INVARIANT WatchGoesOn
CHECK_DEADLOCK FALSE
