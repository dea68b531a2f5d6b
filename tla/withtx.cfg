SPECIFICATION FairSpec
CONSTANTS
  Calls = {c1, c2}
  MaxOpenConns = 2
  FnErrors <- MCFnErrors
INVARIANTS
  TypeOK
  NothingLeftBehind
PROPERTIES
  KeepsPromise
  CancelBeforeCommitAborts
  StuckOnlyOnPool
  TimeoutsUnstick
