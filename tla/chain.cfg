SPECIFICATION Spec
CONSTANTS
  Lists <- MCLists
  Kinds <- MCKinds
  Messages <- MCMessages
  HandlerErrors <- MCHandlerErrors
  Half = 128
  Whole = 512
  Limit = 100
INVARIANTS
  TypeOK
  EveryGuardHolds
  ContextIsTheRequest
  UnreadUntilAccepted
  LogTellsOutcome
