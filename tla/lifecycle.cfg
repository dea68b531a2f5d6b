SPECIFICATION FairSpec
CONSTANTS
  Requests = {r1, r2}
  u1 = u1
  u2 = u2
  health = health
  missing = missing
  Paths <- MCPaths
  Pattern <- MCPattern
  PlainPaths <- MCPlainPaths
  Asked <- MCAsked
  Stack <- MetricsInLog
  HandlerCodes <- MCHandlerCodes
  HandlerErrors <- MCErrors
  ReplyError <- MCReplyError
INVARIANTS
  TypeOK
  InFlightExact
  TotalIsWhatClientsGot
  LoggedStatusIsSent
  OneReply
PROPERTY
  EveryRequestEnds
