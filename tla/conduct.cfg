SPECIFICATION FairSpec
CONSTANTS
  Rows <- MCRows
  Relays <- MCRelays
  SettledElsewhere = {"of-another-run"}
  Decisions = {"resumed"}
  Watch = FALSE
  MaxTroubles = 1
INVARIANTS
  TypeOK
  BarrierHolds
  AnsweredBeforeNextPhase
  CompleteMeansValidated
  CompleteMeansAnswered
PROPERTIES
  SettlesInTurn
  BarrierOnlyAdvances
  KeepsStep
  EveryoneIsTold
