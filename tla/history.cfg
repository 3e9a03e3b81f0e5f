SPECIFICATION FairSpec
CONSTANTS
  Room = {r1, r2}
  Page = 2
  Calm = TRUE
  MaxMsg = 4
  MaxTime = 4
  MaxBacklog = 2
  MaxRows = 4
CHECK_DEADLOCK FALSE
INVARIANTS TypeOK RowsCounted ShowsOneStretch ClientSurvives
PROPERTIES WaitEnds
