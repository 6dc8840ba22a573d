SPECIFICATION FairSpec
CONSTANTS
  QueueSize = 1
  RecvRoom = 1
  SendRoom = 2
  Sizes = {1, 3}
  MaxRuns = 2
  MaxCommands = 3
INVARIANTS TypeOK StaleOnlyAfterCrash
PROPERTIES EndStops RelaysCommands
CHECK_DEADLOCK FALSE
