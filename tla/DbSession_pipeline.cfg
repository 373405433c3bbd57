SPECIFICATION FairSpec
CONSTANTS
  MaxQueries = 3
  MaxStreams = 1
  Batch = 2
  Stmts = {s1}
  NoStmt = NoStmt
  Outcomes = {"ok", "error", "empty"}
  MaxRounds = 0
  MaxRestarts = 0
  MaxNotifs = 0
PROPERTY EventuallyCompleted
CHECK_DEADLOCK FALSE
