SPECIFICATION Spec
CONSTANTS
  MaxQueries = 2
  MaxStreams = 1
  Batch = 1
  Stmts = {s1}
  NoStmt = NoStmt
  Outcomes = {"ok", "error", "empty"}
  MaxRounds = 1
  MaxRestarts = 0
  MaxNotifs = 0
INVARIANT QueuedIsWatched
CHECK_DEADLOCK FALSE
