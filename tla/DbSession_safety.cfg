SPECIFICATION Spec
CONSTANTS
  MaxQueries = 2
  MaxStreams = 2
  Batch = 1
  Stmts = {s1}
  NoStmt = NoStmt
  Outcomes = {"ok", "error", "empty", "bad"}
  MaxRounds = 1
  MaxRestarts = 1
  MaxNotifs = 1
INVARIANTS TypeOK Aligned ResultsMatch StrandedResultIsFollowed WriterArmed PreparedFirst
PROPERTY KeepsPromise
CHECK_DEADLOCK FALSE
