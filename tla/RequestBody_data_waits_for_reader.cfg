SPECIFICATION Spec
CONSTANTS
  MaxChunks = 4
  MaxWaits = 2
  Styles = {"body", "data", "on_body", "on_data"}
CHECK_DEADLOCK FALSE
INVARIANT DataWaitsForReader
