SPECIFICATION FairSpec
CONSTANTS
  N = 2
  MaxFds = 3
  MaxRestarts = 1
INVARIANTS ServedOnce LookupSucceeds TeardownOrder
PROPERTIES ConnectionIsTaken ShutdownEnds
CHECK_DEADLOCK FALSE
