SPECIFICATION FairSpec
CONSTANTS
  Ids = {1, 2}
  Expecting = {1}
  Lens = {0, 2}
  Windows = {0, 2}
  MaxWindow = 2
  MaxFrames = 2
  MaxEvents = 1
INVARIANTS ReadTimerIsRight OwnWindowIsTimed NoErrorIsWhole
PROPERTY EveryStreamEnds
CHECK_DEADLOCK FALSE
