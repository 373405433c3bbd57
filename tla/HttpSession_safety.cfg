SPECIFICATION FairSpec
CONSTANTS
  Cap = 3
  Header = 1
  Lens = {1, 2}
  MaxFrames = 4
INVARIANTS TypeOK BytesInOrder RetryWithSameBytes IdleMeansDrained DoneIsClosed
PROPERTY SilentPeerIsRemoved
CHECK_DEADLOCK FALSE
