SPECIFICATION FairSpec
CONSTANTS
  Addresses = {a1, a2}
  Channels = {c1}
  NoStream = NoStream
  Pre = 1
  Data = 1
  MaxEvents = 2
INVARIANTS ExactlyOnceInOrder RegistryIsLive EventIsWatched FrameIsBacked
PROPERTY KeepsMailboxes EventuallyWritten
CHECK_DEADLOCK FALSE
