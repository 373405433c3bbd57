SPECIFICATION Spec
CONSTANTS
  Addresses = {a1}
  Channels = {c1}
  NoStream = NoStream
  Pre = 2
  Data = 1
  MaxEvents = 1
INVARIANT EventsMayBeCut
CHECK_DEADLOCK FALSE
