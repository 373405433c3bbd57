SPECIFICATION FairSpec
CONSTANTS
  Names = {"a"}
  Lens = {1, 2}
  MaxChanges = 3
  MaxEntries = 4
  Slots = {1}
INVARIANTS InfoIsFresh AnnouncedIsSent ReaderIsSafe
PROPERTY VanishedIsForgotten
CHECK_DEADLOCK FALSE
