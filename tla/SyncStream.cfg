SPECIFICATION FairSpec
CONSTANTS
  Streams = {s1}
  MaxChunks = 5
  MaxEarly = 3
  MaxRetired = 1
INVARIANTS
  ReaderInvariant
  ReleasedLeavesNothing
PROPERTIES
  NoHangAfterEnd
  GivingUpEndsNative
