SPECIFICATION FairSpec
CONSTANTS
  MaxBytes = 2
  MaxChunk = 2
  MaxQueue = 3
INVARIANTS
  RequestInvariant
PROPERTIES
  ContractSpec
  EveryFetchAnswered
  AbortStopsStream
