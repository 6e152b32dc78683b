SPECIFICATION FairSpec
CONSTANTS
  MaxBytes = 3
  MaxRead = 2
INVARIANTS
  StreamGrammar
  RequestInvariant
PROPERTIES
  ContractSpec
  EveryFetchAnswered
  AbortStopsStream
