SPECIFICATION Spec
CHECK_DEADLOCK FALSE \* one request: the system stops when it is answered
CONSTANTS
  MaxBytes = 4
  MaxChunk = 2
  MaxQueue = 3
INVARIANTS
  AnswerAsDocumented
