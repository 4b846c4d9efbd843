SPECIFICATION Spec
CONSTANTS
  ChunkSize = 2
  Requests <- MCRequests
  Responses <- EvenAnswers
  Version <- MCVersion
  Cuts = {}
  Room = 9
INVARIANTS
  ChunkedSupported
CHECK_DEADLOCK FALSE
