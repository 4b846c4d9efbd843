SPECIFICATION Spec
CONSTANTS
  ChunkSize = 2
  Requests <- MCRequests
  Responses <- OddAnswers
  Version <- MCVersion
  Cuts = {"last chunk"}
  Room = 9
PROPERTIES
  ChunkAwaited
CHECK_DEADLOCK FALSE
