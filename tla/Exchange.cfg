SPECIFICATION FairSpec
CONSTANTS
  ChunkSize = 2
  Requests <- MCRequests
  Responses <- MCResponses
  Version <- MCVersion
  Cuts = {"request title", "last chunk"}
  Room = 9
INVARIANTS
  TypeOK
  RequestIntact
  ResponseIntact
  NothingCarriedOver
PROPERTIES
  Answered
CHECK_DEADLOCK FALSE
