SPECIFICATION Spec
CONSTANTS
  Fds = {3, 4, 5, 6}
  ListenFd = 3
  Clients = {1, 2, 3}
  Links = {}
  Listener = Listener
  None = None
  MaxDeeds = 3
  Buffer = 1
  IdRange = 4
  FirstId = 3
INVARIANTS
  TypeOK
  ClientsWatched
  FeedIsLog
  LogIsTruth
  ChatInv
PROPERTIES
  HangupIsReal
  Attended
CHECK_DEADLOCK FALSE
