SPECIFICATION FairSpec
CONSTANTS
  Fds = {3, 4, 5, 6, 7}
  ListenFd = 3
  Clients = {c1}
  Links = {1, 2, 3}
  Hosts = {h1, h2}
  Listener = Listener
  None = None
  MaxRequests = 3
  Interim = FALSE
  MaxEvents = 5
  Reliable = {h1, h2}
  Signals = {"TERM"}
PROPERTIES
  HangupSeen
  RequestForwarded
  AnswerForwarded
CHECK_DEADLOCK FALSE
