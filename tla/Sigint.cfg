SPECIFICATION FairSpec
CONSTANTS
  Fds = {3, 4, 5, 6, 7}
  ListenFd = 3
  Clients = {c1}
  Links = {1}
  Hosts = {h1}
  Listener = Listener
  None = None
  MaxRequests = 1
  Interim = FALSE
  MaxEvents = 5
  Reliable = {}
  Signals = {"INT"}
PROPERTIES
  IntStops
CHECK_DEADLOCK FALSE
