SPECIFICATION Spec
CONSTANTS
  Fds = {3, 4, 5, 6, 7}
  ListenFd = 3
  Clients = {c1, c2}
  Links = {1, 2}
  Hosts = {h1, h2}
  Listener = Listener
  None = None
  MaxRequests = 2
  Interim = FALSE
  MaxEvents = 5
  Reliable = {}
  Signals = {}
PROPERTIES
  IncomeMeansData
CHECK_DEADLOCK FALSE
