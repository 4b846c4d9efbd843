SPECIFICATION Spec
CONSTANTS
  Fds = {3, 4, 5, 6, 7}
  ListenFd = 3
  Clients = {c1}
  Links = {1, 2}
  Hosts = {h1, h2}
  Listener = Listener
  None = None
  MaxRequests = 2
  Interim = TRUE
  MaxEvents = 5
  Reliable = {}
  Signals = {}
INVARIANTS
  WriteFailureLogged
CHECK_DEADLOCK FALSE
