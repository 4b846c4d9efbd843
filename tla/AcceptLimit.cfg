SPECIFICATION Spec
CONSTANTS
  Fds = {3, 4}
  ListenFd = 3
  Clients = {c1, c2}
  Links = {1}
  Hosts = {h1, h2}
  Listener = Listener
  None = None
  MaxRequests = 1
  Interim = FALSE
  MaxEvents = 5
  Reliable = {}
  Signals = {}
INVARIANTS
  AcceptFailureLogged
CHECK_DEADLOCK FALSE
