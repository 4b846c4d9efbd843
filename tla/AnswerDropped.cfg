SPECIFICATION Spec
CONSTANTS
  Fds = {3, 4, 5, 6, 7}
  ListenFd = 3
  Clients = {c1}
  Links = {1}
  Hosts = {h1, h2}
  Listener = Listener
  None = None
  MaxRequests = 1
  Interim = FALSE
  MaxEvents = 5
  Reliable = {}
  Signals = {}
PROPERTIES
  CouldNotDownload
CHECK_DEADLOCK FALSE
