SPECIFICATION Spec
CONSTANTS
  Fds = {3, 4, 5}
  ListenFd = 3
  Clients = {c1, c2}
  Links = {1, 2, 3}
  Hosts = {h1, h2}
  Listener = Listener
  None = None
  MaxRequests = 3
  Interim = TRUE
  MaxEvents = 2
  Reliable = {}
  Signals = {}
INVARIANTS
  TypeOK
  RegistryCoherent
  DownloadIsAwaited
  RoutedOnce
  TrafficInv
PROPERTIES
  ImplementsService
SYMMETRY Symmetric
CHECK_DEADLOCK FALSE
