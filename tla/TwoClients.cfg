SPECIFICATION Spec
CONSTANTS
  Fds = {3, 4, 5, 6}
  ListenFd = 3
  Clients = {c1, c2}
  Links = {1, 2, 3}
  Hosts = {h1, h2}
  Listener = Listener
  None = None
  MaxRequests = 3
  Interim = FALSE
  MaxEvents = 3
  Reliable = {h1, h2}
  Signals = {"INT"}
SYMMETRY Symmetric
INVARIANTS
  CapturesValid
  Inv
  IncomeIsOneRequest
  TrafficInv
PROPERTIES
  HangupIsPrivate
  ImplementsService
CHECK_DEADLOCK FALSE
