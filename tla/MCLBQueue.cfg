\* Three requests under least-loaded, a queue of one and peers that break
\* connections: the queue, its processor and the counters.
CONSTANTS
  r1 = r1  r2 = r2  r3 = r3  p1 = p1  p2 = p2  k1 = k1
  Requests = {r1, r2, r3}
  Pushed = {}
  Prompts <- OnePrompt
  PromptOf <- SamePrompt
  UrlPath = UrlPath
  Peers = {p1}
  Self = Self  NoPeer = NoPeer  NoRequest = NoRequest  Proc = Proc  Admin = Admin
  InitialStrategy = "least-loaded"
  NewStrategies = {}
  QueueSettings = {TRUE}
  MaxQueueSize = 1
  RunningReqsThreshold = 1
  UseIEQueueIndicator = TRUE
  MaxLoad = 1
  BatchSize = 1
  RequestTimeout = 1
  Faults = {"peerFailure"}
SPECIFICATION Spec
INVARIANTS Accounting
PROPERTIES ImplementsAdmissionQueue
SYMMETRY Symmetry
CHECK_DEADLOCK FALSE
