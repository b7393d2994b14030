\* GORGO with a request that another node pushed here: clients leave, answers
\* break off, the node is stopped, the queue switched off and on, the tree
\* replaced and cleared.
CONSTANTS
  r1 = r1  r2 = r2  r3 = r3  p1 = p1  p2 = p2  k1 = k1
  Requests = {r1, r2}
  Pushed = {r2}
  Prompts <- OnePrompt
  PromptOf <- SamePrompt
  UrlPath = UrlPath
  Peers = {p1}
  Self = Self  NoPeer = NoPeer  NoRequest = NoRequest  Proc = Proc  Admin = Admin
  InitialStrategy = "gorgo"
  NewStrategies = {"gorgo"}
  QueueSettings = {TRUE, FALSE}
  MaxQueueSize = 1
  RunningReqsThreshold = 1
  UseIEQueueIndicator = TRUE
  MaxLoad = 1
  BatchSize = 1
  RequestTimeout = 1
  Faults = {"disconnect", "truncation", "stop"}
SPECIFICATION Spec
INVARIANTS PushedStaysHere NoSilentReturn RunningExact
CHECK_DEADLOCK FALSE
