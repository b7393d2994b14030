\* Three requests, a queue of two, a server that is removed and added again under
\* its address; Bounds says what does not come together.
CONSTANTS
  r1 = r1  r2 = r2  r3 = r3  s1 = s1  s2 = s2
  Requests = {r1, r2, r3}
  Servers = {s1, s2}
  InitialServers = {s1}
  AddressOf <- Addresses
  NoServer = NoServer  NoRequest = NoRequest
  QueueEnabled = TRUE
  MaxQueueSize = 2
  CapacityGatingEnabled = TRUE
  MaxRunningPerServer = 1
  UnhealthyThreshold = 1
  CacheReadings = {FALSE}
SPECIFICATION FairSpec
ACTION_CONSTRAINT Bounds
INVARIANTS NoSilentReturn
PROPERTIES ImplementsAdmissionQueue RemovedServersDrain
CHECK_DEADLOCK FALSE
