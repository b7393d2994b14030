\* Two nodes, two clients and four visits: enough for each processor to wait
\* for a request behind the other.
CONSTANTS
  n1 = n1  n2 = n2  c1 = c1  c2 = c2
  Nodes = {n1, n2}
  Visits <- FourVisits
  Clients = {c1, c2}
  Home <- OneEach
  Nobody = Nobody
  MaxHops = 1
  MaxQueueSize = 1
  MaxRuns = 2
SPECIFICATION FairSpec
INVARIANTS HopsBounded OneRunUnlessRetried
PROPERTIES ClientsAnswered
CHECK_DEADLOCK FALSE
