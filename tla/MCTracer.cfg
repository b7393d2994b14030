\* Two nodes and one request, and one node and two; two or three commands,
\* one after the other or together.
CONSTANTS
  Nodes = {1, 2}  Requests = {"q1", "q2"}  Clusters <- SmallClusters
  MaxCommands = 3  None = None
SPECIFICATION Spec
INVARIANT WholeRequestsAreTraced
PROPERTY AnswerIsTheSession
CHECK_DEADLOCK FALSE
