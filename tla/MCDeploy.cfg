\* See the scenes of MCDeploy.
CONSTANTS
  Nodes = {1, 2}  Pids = {1, 2, 3, 4}  Requests = {"q1"}  None = None
  Kinds = {"deploy", "restart", "upload", "remote-stop", "proxy", "flush",
           "clear-cache", "policy gorgo", "policy least-loaded",
           "build", "build start", "setup",
           "lb start", "lb stop", "proxy start", "proxy stop"}
  Scenes <- SomeScenes
  MaxCommands = 2
SPECIFICATION Spec
INVARIANTS SuccessIsOfTheNew StopFindsTheServer FlushLeavesNoStaleEntry
CHECK_DEADLOCK FALSE
