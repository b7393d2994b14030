\* Two tasks, the second in the background, and another command beside theirs; one
\* host that is connected once.
CONSTANTS
  p1 = p1  host = host  c1 = c1  probe = probe
  a = a  b = b  missing = missing
  Provisioners = {p1}
  TaskNames = {a, b}  NoTask = NoTask
  Background = {b}
  DependsOn <- SomeDependencies
  HostOf <- AllOnHost
  Calls <- SomeCalls
  Hosts = {host}
  Target <- AllAtHost
  Conns = {c1}
  NoHost = NoHost  NoConn = NoConn  NoCall = NoCall
SPECIFICATION TasksFairSpec
INVARIANTS NoLeakedConnection RunsAsReported DependenciesFirst
  ReturnIsJustified
PROPERTIES GoroutinesEnd TasksReturn
CHECK_DEADLOCK FALSE
