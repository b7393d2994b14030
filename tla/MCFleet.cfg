\* Two operators, one of them an administrator or without an identity yet, who
\* start two commands; nothing runs at first, or an instance of each.
CONSTANTS
  Ops = {"alice", "bob"}  Users = {"ua", "ub", "u3", "u4"}  Nicks = {"bo"}
  Org = "acme"  Projects = {"proj"}  Homes <- SomeHomes  Members <- SomeMembers
  Book <- AliceKnowsBob  RoleArgs <- SomeRoles
  Ids = {"i1", "i2", "i3"}  NoId = ""  Names = {"web", "db"}
  Regions = {"r1", "r2"}  Filesystems = {"data"}  Ports = {"p1", "p2"}
  KeyNames = {"k1", "k2", "k3"}  None = "none"
  Providers = {"lambda", "orgo", "modal"}
  LaunchFlags <- SomeFlags  KillArgs <- SomeKills  Rulesets <- NoRules
  Fleets <- SomeFleets
  MaxCommands = 2
SPECIFICATION Spec
INVARIANTS TypeOK OwnedWhileRunning RoleOnlyAfterTransfer
PROPERTIES OnlyOwnerOrAdminKills KillsOnlyNamed PortsLostOnlyToRaces RoleReplaced
CHECK_DEADLOCK FALSE
