SPECIFICATION Spec
CONSTANTS
  r4 = r4
  r6 = r6
  p1 = p1
  None = None
  Remotes = {r4, r6}
  IPv4 = {r4}
  LocalPorts = {p1}
  Ttls = {4, 5}
  Ids = {0, 7}
  DropSuspectRst = TRUE
  MayProtect = {r4, r6}
  SynWindow = 2
  FlowWindow = 1
  StatsInterval = 2
  MaxOutputs = 3
  MaxTime = 5
INVARIANT MemoryBounded
PROPERTY Filters
