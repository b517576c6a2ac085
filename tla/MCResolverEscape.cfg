SPECIFICATION FairSpec
CONSTANTS
  None = None
  Servers <- MCServers
  Addrs = {1, 2, 3}
  MaxIps = 2
INVARIANT EveryErrorRetried
