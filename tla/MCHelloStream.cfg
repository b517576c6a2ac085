SPECIFICATION FairSpec
CONSTANTS
  Strategies <- MCEvery
  SplitPos = 2
  FakeTtl = 1
  BadSeqIncrement <- MCFarBack
  HelloLen = 6
  NameAt = 2
  NameLen = 3
  StreamLen = 8
  RecordBytes = {0, 5, 6, 7}
  Msses = {3, 4, 8}
  SeqSpace = 64
  Isn = 62
  Window = 10
  Distance = 3
  FullTtl = 64
  Decoy = Decoy
  None = None
INVARIANTS TypeOK StreamIntact HostnameSplit
PROPERTY StreamArrives
