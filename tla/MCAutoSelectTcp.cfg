SPECIFICATION Spec
CONSTANTS
    split = split
    split2 = split2
    ttl = ttl
    syndata = syndata
    frag = frag
    d1 = d1
    d2 = d2
    d3 = d3
    foreign = foreign
    Candidates = {split, split2, syndata}
    Inert = {split2}
    Ports = {p1, p2, p3, p4}
    NoCandidate = NoCandidate
    NoPort = NoPort
    Addrs <- MCAddrs
    DiscordAddrs <- MCDiscordAddrs
    Seeds <- MCSeeds
    Answers <- MCTwoAnswers
    Kind <- MCKind
    Rank <- MCRank
    AppPackets <- MCAppTcp
    EngineFaults = {"lost"}
    MaxQueue = 2
SYMMETRY PortSymmetry
INVARIANTS
    AppliedMeansAltered
    ActiveWasVerified
    GivesUpEmptyHanded
    OnlyDiscordTouched
    FirstHelloAltered
PROPERTY Selects
