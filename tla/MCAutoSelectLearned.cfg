SPECIFICATION Spec
CONSTANTS
    split = split
    split2 = split2
    ttl = ttl
    syndata = syndata
    frag = frag
    d1 = d1
    d2 = d2
    d3 = d3
    foreign = foreign
    Candidates = {syndata}
    Inert = {}
    Ports = {p1, p2, p3}
    NoCandidate = NoCandidate
    NoPort = NoPort
    Addrs <- MCAddrs
    DiscordAddrs <- MCDiscordAddrs
    Seeds <- MCSeeds
    Answers <- MCOneAnswer
    Kind <- MCKind
    Rank <- MCRank
    AppPackets <- MCAppHello
    EngineFaults = {}
    MaxQueue = 1
INVARIANT LearnedHelloAltered
