SPECIFICATION FairSpec
CONSTANTS
    split = split
    split2 = split2
    ttl = ttl
    syndata = syndata
    frag = frag
    d1 = d1
    d2 = d2
    d3 = d3
    foreign = foreign
    Candidates = {ttl, frag}
    Inert = {}
    Ports = {p1, p2, p3}
    NoCandidate = NoCandidate
    NoPort = NoPort
    Addrs <- MCAddrs
    DiscordAddrs <- MCDiscordAddrs
    Seeds <- MCSeeds
    Answers <- MCOneAnswer
    Kind <- MCKind
    Rank <- MCRank
    AppPackets <- MCAppMixed
    EngineFaults = {"lost", "decoy", "raise"}
    MaxQueue = 1
INVARIANT ProbeIsolation
PROPERTIES
    ProtectionLasts
    SelectionEnds
    EngineLossNoticed
