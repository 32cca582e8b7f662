SPECIFICATION Spec
CONSTANTS
    a = a
    b = b
    c = c
    Ids <- MCIds
    None = None
    Rank <- MCRank
    MaxNames = 3
    Addresses = 3
    Checksum <- MCSums
    MaxSeconds = 0
    MaxFresh = 2
    MaxTunnels = 4
INVARIANTS TypeOK InterfacesUnique FlagsFollowActive
PROPERTY InterfacesKept
