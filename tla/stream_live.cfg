SPECIFICATION FairSpec
CONSTANTS
    Writers = {w1}
    Watermarkers = {p1, p2}
    Sessions = {s1}
    Streams = {entities}
    None = None
    MaxSeq = 2
    PageSize = 1
    PruneBatch = 2
    MaxFaults = 1
PROPERTY EventuallySeen
