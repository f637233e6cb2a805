SPECIFICATION Spec
CONSTANTS
    Writers = {w1, w2}
    Watermarkers = {p1}
    Sessions = {s1, s2}
    Streams = {entities}
    None = None
    MaxSeq = 2
    PageSize = 1
    PruneBatch = 2
    MaxFaults = 1
INVARIANTS
    NoCommitBelowSafeSeq
    NoGap
PROPERTY ImplementsPublishedLog
SYMMETRY Symmetry
