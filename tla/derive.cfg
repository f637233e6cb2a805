SPECIFICATION FairDeriveSpec
CONSTANTS
  w1 = w1
  w2 = w2
  Pulls = {p1}
  Stacks = {s1}
  Heads = {h1}
  Content = {c1}
  Writers = {w1, w2}
  Derivers = {d1}
  Watermarker = wm
  Kinds <- WriterKinds
  DirtyCap = 1
  MaxFaults = 1
  None = None
INVARIANTS NoFenceCycle DirtyCoversCache
PROPERTY DirtyIsDerived
