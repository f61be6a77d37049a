CONSTANTS
  w1 = w1
  w2 = w2
  e1 = e1
  e2 = e2
  Writers = {w1, w2}
  Rebuild = rebuild
  Entries = {e1, e2}
  MaxVersion = 2
  MaxQueue = 2
  MayFail = TRUE
SPECIFICATION Spec
SYMMETRY WriterAndEntrySymmetry
INVARIANT TypeOK
INVARIANT OrderlyMeansCurrent
