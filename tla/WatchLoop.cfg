SPECIFICATION Spec
CONSTANTS
  Watches = {w1, w2}
  Callers = {c1}
  Readers = {r1, r2}
  MaxSeq = 2
  OnLoop = TRUE
  NoOne = NoOne
SYMMETRY Symmetry
INVARIANTS TypeOK SoleReader  NoEndedReaderRegistered
PROPERTIES TargetsOnlyFromWatch KeepsPromise
