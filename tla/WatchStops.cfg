SPECIFICATION Spec
CONSTANTS
  Watches = {w1}
  Callers = {c1}
  Readers = {r1, r2}
  LoopSeq = 1
  ThreadSeq = 0
  NoOne = NoOne
PROPERTIES StopsEventually
