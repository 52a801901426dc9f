SPECIFICATION FairSpec
CONSTANTS
  Watches = {w1}
  Callers = {c1}
  Readers = {r1}
  MaxSeq = 1
  OnLoop = FALSE
  NoOne = NoOne
PROPERTIES StopsEventually
