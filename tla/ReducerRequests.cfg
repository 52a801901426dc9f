SPECIFICATION Spec
CONSTANTS
  t1 = t1
  t2 = t2
  turnA = turnA
  turnB = turnB
  approval = approval
  Threads = {t1}
  Turns = {turnA, turnB}
  Requests = {approval}
  MaxSeq = 2
  ThreadRecords <- Records
  ThreadEvents <- Events
  None = None
INVARIANTS RequestsAnnounced
