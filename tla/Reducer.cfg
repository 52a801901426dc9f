SPECIFICATION Spec
CONSTANTS
  t1 = t1
  t2 = t2
  turnA = turnA
  turnB = turnB
  approval = approval
  Threads = {t1, t2}
  Turns = {turnA, turnB}
  Requests = {approval}
  MaxSeq = 2
  ThreadRecords <- Records
  ThreadEvents <- Events
  None = None
SYMMETRY Symmetry
INVARIANTS TypeOK NothingUnannounced NothingRepeated RedeliveryIsSilent Converges AnnouncesAlike
