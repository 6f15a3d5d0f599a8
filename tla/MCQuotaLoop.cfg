SPECIFICATION Spec
CONSTANTS
  r1 = r1
  d1 = d1
  Keys = {3, 5, 8, 9}
  NumShards = 1
  Streams = {r1}
  Decisions = {d1}
  Absent = Absent
  Entries <- FourExpiries
INVARIANTS
  LoopReturnsClosedForm
PROPERTIES
  LoopTerminates
CHECK_DEADLOCK FALSE
