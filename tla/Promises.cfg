\* What must come to an end under fair scheduling.
SPECIFICATION Spec
CONSTANTS
  None = None
  a1 = a1
  a2 = a2
  w1 = w1
  o1 = o1
  o2 = o2
  r1 = r1
  r2 = r2
  p1 = p1
  n1 = n1
  u1 = u1
  u2 = u2
  s1 = s1
  c1 = c1
  c2 = c2
PROPERTIES
  CheckpointsReclaimed
  SlotsComeBack
  StreamsEnd
  CallsReturn
CHECK_DEADLOCK FALSE
