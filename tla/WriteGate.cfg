SPECIFICATION Spec
CONSTANTS
  d1 = d1
  d2 = d2
  d3 = d3
  b1 = b1
  r1 = r1
  j1 = j1
  Dependent = {d1, d2, d3}
  Direct = {b1}
  Readers = {r1}
  Jobs = {j1}
  Threads = 2
INVARIANT
  HangsIfShutOut
PROPERTY
  Answered
CHECK_DEADLOCK FALSE
