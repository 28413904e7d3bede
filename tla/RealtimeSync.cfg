CONSTANTS
  Attempt = {a1, a2, a3}
  Socket = {s1, s2, s3, s4, s5, s6}
  NoSocket = none
  MaxChange = 3
SPECIFICATION Spec
CHECK_DEADLOCK FALSE
INVARIANTS TypeOK StudentCovered
PROPERTY StudentReconnects
