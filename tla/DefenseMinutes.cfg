CONSTANTS
  Worker = {w1, w2}
  NoMinutes = NoMinutes
  NoRequest = NoRequest
  MaxRoster = 2
SPECIFICATION Spec
INVARIANT AmendmentRestartsSignatures
CHECK_DEADLOCK FALSE
