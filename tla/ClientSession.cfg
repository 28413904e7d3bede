CONSTANTS
  Caller = {c1, c2}
  Timer = {k}
  Startup = startup
  NoCaller = nobody
  MaxToken = 4
SPECIFICATION Spec
CHECK_DEADLOCK FALSE
INVARIANTS TypeOK StoredTokenUsable
PROPERTIES CallsEnd RestorationEnds LogoutEnds
