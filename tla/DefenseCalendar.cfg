CONSTANTS
  Team = {A, B}
  Person = {p, q}
  Room = {m, n}
  Key = {k}
  Nobody = Nobody
  None = None
  Day = 4
  Duration = 2
  MaxHearing = 2
  MaxChanges = 4
SPECIFICATION Spec
SYMMETRY Symmetry
CONSTRAINT ScreenMaySave
INVARIANTS TypeOK ConflictsComeFromTheBoard NobodyScheduledTwice PlanTakesEarliest
PROPERTY ActedOnWhatWasSeen
CHECK_DEADLOCK FALSE
