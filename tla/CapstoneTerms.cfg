CONSTANTS
  Student = {s1, s2}
  Team = {A, B}
  Request = {r}
  MaxDialog = 2
  NoRequest = none
  MaxTerm = 3
  MaxLog = 4
SPECIFICATION Spec
SYMMETRY Symmetry
INVARIANTS TypeOK SinglePlacement RosterPlaced EffectOnce
PROPERTIES ClosedRowsFinal MovedAsReviewed TermsExplained ParticipationsFollow
CHECK_DEADLOCK FALSE
