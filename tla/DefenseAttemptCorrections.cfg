CONSTANTS
  Panelist = {p1, p2}
  MaxHearing = 2
  Score = {1, 3}
  Qualifying = 2
  NoScore = NoScore
  VoidScore = VoidScore
  Automatic = TRUE
  AdviserRequired = FALSE
  Reassess = TRUE
  MaxRequests = 1
  Amendable = TRUE
SPECIFICATION Spec
SYMMETRY Symmetry
INVARIANTS TypeOK VerdictMatchesPanel
