CONSTANTS
  Panelist = {p1, p2}
  MaxHearing = 2
  Score = {1, 3}
  Qualifying = 2
  NoScore = NoScore
  VoidScore = VoidScore
  Automatic = FALSE
  AdviserRequired = TRUE
  Reassess = FALSE
  MaxRequests = 1
  Amendable = FALSE
SPECIFICATION Spec
SYMMETRY Symmetry
INVARIANT PublishedComplete
PROPERTY PublishedOnlySuperseded
