SPECIFICATION Spec
CONSTANTS
  Team = {t1, t2}
  Key = {c1, c2}
  Title = {a, b}
  NoTitle = NoTitle
  NoKey = NoKey
  NoTeam = NoTeam
  ThreeConcepts = TRUE
  MaxRounds = 2
  MaxHearings = 2
  MaxDetours = 1
SYMMETRY Symmetry
INVARIANTS TypeOK DecidedOnAcceptedSet ChoiceSettlesModules ApprovedForSelection ModulesFollowRound
CHECK_DEADLOCK FALSE
