CONSTANTS
  Term = {t1, t2}
  Faculty = {f1, f2}
  Section = {s1, s2}
  Worker = {w1, w2}
  Admin = {w1}
  NoTerm = NoTerm
  MaxRows = 3
SPECIFICATION Spec
SYMMETRY Symmetry
INVARIANTS TypeOK SingleOwner UniqueAssignment
