SPECIFICATION Spec
CONSTANTS
  s1 = s1
  s2 = s2
  r1 = r1
  r2 = r2
  q1 = q1
  q2 = q2
  q3 = q3
  ann = ann
  r3 = r3
  ben = ben
  None = None
  Sessions = {s1, s2}
  Advisees = {ann}
  Requests = {r1, r2}
  Questions = {q1, q2}
  MaxList = 1
SYMMETRY Symmetry
INVARIANT AnswersFitOneList
INVARIANT AdmittedWereAccepted
PROPERTY ImplementsDesk
