SPECIFICATION Spec
CONSTANTS
  s1 = s1
  s2 = s2
  r1 = r1
  r2 = r2
  r3 = r3
  p1 = p1
  q1 = q1
  f1 = f1
  ann = ann
  bob = bob
  cyd = cyd
  one = one
  five = five
  None = None
  Stars = {one, five}
  Sessions = {s1, s2}
  Refunds = {r1, r2, r3}
  Payouts = {p1}
  Reports = {q1}
  Flags = {f1}
  Admins = {ann, bob, cyd}
  Profiled = {ann, bob}
  MaxRequests = 3
SYMMETRY Symmetry
CHECK_DEADLOCK FALSE
INVARIANT AnswersHold
INVARIANT OpenCasesBounded
PROPERTY KeepsDocket
