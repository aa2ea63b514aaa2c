SPECIFICATION Spec
CONSTANTS
  s1 = s1
  s2 = s2
  s3 = s3
  p1 = p1
  v1 = v1
  c1 = c1
  k1 = k1
  a1 = a1
  w1 = w1
  w2 = w2
  half = half
  Sessions = {s1, s2, s3}
  Profiles = {p1}
  Services = {v1}
  Categories = {c1}
  Skills = {k1}
  Advisors = {a1}
  Drafts <- MCDrafts
  Edits <- MCEdits
  Duration = 3
  Step = 2
  Midnight = 8
  AllDay = AllDay
  MaxRequests = 4
  Placeholder = Placeholder
  Null = Null
  Gone = Gone
  None = None
SYMMETRY Symmetry
CHECK_DEADLOCK FALSE
INVARIANT WholeSchedules
INVARIANT SlotsAreExact
INVARIANT TextsKept
