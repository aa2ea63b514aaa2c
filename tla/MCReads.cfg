SPECIFICATION ReadsSpec
CONSTANTS
  s1 = s1
  s2 = s2
  ann = ann
  bob = bob
  Nothing = Nothing
  Writers = {s1, s2}
  Members = {ann, bob}
  Readers = {bob}
  Messages = {1, 2, 3}
  PerMs = 2
  MaxClock = 3
  Limit = 1
  Rows = {1, 2, 3}
  Stamps = {1, 2}
  PageLimit = 1
  ScanLimit = 2
  MaxChanges = 2
  MaxAge = 2
  SetRoles = {"advisee", "admin"}
SYMMETRY Symmetry
INVARIANT PagesAreNew
INVARIANT WalkMissesOnlyTies
INVARIANT ShownOnce
INVARIANT PromisedPagesHaveRows
INVARIANT AnsweredByRecentRole
PROPERTY ReadStaysRead
