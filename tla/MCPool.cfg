SPECIFICATION FairSpec
CONSTANTS
  None = None
  Sessions = {s1, s2}
  Clients = {c1, c2, c3}
  Advisors = {bob, eve}
  Reads = 2
INVARIANT PoolKeepsMoving
PROPERTY EveryRequestAnswered
