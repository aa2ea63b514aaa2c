SPECIFICATION RoomSpec
CONSTANTS
  s1 = s1
  s2 = s2
  ann = ann
  bob = bob
  m1 = m1
  m2 = m2
  NoOne = NoOne
  Sends = {s1, s2}
  Members = {ann, bob}
  Movers = {ann, bob}
  Messages = {m1, m2}
SYMMETRY Symmetry
INVARIANT Reached
INVARIANT WithheldNotTold
