SPECIFICATION Spec
CONSTANTS
  s1 = s1
  s2 = s2
  k1 = k1
  k2 = k2
  k3 = k3
  None = None
  Sessions = {s1, s2}
  Keys = {k1, k2, k3}
  Assignable = {"admin"}
  MaxFaults = 1
SYMMETRY Symmetry
INVARIANT NamedObjectsExist
INVARIANT NothingLingers
INVARIANT RoleMatchesIdentity
PROPERTY RulingStands
 
