SPECIFICATION Spec
CONSTANTS
  s1 = s1
  s2 = s2
  a1 = a1
  a2 = a2
  a3 = a3
  i1 = i1
  i2 = i2
  h1 = h1
  h2 = h2
  ann = ann
  ben = ben
  advice = advice
  bob = bob
  None = None
  Sessions = {s1, s2}
  Appointments = {a1, a2, a3}
  Invoices = {i1, i2}
  Charges = {h1}
  Advisees = {ann}
  Services = {advice}
  Advisors = {bob}
  OwnerOf <- MCOwnerOf
  Duration <- MCDuration
  Baskets <- TwoBaskets
  Buffer = 1
  PendingLimit = 1
  PendingTime = 0
  MaxTime = 1
SYMMETRY Symmetry
INVARIANT NoOverlap
INVARIANT InvoiceIsWhole
PROPERTY FailsOnlyOverdue
