SPECIFICATION Spec
CONSTANTS
  s1 = s1
  s2 = s2
  s3 = s3
  b1 = b1
  b2 = b2
  b3 = b3
  bob = bob
  ann = ann
  advice = advice
  review = review
  None = None
  Sessions = {s1, s2}
  Bookings = {b1, b2, b3}
  Advisors = {bob}
  Advisees = {ann}
  Services = {advice}
  OwnerOf <- MCOwnerOf
  Duration <- MCDuration
  OpenStarts <- Apart
  ServiceLimit <- NoServiceLimit
  Policies <- OnePolicy
  HorizonDays = 1
  DayLength = 8
  MaxTime = 1
SYMMETRY Symmetry
INVARIANT ScheduleIsExclusive
INVARIANT TimeGivenBackWithNotice
INVARIANT RoomsMatchBookings
INVARIANT OneLiveBookingPerRoom
INVARIANT ToldOnce
PROPERTY OthersChangeLegally
PROPERTY ImplementsCalendar
