SPECIFICATION FairSpec
CONSTANTS
  s1 = s1
  s2 = s2
  s3 = s3
  b1 = b1
  b2 = b2
  b3 = b3
  bob = bob
  ann = ann
  advice = advice
  review = review
  None = None
  Sessions = {s1, s2}
  Bookings = {b1, b2}
  Advisors = {bob}
  Advisees = {ann, bob}
  Services = {advice, review}
  OwnerOf <- MCOwnerOf
  Duration <- MCDuration
  OpenStarts <- AfterAdvice
  ServiceLimit <- AdviceOnce
  Policies <- TwoPolicies
  HorizonDays = 1
  DayLength = 8
  MaxTime = 0

INVARIANT NoOverlap
PROPERTY CreationRespectsDailyLimit
PROPERTY EveryRequestAnswered
