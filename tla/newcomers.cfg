SPECIFICATION Spec
CONSTANTS
  u1 = u1
  u2 = u2
  Users <- MCUsers
  Chats = {c1, c2}
  Greeting = {c1}
  BreakerErrors = 1
  Pause = 2
  Timeout = 1
  PositiveTTL = 2
  NegativeTTL = 1
  MaxEntries = 1
  MaxPerMinute = 1
  Window = 2
  MaxJobs = 2
  MaxMishaps = 2
SYMMETRY Symmetry
INVARIANTS
  PauseBounded
  RepeatsAccounted
  RateHolds
  ListedNotGreeted
