SPECIFICATION Spec
CONSTANTS
  u1 = u1
  u2 = u2
  Users <- MCUsers
  Chats = {c1}
  Greeting = {c1}
  BreakerErrors = 1
  Pause = 2
  Timeout = 1
  PositiveTTL = 2
  NegativeTTL = 1
  MaxEntries = 1
  MaxPerMinute = 2
  Window = 2
  MaxJobs = 2
  MaxMishaps = 0
SYMMETRY Symmetry
INVARIANT WelcomedOnce
