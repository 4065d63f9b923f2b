SPECIFICATION FairSpec
CONSTANTS
  Messages = {m1}
  Parts = {p1, p2}
  Presses = {c1, c2}
  Capacity = 1
  MaxMishaps = 1
INVARIANTS
  AtMostOnce
  NothingLeftBehind
PROPERTIES
  PressAnswered
  ShutdownEnds
CHECK_DEADLOCK FALSE
