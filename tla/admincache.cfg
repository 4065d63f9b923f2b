SPECIFICATION FairSpec
CONSTANTS
  Callers = {c1, c2}
  NoCall = NoCall
  TTL = 1
  MaxChanges = 2
  MaxTime = 4
  MaxPanics = 1
INVARIANTS
  NeverOutdated
  AgeBounded
  SingleFlight
PROPERTIES
  BacksOff
  LookupEnds
