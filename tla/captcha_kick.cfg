SPECIFICATION Spec
CONSTANTS
  Modes <- MCButton
  OnFails <- MCKick
  Sanctions <- MCSanctions
  MaxAttempts = 1
  GiveUpTries = 2
  MaxMishaps = 0
INVARIANT KickSparesSanction
CHECK_DEADLOCK FALSE
