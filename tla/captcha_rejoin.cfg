SPECIFICATION Spec
CONSTANTS
  Modes <- MCButton
  OnFails <- MCKick
  Sanctions <- MCNoSanctions
  MaxAttempts = 2
  GiveUpTries = 1
  MaxMishaps = 1
INVARIANTS
  PassedByOwnButton
PROPERTY ImplementsLife
