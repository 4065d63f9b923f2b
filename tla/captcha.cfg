SPECIFICATION FairSpec
CONSTANTS
  Modes <- MCModes
  OnFails <- MCOnFails
  Sanctions <- MCSanctions
  MaxAttempts = 1
  GiveUpTries = 2
  MaxMishaps = 1
INVARIANTS
  SanctionRespected
  NoPunishWithoutPrompt
  NobodyForgotten
PROPERTY Settles
