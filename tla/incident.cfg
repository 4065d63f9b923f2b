SPECIFICATION FairSpec
CONSTANTS
  Incidents = {m1}
  AutoVerdicts <- MCVerdicts
  EnforceActions = {"delete_mute", "ban"}
  Channels = {TRUE, FALSE}
  MaxTries = 2
  MaxMishaps = 1
INVARIANTS
  SanctionVisible
  UndoLifts
  OverturnHolds
  EvidenceFirst
  NoSecondSanction
  CurrentCardLive
PROPERTY ClaimTransient
