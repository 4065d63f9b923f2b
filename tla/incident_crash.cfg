SPECIFICATION Spec
CONSTANTS
  Incidents = {m1}
  AutoVerdicts <- MCFaultVerdicts
  EnforceActions = {"delete_mute"}
  Channels = {FALSE}
  MaxTries = 2
  MaxMishaps = 1
INVARIANT SanctionVisibleAfterCrash
