SPECIFICATION Spec
CONSTANTS
  Incidents = {m1}
  Texts = {t1, t2}
  NoTokens = NoTokens
  MaxMishaps = 1
SYMMETRY MCSymmetry
INVARIANTS
  CountsMatch
  OneLabelPerText
  AuditTrue
  TokensKept
  
