SPECIFICATION FairSpec
CONSTANTS
  ban = ban
  del = del
  card = card
  group = group
  admins = admins
  Requests <- MCRequests
  Prio <- MCPrio
  Chat <- MCChat
  MaxRetries = 1
  Nobody = Nobody
  NoChat = NoChat
INVARIANTS
  RightLimiter
  AnswerTrue
  InOrder
PROPERTY CallerReturns
CHECK_DEADLOCK FALSE
