SPECIFICATION FairSpec
CONSTANTS
  member = member
  chief = chief
  bot = bot
  Users <- MCUsers
  ChannelBot = bot
  Rosters <- MCRosters
  Channels = {"own"}
  LinkedChannel = "own"
  NoText = ""
  Posts <- MCPosts
  Configs <- MCConfigs
  TrustThreshold = 1
  DupThreshold = 2
  DupWindow = 1
  ShortThreshold = 2
  ShortWindow = 1
  ShortLen = 2
  FlagEdits = FALSE
  NameMatchSanction = FALSE
  CaptionMinLen = 3
  ReviewKeyboard = TRUE
  Providers = {p1, p2}
  Policies = {"any", "all"}
  MaxHandled = 2
  MaxChanges = 1
INVARIANTS
  FloodNoticed
  AdminImmune
  TrustEarned
  Justified
PROPERTIES
  Settled
