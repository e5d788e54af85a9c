\* Sessions of two users; three article requests, four of a visitor.
CONSTANTS
  u1 = u1
  u2 = u2
  s1 = s1
  s2 = s2
  r1 = r1
  r2 = r2
  r3 = r3
  r4 = r4
  Users = {u1, u2}
  Sessions = {s1, s2}
  Reqs = {r1, r2, r3}
  StaleUsers = {u2}
  MaxChanges = 2
  Nobody = Nobody
  Absent = Absent
  None = None
  Failure = Failure
  Authors = {"u"}
  Admin = "adm"
  Tags = {"t"}
  Seeds <- MCSeeds
  NoDoc = NoDoc
  NoField = NoField
  MaxPins = 1
  MaxArticles = 2
  Members = {"m"}
  Guest = Guest
  Blank = Blank
  Categories = {"c"}
  LikeTags <- MCLikeTags
  Index <- MCIndex
  Fields <- MCFields
  Values <- MCValues
  Placeholder = Placeholder
  Zero = 0
  Default = 9
  NoRow = NoRow
  Edits = {1, 2}
  Visits = {1, 2, 3}
  KeepDays = 2
  MaxDay = 3
  Emails = {"e"}
  OpenIds = {"o"}
  IPs = {"ip"}
  Visitors = {r1, r2, r3, r4}
  Member = me
  Kinds = {1}
  KnownKinds = {}
  MaxFail = 2
  MaxSend = 1
  MaxName = 1
  MaxChars = 12
  DirectMax = 15
  MinChars = 3
  Prefix = 2
  SmallLimit = 3
  MaxIssues = 9
  Names = {"x", "y"}
  Types = {exp, arg}
  Expository = exp
  OtherType = OtherType
  Papers <- MCPapers
  Weights <- MCWeights
  Replies <- MCReplies
SPECIFICATION AllSpec
SYMMETRY Symmetry
INVARIANTS
  TypesOK
  BlacklistIsRedundant
  CurrentSessionsKeepVersion
  LockedPinLimit
  TagsCounted
  SearchFollowsRules
  SiteKept
  SignUpsSound
  ScoringSound
PROPERTIES RevokedStaysRevoked
CHECK_DEADLOCK FALSE
