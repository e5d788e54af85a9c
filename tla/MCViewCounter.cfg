\* Visits of a user and a guest over a midnight, with crashes and failures.
CONSTANTS
  v1 = v1
  g1 = g1
  a1 = a1
  a2 = a2
  r1 = r1
  r2 = r2
  r3 = r3
  r4 = r4
  s1 = s1
  s2 = s2
  NoSyncer = NoSyncer
  Viewers = {v1, g1}
  Guests = {g1}
  Ids = {a1, a2}
  Reqs = {r1, r2, r3}
  Syncers = {s1}
  Faults = {"db", "skip", "redis", "crash"}
  MaxFaults = 2
  Overlap = FALSE
  Straddle = FALSE
  MaxDay = 1
  Titles = {"default", "x"}
  Default = "default"
  MaxFolders = 2
  FavReqs = {r1, r2, r3}
  Commenters = {}
  Author = "author"
  Admin = "admin"
  ComReqs = {r1, r2, r3, r4}
  MaxComments = 3
SPECIFICATION CountSpec
SYMMETRY Symmetric
INVARIANTS TypesOK ViewsCounted OncePerDay MarksExpire
  FavorsCounted
  CommentsCounted
