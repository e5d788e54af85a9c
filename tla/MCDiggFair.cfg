\* One toggle at a time per user and article, fair scheduling; two
\* connections.
CONSTANTS
  u1 = u1
  u2 = u2
  a1 = a1
  a2 = a2
  r1 = r1
  r2 = r2
  r3 = r3
  s1 = s1
  s2 = s2
  Users = {u1, u2}
  Ids = {a1, a2}
  Reqs = {r1, r2, r3}
  Syncers = {s1}
  NoSyncer = NoSyncer
  Faults = {"db", "skip", "crash"}
  MaxFaults = 1
  Overlap = FALSE
  People = {u1, u2}
  Conns = {1, 2}
  Tickets = {1, 2}
  Nobody = Nobody
SPECIFICATION EndsSpec
INVARIANTS ExactCount
PROPERTIES EventuallyCounted ConnectionsEnd
CHECK_DEADLOCK FALSE
