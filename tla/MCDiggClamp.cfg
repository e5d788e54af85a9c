\* Overlapping toggles of one user, no faults.
CONSTANTS
  u1 = u1
  u2 = u2
  a1 = a1
  a2 = a2
  r1 = r1
  r2 = r2
  r3 = r3
  s1 = s1
  s2 = s2
  Users = {u1, u2}
  Ids = {a1}
  Reqs = {r1, r2}
  Syncers = {s1}
  NoSyncer = NoSyncer
  Faults = {}
  MaxFaults = 0
  Overlap = TRUE
SPECIFICATION Spec
INVARIANTS ExactCount
