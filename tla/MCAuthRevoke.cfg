CONSTANTS
  u1 = u1
  u2 = u2
  s1 = s1
  s2 = s2
  r1 = r1
  r2 = r2
  r3 = r3
  Users = {u1}
  Sessions = {s1, s2}
  Reqs = {r1, r2, r3}
  StaleUsers = {}
  MaxChanges = 1
SYMMETRY Symmetry
SPECIFICATION Spec
INVARIANT RevocationNeverFails
CHECK_DEADLOCK FALSE
