\* Overlapping requests, two instances of the job, two faults of any kind.
CONSTANTS
  u1 = u1
  u2 = u2
  a1 = a1
  a2 = a2
  r1 = r1
  r2 = r2
  r3 = r3
  s1 = s1
  s2 = s2
  Users = {u1, u2}
  Ids = {a1}
  Reqs = {r1, r2, r3}
  Syncers = {s1, s2}
  NoSyncer = NoSyncer
  Faults = {"db", "skip", "redis", "lose", "crash", "expiry"}
  MaxFaults = 2
  Overlap = TRUE
SPECIFICATION Spec
SYMMETRY Symmetric
INVARIANTS TypeOK SingleSyncer NothingUndercounted NoDoubleSuccess
PROPERTIES LedgerSpec
