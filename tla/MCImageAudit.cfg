CONSTANTS
  t1 = t1
  t2 = t2
  k1 = k1
  k2 = k2
  c1 = c1
  c2 = c2
  c3 = c3
  au1 = au1
  d1 = d1
  pass = pass
  block = block
  Tasks = {t1}
  Keys = {k1}
  Confirms = {c1}
  Audits = {au1}
  Removers = {}
  Verdicts = {pass, block}
  Pass = pass
  None = None
  LockExpiry = {}
SPECIFICATION Spec
INVARIANTS VerdictApplied
SYMMETRY Symmetry
CHECK_DEADLOCK FALSE
