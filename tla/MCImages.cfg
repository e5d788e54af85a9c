CONSTANTS
  t1 = t1
  t2 = t2
  k1 = k1
  k2 = k2
  c1 = c1
  c2 = c2
  c3 = c3
  au1 = au1
  d1 = d1
  pass = pass
  block = block
  Tasks = {t1, t2}
  Keys = {k1, k2}
  Confirms = {c1, c2, c3}
  Audits = {au1}
  Removers = {d1}
  Verdicts = {pass, block}
  Pass = pass
  None = None
  LockExpiry = {t2}
  Articles = {"a"}
  Others = {"u"}
  RefKeys = {"k"}
  Foreign = "f"
  Contents <- MCContents
  MaxImages = 2
  MaxWrites = 3
  MaxStops = 1
SPECIFICATION ImagesSpec
INVARIANTS TypesOK ImagesWhole VerdictKept RefsFollowRows
PROPERTIES ReadyIsFinal
SYMMETRY Symmetry
CHECK_DEADLOCK FALSE
