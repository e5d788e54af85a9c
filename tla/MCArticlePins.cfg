\* A user pins two articles at once.
CONSTANTS
  r1 = r1
  r2 = r2
  Authors = {"u"}
  Admin = "adm"
  Tags = {"t"}
  Reqs = {r1, r2}
  NoDoc = NoDoc
  NoField = NoField
  Nobody = Nobody
  MaxPins = 1
  MaxArticles = 2
  Seeds <- MCPinSeeds
SPECIFICATION ArtSpec
SYMMETRY Symmetric
INVARIANT PinLimit
CHECK_DEADLOCK FALSE
